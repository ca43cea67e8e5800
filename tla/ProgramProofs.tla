---------------------------- MODULE ProgramProofs ----------------------------
(***************************************************************************)
(* Proofs about Program, for all programs, forms and numbers of them: what *)
(* the three passes and the bodies write agrees with the declarations.     *)
(***************************************************************************)
EXTENDS Program, FiniteSetTheorems, WellFoundedInduction, TLAPS

-----------------------------------------------------------------------------
(* The inductive invariant.                                                *)

\* A base that is no mistake of the compiler's: one of its own, a struct the text will
\* define, or a name the program declares nowhere or takes for a struct.
Known(b) ==
    \/ b \in Bases \cup DeclaredAs("struct") \cup {"Arena"}
    \/ b \in DeclaredAs("alias") => TakenForStruct(b)

\* The provers do not know that a word in quotes is in STRING.
Words == STRING \cup Bases \cup DOMAIN Preset \cup {"", "Arena", "arena-create"}
Ops   == {"type", "define", "declare", "store", "call", "ccall", "load", "gep", "make",
          "set-field", "let", "set", "ret", "implicit-ret"}

KnownTypes == {t \in [base : Words, stars : Nat] : Known(t.base)}
FieldSeqs  == Seq([name : Words, ty : KnownTypes])
Sigs       == [ret : KnownTypes, params : Seq(KnownTypes)]
Values     == [ty : KnownTypes, as : {"reg", "zero", "none"}]
TextLines  == [op : Ops, name : Words, ret : KnownTypes, wrote : Seq(KnownTypes),
               has : Seq(KnownTypes), val : KnownTypes]

Typed ==
    /\ aliases \in [DOMAIN aliases -> KnownTypes]
    /\ structs \in [DOMAIN structs -> FieldSeqs]
    /\ fns \in [DOMAIN fns -> Sigs]
    /\ env \in FieldSeqs /\ it \in Values /\ last \in Values

\* Where the passes are.
Walk ==
    /\ decls \in Programs /\ at \in 1..Len(decls) + 1 /\ nforms \in 0..MaxForms
    /\ phase \in {"types", "signatures", "functions", "body", "done", "fatal", "crashed"}
    /\ phase = "body" => at <= Len(decls) /\ decls[at].kind \in {"fn", "entry"}
    /\ phase = "done" => at = Len(decls) + 1
    /\ phase \in {"types", "signatures"} => declared = {} /\ asked = <<>>
    /\ phase \in {"types", "signatures", "functions", "done"} => function = <<<<>>, NoValue, NoValue>>

\* How many declarations each pass has done.
TypesRead == IF phase = "types" THEN at - 1 ELSE Len(decls)
SignaturesRead == IF phase = "types" THEN 0 ELSE IF phase = "signatures" THEN at - 1 ELSE Len(decls)
Opened == IF phase \in {"types", "signatures"} THEN 0
          ELSE IF phase \in {"functions", "done"} THEN at - 1 ELSE at

NamedIn(kinds, n) == {decls[i].name : i \in {j \in 1..n : decls[j].kind \in kinds}}

\* Struct s is as declaration i, the last so far, has it; a type in it may be out of
\* date only if its alias came later.
StructFrom(s, i) ==
    /\ decls[i].kind = "struct" /\ decls[i].name = s
    /\ \A j \in i + 1..TypesRead : decls[j].kind = "struct" => decls[j].name # s
    /\ DOMAIN structs[s] = DOMAIN decls[i].fields
    /\ \A k \in DOMAIN structs[s] :
          /\ structs[s][k].name = decls[i].fields[k].name
          /\ \/ structs[s][k].ty = Parse(aliases, decls[i].fields[k].node)
             \/ \E j \in i..TypesRead : decls[j].kind = "alias" /\ decls[j].name = decls[i].fields[k].node.name

TypesPass ==
    /\ DOMAIN aliases = NamedIn({"alias"}, TypesRead)
    /\ DOMAIN structs = NamedIn({"struct"}, TypesRead)
    /\ \A s \in DOMAIN structs : \E i \in 1..TypesRead : StructFrom(s, i)

SignaturesPass ==
    /\ DOMAIN fns \subseteq DOMAIN BuiltIn \cup NamedIn({"fn", "entry"}, Len(decls))
    /\ \A p \in 1..SignaturesRead :
          decls[p].kind \in {"fn", "entry"} /\ DeclaredFns(decls[p].name) = {p}
                /\ decls[p].name \notin DOMAIN BuiltIn =>
             decls[p].name \in DOMAIN fns /\ fns[decls[p].name] = Signature(decls[p])

Callee(n) == IF n \in DOMAIN fns THEN fns[n] ELSE Sig(I32, <<>>)

\* What holds of every line by itself.
GoodOperands(l) ==
    /\ \A k \in DOMAIN l.wrote : l.has[k] # l.wrote[k] => <<l.op, k>> \in Unchecked
    /\ l.val # l.ret => l.name = "printf"
GoodLine(l) ==
    /\ GoodOperands(l)
    /\ l.op = "call" =>
          /\ l.ret = Callee(l.name).ret
          /\ \A k \in DOMAIN l.wrote :
                l.wrote[k] = IF k \in DOMAIN Callee(l.name).params THEN Callee(l.name).params[k] ELSE I32
    /\ l.op = "ccall" => l.name \in declared

TextGood ==
    /\ text \in Seq(TextLines)
    /\ phase = "types" => text = <<>>
    /\ \A i \in DOMAIN text : GoodLine(text[i])
    /\ phase = "signatures" => \A i \in DOMAIN text : text[i].op = "type"

TypeLines ==
    /\ \A i, j \in Lines({"type"}) : text[i].name = text[j].name => i = j
    /\ phase # "types" => \A s \in DOMAIN structs : \E j \in Lines({"type"}) : text[j].name = s
    /\ phase = "signatures" => \A j \in Lines({"type"}) : text[j].name \in DOMAIN structs
    /\ phase \notin {"types", "signatures"} => \E j \in Lines({"type"}) : text[j].name = "Arena"

\* Every function opened so far has its header in the text, and nothing else has one.
HeaderOf(d, p) ==
    /\ text[d].name = decls[p].name /\ text[d].ret = Parse(aliases, decls[p].node)
    /\ text[d].wrote = HeaderParams(decls[p])
DefineLines ==
    /\ \A p \in 1..Opened : decls[p].kind \in {"fn", "entry"} => \E d \in Lines({"define"}) : HeaderOf(d, p)
    /\ \A d \in Lines({"define"}) :
          text[d].name = "arena-create" \/ \E p \in 1..Opened : p \in DeclaredFns(text[d].name)
    /\ \A d, e \in Lines({"define"}) : text[d].name = text[e].name /\ d # e =>
          \/ \E p, q \in DeclaredFns(text[d].name) : p # q
          \/ text[d].name = "arena-create" /\ DeclaredFns(text[d].name) # {}

DeclareLines ==
    /\ \A d \in Lines({"declare"}) : text[d].name \in declared
    /\ \A n \in declared : \E d \in Lines({"declare"}) : text[d].name = n
    /\ \A d, e \in Lines({"declare"}) : text[d].name = text[e].name => d = e
    /\ \A d \in Lines({"declare"}) :
          text[d].name \in DOMAIN Preset \/ \E c \in Lines({"ccall"}) : text[c].name = text[d].name
    /\ phase \notin {"types", "signatures"} => DOMAIN Preset \subseteq declared

\* The assignments in the text are those to a field the last declaration of the struct has.
AssignmentsCounted ==
    Cardinality(Lines({"set-field"})) = Cardinality({i \in DOMAIN asked : FieldDeclared(asked[i])})

IInv ==
    /\ Walk /\ Typed /\ TypesPass /\ SignaturesPass
    /\ TextGood /\ TypeLines /\ DefineLines /\ DeclareLines
    /\ CcallsDeclared
    /\ AssignmentsCounted /\ asked \in Seq([base : KnownTypes, field : Words])

-----------------------------------------------------------------------------
(* Types and what is parsed into them.                                     *)

LEMMA DeclTyped ==
    ASSUME Walk
    PROVE  /\ decls \in Seq(Decls)
           /\ \A i \in DOMAIN decls : decls[i] \in Decls /\ decls[i].name \notin Bases
<1>1. decls \in Seq(Decls) /\ \A i \in DOMAIN decls : decls[i].name \notin Bases
  BY ProgramAssumption DEF Walk
<1>2. ASSUME NEW i \in DOMAIN decls PROVE decls[i] \in Decls
  BY <1>1
<1> QED BY <1>1, <1>2

LEMMA FormTyped ==
    ASSUME NEW f \in Forms
    PROVE  /\ f.form \in OneOperand \cup TwoOperands \cup {"call", "ccall"}
           /\ f.name \in STRING /\ f.node \in TypeNodes /\ f.nodes \in Seq(TypeNodes) /\ f.n \in Nat
           /\ f.form \in OneOperand => f.n = 1
           /\ f.form \in TwoOperands => f.n = 2
           /\ f.form = "ccall" => f.n = Len(f.nodes)
  BY ProgramAssumption

LEMMA OwnTypes ==
    /\ I32 \in KnownTypes /\ I8Ptr \in KnownTypes /\ Void \in KnownTypes /\ NoValue \in Values
    /\ Zero \in Values /\ ArenaPtr \in KnownTypes
    /\ T("Arena", 0) \in KnownTypes /\ NoValue.ty \in KnownTypes
<1>1. \A b \in Bases \cup {"Arena"} : \A k \in Nat : T(b, k) \in KnownTypes
  <2>1. \A b \in Bases \cup {"Arena"} : Known(b)
    BY DEF Known
  <2> QED BY <2>1 DEF T, KnownTypes, Words
<1>2. /\ I32 \in KnownTypes /\ I8Ptr \in KnownTypes /\ Void \in KnownTypes
      /\ T("(none)", 0) \in KnownTypes /\ T("Arena", 0) \in KnownTypes
  BY <1>1 DEF I32, I8Ptr, Void, Bases
<1>3. ArenaPtr = T("Arena", 1)
  BY DEF ArenaPtr, Ptr, T
<1>4. NoValue \in Values /\ Zero \in Values /\ NoValue.ty = T("(none)", 0)
  BY <1>2 DEF NoValue, Zero, Value, Values
<1> QED BY <1>1, <1>2, <1>3, <1>4 DEF Bases

LEMMA PointersKnown ==
    ASSUME NEW t \in KnownTypes
    PROVE  Ptr(t) \in KnownTypes /\ (IsPtr(t) => Pointee(t) \in KnownTypes)
<1>1. t.base \in Words /\ t.stars \in Nat /\ Known(t.base) /\ t = [base |-> t.base, stars |-> t.stars]
  BY DEF KnownTypes
<1>2. Ptr(t) = [base |-> t.base, stars |-> t.stars + 1]
  BY <1>1 DEF Ptr
<1>3. Pointee(t) = [base |-> t.base, stars |-> t.stars - 1]
  BY <1>1 DEF Pointee
<1> QED BY <1>1, <1>2, <1>3 DEF KnownTypes, IsPtr

LEMMA ParseKnown ==
    ASSUME NEW known, known \in [DOMAIN known -> KnownTypes], NEW n \in TypeNodes,
           n.struct \/ n.name \notin DOMAIN known => Known(n.name)
    PROVE  Parse(known, n) \in KnownTypes
<1>1. n.name \in STRING /\ n.stars \in Nat
  BY DEF TypeNodes
<1> DEFINE t == IF n.struct THEN T(n.name, 0)
                ELSE IF n.name \in DOMAIN Primitive THEN Primitive[n.name]
                ELSE ParsedName(known, n.name)
<1>2. ASSUME Known(n.name) PROVE T(n.name, 0) \in KnownTypes
  BY <1>1, <1>2 DEF T, KnownTypes, Words
<1>3. \A x \in DOMAIN Primitive : Primitive[x] \in KnownTypes
  BY OwnTypes DEF Primitive
<1>4. t \in KnownTypes
  BY <1>2, <1>3 DEF ParsedName
<1>5. Parse(known, n) = [t EXCEPT !.stars = @ + n.stars]
  BY DEF Parse
<1> HIDE DEF t
<1>6. t.base \in Words /\ t.stars \in Nat /\ Known(t.base) /\ t = [base |-> t.base, stars |-> t.stars]
  BY <1>4 DEF KnownTypes
<1>7. Parse(known, n) = [base |-> t.base, stars |-> t.stars + n.stars]
  BY <1>5, <1>6
<1> QED BY <1>1, <1>6, <1>7 DEF KnownTypes

\* What the last two passes read.
LEMMA ReadLater ==
    ASSUME Walk, Typed, TypesPass, phase # "types"
    PROVE  /\ \A i \in DOMAIN decls : \A n \in Nodes(decls[i]) :
                  n \in TypeNodes => Parse(aliases, n) \in KnownTypes
           /\ \A f \in Forms : \A n \in {f.node} \cup Range(f.nodes) :
                  n \in TypeNodes => Parse(aliases, n) \in KnownTypes
<1>1. aliases \in [DOMAIN aliases -> KnownTypes]
  BY DEF Typed
<1>2. DOMAIN aliases = DeclaredAs("alias")
  BY DeclTyped DEF TypesPass, TypesRead, NamedIn, DeclaredAs
<1>3. ASSUME NEW n \in TypeNodes, n.struct => TakenForStruct(n.name)
      PROVE  Parse(aliases, n) \in KnownTypes
  BY <1>1, <1>2, <1>3, ParseKnown DEF Known
<1>4. \A i \in DOMAIN decls : \A n \in Nodes(decls[i]) : n.struct => TakenForStruct(n.name)
  BY DEF TakenForStruct
<1>5. \A f \in Forms : \A n \in {f.node} \cup Range(f.nodes) : n.struct => TakenForStruct(n.name)
  BY DEF TakenForStruct
<1> QED BY <1>3, <1>4, <1>5

\* What the first pass reads.
LEMMA ReadFirst ==
    ASSUME Walk, Typed, TypesPass, phase = "types", at <= Len(decls), decls[at].kind \in {"alias", "struct"},
           NEW n \in TypeNodes, n \in Nodes(decls[at])
    PROVE  Parse(aliases, n) \in KnownTypes
<1>1. aliases \in [DOMAIN aliases -> KnownTypes]
  BY DEF Typed
<1>2. at \in DOMAIN decls
  BY DeclTyped DEF Walk
<1>3. n.struct => TakenForStruct(n.name)
  BY <1>2 DEF TakenForStruct
<1>4. ASSUME n.name \notin DOMAIN aliases PROVE TakenForStruct(n.name)
  <2>1. \A j \in 1..at - 1 : decls[j].kind = "alias" => decls[j].name # n.name
    BY <1>4 DEF TypesPass, TypesRead, NamedIn
  <2> QED BY <1>2, <2>1 DEF TakenForStruct
<1> QED BY <1>1, <1>3, <1>4, ParseKnown DEF Known

-----------------------------------------------------------------------------
(* Text grows at its end.                                                  *)

LEMMA OneMore ==
    ASSUME NEW S, NEW s \in Seq(S), NEW x \in S
    PROVE  /\ s \o <<x>> \in Seq(S)
           /\ Len(s) \in Nat /\ Len(s) + 1 \notin DOMAIN s
           /\ DOMAIN (s \o <<x>>) = DOMAIN s \cup {Len(s) + 1}
           /\ (s \o <<x>>)[Len(s) + 1] = x
           /\ \A i \in DOMAIN s : (s \o <<x>>)[i] = s[i] /\ i < Len(s) + 1
  OBVIOUS

Adds(l) == text' = text \o <<l>>

\* Nothing that a line or a header is read against has changed.
LEMMA SameTables ==
    ASSUME UNCHANGED <<decls, tables>>
    PROVE  /\ KnownTypes' = KnownTypes /\ TextLines' = TextLines
           /\ FieldSeqs' = FieldSeqs /\ Sigs' = Sigs /\ Values' = Values
           /\ \A n : DeclaredFns(n)' = DeclaredFns(n) /\ Callee(n)' = Callee(n)
           /\ \A a : FieldDeclared(a)' = FieldDeclared(a)
           /\ \A d : HeaderParams(d)' = HeaderParams(d)
           /\ \A k : DeclaredAs(k)' = DeclaredAs(k)
<1>1. KnownTypes' = KnownTypes
  BY DEF KnownTypes, Known, DeclaredAs, TakenForStruct
<1>2. \A n : DeclaredFns(n)' = DeclaredFns(n) /\ Callee(n)' = Callee(n)
  BY DEF DeclaredFns, Callee, tables
<1>3. \A a : FieldDeclared(a)' = FieldDeclared(a)
  BY DEF FieldDeclared, DeclaredAs, LastStruct
<1>4. \A d : HeaderParams(d)' = HeaderParams(d)
  BY DEF HeaderParams, ParamType, tables
<1> QED BY <1>1, <1>2, <1>3, <1>4 DEF TextLines, FieldSeqs, Sigs, Values, DeclaredAs

LEMMA QuietLine ==
    ASSUME IInv, NEW l \in TextLines, GoodLine(l),
           l.op \notin {"type", "declare"},
           phase \notin {"types", "signatures"}, phase' \notin {"types", "signatures"},
           Adds(l), UNCHANGED <<decls, tables, declared>>
    PROVE  /\ TextGood' /\ TypeLines' /\ DeclareLines' /\ CcallsDeclared'
           /\ (l.op # "define" /\ Opened' = Opened => DefineLines')
           /\ Lines({"set-field"})' = IF l.op = "set-field" THEN Lines({"set-field"}) \cup {Len(text) + 1}
                                     ELSE Lines({"set-field"})
<1> DEFINE n == Len(text) + 1
<1>1. text \in Seq(TextLines)
  BY DEF IInv, TextGood
<1>2. /\ text' \in Seq(TextLines) /\ DOMAIN text' = DOMAIN text \cup {n} /\ n \notin DOMAIN text
      /\ text'[n] = l /\ \A i \in DOMAIN text : text'[i] = text[i] /\ i < n
  BY <1>1, OneMore DEF Adds
<1> HIDE DEF n
<1>3. \A o : l.op # o => Lines({o})' = Lines({o})
  BY <1>2 DEF Lines
<1>4. TextGood'
  <2>1. \A x : GoodLine(x)' <=> GoodLine(x)
    BY SameTables DEF GoodLine, GoodOperands
  <2> QED BY <1>2, <2>1, SameTables DEF TextGood, IInv
<1>5. TypeLines'
  <2>1. Lines({"type"})' = Lines({"type"}) /\ \A i \in Lines({"type"}) : text'[i] = text[i]
    BY <1>2, <1>3 DEF Lines
  <2> QED BY <2>1 DEF TypeLines, IInv, tables
<1>6. ASSUME l.op # "define", Opened' = Opened PROVE DefineLines'
  <2>1. Lines({"define"})' = Lines({"define"}) /\ \A i \in Lines({"define"}) : text'[i] = text[i]
    BY <1>2, <1>3, <1>6 DEF Lines
  <2>2. \A p : \A d \in Lines({"define"}) : HeaderOf(d, p)' <=> HeaderOf(d, p)
    BY <2>1, SameTables DEF HeaderOf, tables
  <2> QED BY <1>6, <2>1, <2>2, SameTables DEF DefineLines, IInv
<1>7. Lines({"declare"})' = Lines({"declare"}) /\ \A i \in Lines({"declare"}) : text'[i] = text[i]
  BY <1>2, <1>3 DEF Lines
<1>8. Lines({"ccall"}) \subseteq Lines({"ccall"})' /\ \A i \in Lines({"ccall"}) : text'[i] = text[i] /\ i < n
  BY <1>2 DEF Lines
<1>9. DeclareLines'
  BY <1>7, <1>8 DEF DeclareLines, IInv
<1>10. CcallsDeclared'
  <2>1. ASSUME NEW c \in Lines({"ccall"})
        PROVE  \E d \in Lines({"declare"})' :
                  /\ text'[d].name = text'[c].name
                  /\ \/ text'[c].name \in DOMAIN Preset
                     \/ \E b \in Lines({"ccall"})' : b < c /\ text'[b].name = text'[c].name
                     \/ text'[d].ret = text'[c].ret /\ text'[d].wrote = text'[c].wrote
    BY <1>7, <1>8 DEF CcallsDeclared, IInv
  <2>2. ASSUME l.op = "ccall"
        PROVE  \E d \in Lines({"declare"})' :
                  /\ text'[d].name = l.name
                  /\ l.name \in DOMAIN Preset \/ \E b \in Lines({"ccall"})' : b < n /\ text'[b].name = l.name
    BY <2>2, <1>7, <1>8 DEF DeclareLines, IInv, GoodLine
  <2>3. \A c \in Lines({"ccall"})' : c \in Lines({"ccall"}) \/ (c = n /\ l.op = "ccall")
    BY <1>2 DEF Lines
  <2> QED BY <1>2, <2>1, <2>2, <2>3 DEF CcallsDeclared
<1>11. Lines({"set-field"})' = IF l.op = "set-field" THEN Lines({"set-field"}) \cup {n} ELSE Lines({"set-field"})
  BY <1>2, <1>3 DEF Lines
<1> QED BY <1>4, <1>5, <1>6, <1>9, <1>10, <1>11 DEF n

LEMMA SameAsked ==
    ASSUME IInv, UNCHANGED <<decls, tables, asked>>, Lines({"set-field"})' = Lines({"set-field"})
    PROVE  AssignmentsCounted' /\ (asked \in Seq([base : KnownTypes, field : Words]))'
  BY SameTables DEF AssignmentsCounted, IInv

-----------------------------------------------------------------------------
(* What the forms read from the tables.                                    *)

LEMMA Least ==
    ASSUME NEW U \in SUBSET Nat, U # {}
    PROVE  \E x \in U : \A y \in U : x <= y
<1> DEFINE R == OpToRel(<, Nat)
<1>1. IsWellFoundedOn(R, Nat)
  BY NatLessThanWellFounded
<1>2. \A x, y \in Nat : x < y => <<x, y>> \in R
  BY DEF OpToRel
<1> HIDE DEF R
<1>3. PICK x \in U : \A y \in U : ~ (<<y, x>> \in R)
  <2>1. \E x \in U : \A y \in U : ~ (<<y, x>> \in R)
    BY <1>1, WFMin
  <2> QED
    BY <2>1
<1>4. ASSUME NEW y \in U
      PROVE  x <= y
  <2>1. x \in Nat /\ y \in Nat
    OBVIOUS
  <2>2. ~ (y < x)
    BY <1>2, <1>3, <2>1
  <2> QED
    BY <2>1, <2>2
<1> QED
  BY <1>4

LEMMA Greatest ==
    ASSUME NEW n \in Nat, NEW U \in SUBSET (1..n), U # {}
    PROVE  \E x \in U : \A y \in U : y <= x
<1> DEFINE D == {n - i : i \in U}
<1>1. D \in SUBSET Nat /\ D # {}
  <2>1. \A i \in 1..n : n - i \in Nat
    OBVIOUS
  <2>2. \A i \in U : n - i \in Nat
    BY <2>1
  <2> QED
    BY <2>2
<1>2. PICK d \in D : \A y \in D : d <= y
  <2> HIDE DEF D
  <2> QED
    BY <1>1, Least
<1>3. PICK x \in U : d = n - x
  OBVIOUS
<1>4. ASSUME NEW y \in U
      PROVE  y <= x
  <2>1. n - y \in D
    OBVIOUS
  <2>2. n - x <= n - y
    BY <1>2, <1>3, <2>1
  <2>3. x \in Nat /\ y \in Nat
    OBVIOUS
  <2> QED
    BY <2>2, <2>3
<1> QED
  BY <1>4

\* env_find finds an entry of the name whenever there is one, so what the
\* environment answers for a name is a type and a register of it.

LEMMA EnvKnown ==
    ASSUME env \in FieldSeqs, NEW x
    PROVE  EnvType(x) \in KnownTypes
<1>1. Len(env) \in Nat /\ DOMAIN env = 1..Len(env)
  BY DEF FieldSeqs
<1>2. ASSUME NEW i \in DOMAIN env PROVE env[i].ty \in KnownTypes
  <2> DEFINE S == [name : Words, ty : KnownTypes]
  <2>1. env \in Seq(S)
    BY DEF FieldSeqs
  <2> HIDE DEF S
  <2>2. env[i] \in S
    BY <2>1
  <2> QED BY <2>2 DEF S
<1>4. CASE \E i \in DOMAIN env : env[i].name = x
  <2> DEFINE H == {i \in DOMAIN env : env[i].name = x}
  <2>1. H \in SUBSET (1..Len(env)) /\ H # {}
    BY <1>1, <1>4
  <2> HIDE DEF H
  <2>2. \E k \in H : \A j \in H : j <= k
    BY <1>1, <2>1, Greatest
  <2>3. \E k \in DOMAIN env : env[k].name = x /\ \A j \in DOMAIN env : env[j].name = x => j <= k
    BY <2>2 DEF H
  <2> QED BY <1>2, <1>4, <2>3 DEF EnvType
<1>3. CASE ~\E i \in DOMAIN env : env[i].name = x
  BY <1>3, OwnTypes DEF EnvType
<1> QED BY <1>3, <1>4

LEMMA FieldsKnown ==
    ASSUME structs \in [DOMAIN structs -> FieldSeqs], NEW t, NEW i
    PROVE  FieldAt(t, i) \in KnownTypes
<1>1. \A s : Layout(s) \in Seq([name : Words, ty : KnownTypes])
  <2>1. ArenaFields \in Seq([name : Words, ty : KnownTypes])
    <3>1. [name |-> "", ty |-> I8Ptr] \in [name : Words, ty : KnownTypes]
      BY OwnTypes DEF Words
    <3> DEFINE S == [name : Words, ty : KnownTypes]
               x == [name |-> "", ty |-> I8Ptr]
    <3>2. ArenaFields = [j \in 1..4 |-> x]
      BY DEF ArenaFields
    <3>3. x \in S
      BY <3>1
    <3> HIDE DEF S, x
    <3>4. [j \in 1..4 |-> x] \in Seq(S)
      BY <3>3
    <3> QED BY <3>2, <3>4 DEF S
  <2>2. <<>> \in Seq([name : Words, ty : KnownTypes])
    OBVIOUS
  <2>3. \A s \in DOMAIN structs : structs[s] \in Seq([name : Words, ty : KnownTypes])
    BY DEF FieldSeqs
  <2> QED BY <2>1, <2>2, <2>3 DEF Layout
<1>2. ASSUME i \in DOMAIN Layout(t.base) PROVE Layout(t.base)[i].ty \in KnownTypes
  <2> DEFINE S == [name : Words, ty : KnownTypes]
             fs == Layout(t.base)
  <2>1. fs \in Seq(S) /\ i \in DOMAIN fs
    BY <1>1, <1>2
  <2> HIDE DEF S, fs
  <2>2. fs[i] \in S
    BY <2>1
  <2> QED BY <2>2 DEF S, fs
<1> QED BY <1>2, OwnTypes DEF FieldAt

LEMMA IndexFound ==
    ASSUME structs \in [DOMAIN structs -> FieldSeqs], NEW s, NEW field
    PROVE  FieldIndex(s, field) # 0 <=>
              s \in DOMAIN structs /\ \E i \in DOMAIN structs[s] : structs[s][i].name = field
<1> DEFINE fields == IF s \in DOMAIN structs THEN structs[s] ELSE <<>>
           hits   == {i \in DOMAIN fields : fields[i].name = field}
<1>1. fields \in Seq([name : Words, ty : KnownTypes])
  <2>1. \A x \in DOMAIN structs : structs[x] \in Seq([name : Words, ty : KnownTypes])
    BY DEF FieldSeqs
  <2>2. <<>> \in Seq([name : Words, ty : KnownTypes])
    OBVIOUS
  <2> QED BY <2>1, <2>2
<1>2. hits \in SUBSET (Nat \ {0})
  BY <1>1
<1>3. FieldIndex(s, field) = IF hits = {} THEN 0 ELSE CHOOSE i \in hits : \A j \in hits : i <= j
  BY DEF FieldIndex
<1>4. hits # {} <=> s \in DOMAIN structs /\ \E i \in DOMAIN structs[s] : structs[s][i].name = field
  OBVIOUS
<1> HIDE DEF hits
<1>5. ASSUME hits # {} PROVE \E i \in hits : \A j \in hits : i <= j
  BY <1>2, <1>5, Least
<1> QED BY <1>2, <1>3, <1>4, <1>5

LEMMA OperandsKnown ==
    ASSUME Typed, NEW n \in Nat, NEW nested \in BOOLEAN, NEW vs \in Operands(n, nested)
    PROVE  vs \in [1..n -> Values] /\ LastAfter(nested) \in Values
<1>1. env \in FieldSeqs /\ it \in Values /\ last \in Values
  BY DEF Typed
<1>2. \A t \in KnownTypes : Reg(t) \in Values
  BY DEF Reg, Value, Values
<1>3. \A x : EnvType(x) \in KnownTypes /\ Ptr(EnvType(x)) \in KnownTypes
  BY <1>1, EnvKnown, PointersKnown
<1>4. Atoms \subseteq Values
  BY <1>2, <1>3, OwnTypes DEF Atoms
<1> QED BY <1>1, <1>4 DEF Operands, LastAfter

LEMMA PassedKnown ==
    ASSUME NEW n \in Nat, NEW vs \in [1..n -> Values], NEW ts \in [1..n -> KnownTypes]
    PROVE  /\ Passed(vs, ts) \in [1..n -> KnownTypes] /\ Types(vs) \in [1..n -> KnownTypes]
           /\ Checked(vs, ts) => Passed(vs, ts) = ts
<1>1. \A i \in 1..n : vs[i].ty \in KnownTypes
  BY DEF Values
<1> QED BY <1>1 DEF Passed, Types, Checked, AllFit

-----------------------------------------------------------------------------
(* What each form writes.                                                  *)

LEMMA Changed ==
    ASSUME NEW x, NEW op, NEW name, NEW ret, NEW wrote, NEW has, NEW val, NEW h, NEW w,
           x = [op |-> op, name |-> name, ret |-> ret, wrote |-> wrote, has |-> has, val |-> val]
    PROVE  /\ [x EXCEPT !.has = h] = [op |-> op, name |-> name, ret |-> ret, wrote |-> wrote, has |-> h, val |-> val]
           /\ [x EXCEPT !.val = w] = [op |-> op, name |-> name, ret |-> ret, wrote |-> wrote, has |-> has, val |-> w]
<1>1. [x EXCEPT !.has = h] = [op |-> op, name |-> name, ret |-> ret, wrote |-> wrote, has |-> h, val |-> val]
  OBVIOUS
<1>2. [x EXCEPT !.val = w] = [op |-> op, name |-> name, ret |-> ret, wrote |-> wrote, has |-> has, val |-> w]
  OBVIOUS
<1> QED BY <1>1, <1>2

LEMMA LineMade ==
    ASSUME NEW op \in Ops, NEW name \in Words, NEW ret \in KnownTypes, NEW val \in KnownTypes,
           NEW wrote \in Seq(KnownTypes), NEW has \in Seq(KnownTypes)
    PROVE  [op |-> op, name |-> name, ret |-> ret, wrote |-> wrote, has |-> has, val |-> val] \in TextLines
  BY DEF TextLines

LEMMA UsesMade ==
    ASSUME NEW op, NEW ret, NEW wrote, NEW has
    PROVE  Uses(op, ret, wrote, has)
              = [op |-> op, name |-> "", ret |-> ret, wrote |-> wrote, has |-> has, val |-> ret]
<1> DEFINE x == [op |-> op, name |-> "", ret |-> ret, wrote |-> wrote, has |-> wrote, val |-> ret]
<1>1. Uses(op, ret, wrote, has) = [x EXCEPT !.has = has]
  BY DEF TextLine, Uses
<1>2. x = [op |-> op, name |-> "", ret |-> ret, wrote |-> wrote, has |-> wrote, val |-> ret]
  OBVIOUS
<1> HIDE DEF x
<1> QED BY <1>1, <1>2, Changed

LEMMA Pair ==
    ASSUME NEW a, NEW b
    PROVE  <<a>> \o <<b>> = <<a, b>>
<1> DEFINE S == {a, b}
           s == <<a>> \o <<b>>
           t == <<a, b>>
<1>1. <<a>> \in Seq(S) /\ <<b>> \in Seq(S) /\ t \in Seq(S)
  OBVIOUS
<1>2. Len(<<a>>) = 1 /\ Len(<<b>>) = 1 /\ Len(t) = 2
  OBVIOUS
<1>3. s \in Seq(S) /\ Len(s) = 2
  BY <1>1, <1>2
<1>4. s[1] = a /\ s[2] = b
  BY <1>1, <1>2
<1>5. \A i \in 1..2 : s[i] = t[i]
  BY <1>4
<1> HIDE DEF S, s, t
<1>6. s = t
  BY <1>1, <1>2, <1>3, <1>5
<1> QED BY <1>6 DEF s, t

LEMMA OnePassed ==
    ASSUME NEW v, NEW t, Checked(<<v>>, <<t>>)
    PROVE  Passed(<<v>>, <<t>>) = <<t>>
<1>1. Fits(v, t)
  BY DEF Checked, AllFit
<1> QED BY <1>1 DEF Passed

\* The common case: a form adds one line that is no definition, or ends the program.
Writes(l) ==
    /\ GoodLine(l) /\ l.op \notin {"type", "define", "declare", "set-field"} /\ Adds(l)
    /\ it' \in Values /\ last' \in Values /\ env' \in FieldSeqs
    /\ UNCHANGED <<declared, asked>>
Wrote == \E l \in TextLines : Writes(l) /\ nforms' = nforms + 1 /\ UNCHANGED <<decls, phase, at, tables>>

LEMMA CalleeTyped ==
    ASSUME Typed, NEW name, NEW n \in Nat
    PROVE  Callee(name) \in Sigs /\ Expected(Callee(name), n) \in [1..n -> KnownTypes]
<1>1. Callee(name) \in Sigs
  <2>1. I32 \in KnownTypes /\ <<>> \in Seq(KnownTypes)
    BY OwnTypes
  <2> QED BY <2>1 DEF Typed, Callee, Sigs, Sig
<1>2. ASSUME NEW sig \in Sigs PROVE Expected(sig, n) \in [1..n -> KnownTypes]
  <2>1. sig.params \in Seq(KnownTypes)
    BY DEF Sigs
  <2>2. \A i \in DOMAIN sig.params : sig.params[i] \in KnownTypes
    BY <2>1
  <2> QED BY <2>2, OwnTypes DEF Expected
<1> QED BY <1>1, <1>2

LEMMA Results ==
    ASSUME NEW t \in KnownTypes
    PROVE  Reg(t) \in Values /\ ResultOf(t) \in Values
  BY OwnTypes DEF Reg, Value, Values, ResultOf

LEMMA CallWrites ==
    ASSUME IInv, NEW f \in Forms, NEW nested \in BOOLEAN, NEW vs \in Operands(f.n, nested),
           Call(f, vs, nested)
    PROVE  Stops("fatal") \/ Wrote
<1> DEFINE sig == Callee(f.name)
           ts  == Expected(sig, f.n)
           l   == CallLine("call", f.name, sig, ts, vs)
<1>1. f.name \in Words /\ f.n \in Nat
  BY FormTyped DEF Words
<1>2. vs \in [1..f.n -> Values] /\ LastAfter(nested) \in Values /\ env \in FieldSeqs
  BY <1>1, OperandsKnown DEF IInv, Typed
<1>3. sig \in Sigs /\ ts \in [1..f.n -> KnownTypes]
  BY <1>1, CalleeTyped DEF IInv
<1>4. \/ Stops("fatal")
      \/ Checked(vs, ts) /\ Emits(<<l>>, ResultOf(sig.ret), nested) /\ UNCHANGED <<declared, env, asked>>
  BY Zenon DEF Call, Callee
<1>5. ts = [i \in 1..f.n |-> IF i \in DOMAIN sig.params THEN sig.params[i] ELSE I32]
  BY DEF Expected
<1> HIDE DEF sig, ts
<1>6. ASSUME Checked(vs, ts)
      PROVE  l = [op |-> "call", name |-> f.name, ret |-> sig.ret, wrote |-> ts, has |-> ts, val |-> sig.ret]
             /\ l \in TextLines
  <2>1. Passed(vs, ts) = ts
    BY <1>1, <1>2, <1>3, <1>6, PassedKnown
  <2>2. ts \in Seq(KnownTypes) /\ sig.ret \in KnownTypes
    BY <1>1, <1>3 DEF Sigs
  <2>3. l = [op |-> "call", name |-> f.name, ret |-> sig.ret, wrote |-> ts, has |-> ts, val |-> sig.ret]
    <3> DEFINE x == TextLine("call", f.name, sig.ret, ts)
    <3>1. x = [op |-> "call", name |-> f.name, ret |-> sig.ret, wrote |-> ts, has |-> ts, val |-> sig.ret]
      BY DEF TextLine
    <3>2. l = [x EXCEPT !.has = ts]
      BY <2>1 DEF CallLine
    <3> HIDE DEF x
    <3> QED BY <3>1, <3>2, Changed
  <2>4. "call" \in Ops
    BY DEF Ops
  <2> HIDE DEF l
  <2> QED BY <1>1, <2>2, <2>3, <2>4, LineMade
<1> HIDE DEF l
<1>7. ASSUME Checked(vs, ts) PROVE GoodLine(l) /\ l.op = "call"
  <2>1. /\ l.op = "call" /\ l.name = f.name /\ l.ret = sig.ret /\ l.val = sig.ret
        /\ l.wrote = ts /\ l.has = ts
    BY <1>6, <1>7
  <2>2. DOMAIN ts = 1..f.n /\ \A k \in 1..f.n : ts[k] = IF k \in DOMAIN sig.params THEN sig.params[k] ELSE I32
    BY <1>5
  <2>3. sig = Callee(f.name)
    BY DEF sig
  <2> QED BY <2>1, <2>2, <2>3 DEF GoodLine, GoodOperands
<1> QED
  <2> SUFFICES ASSUME Checked(vs, ts), Emits(<<l>>, ResultOf(sig.ret), nested), UNCHANGED <<declared, env, asked>>
               PROVE  Wrote
    BY <1>4
  <2>1. ResultOf(sig.ret) \in Values
    BY <1>3, Results DEF Sigs
  <2> QED BY <1>2, <1>6, <1>7, <2>1 DEF Wrote, Writes, Emits, Adds

LEMMA UsesWrites ==
    ASSUME NEW op \in Ops \ {"type", "define", "declare", "set-field", "call", "ccall"},
           NEW ret \in KnownTypes, NEW wrote \in Seq(KnownTypes), NEW has \in Seq(KnownTypes),
           \A k \in DOMAIN wrote : has[k] # wrote[k] => <<op, k>> \in Unchecked,
           NEW v \in Values, NEW nested, LastAfter(nested) \in Values, env' \in FieldSeqs,
           Emits(<<Uses(op, ret, wrote, has)>>, v, nested), UNCHANGED <<declared, asked>>
    PROVE  Wrote
<1> DEFINE l == Uses(op, ret, wrote, has)
<1>1. "" \in Words
  BY DEF Words
<1>2. /\ l = [op |-> op, name |-> "", ret |-> ret, wrote |-> wrote, has |-> has, val |-> ret]
      /\ l \in TextLines
  <2>1. op \in Ops
    OBVIOUS
  <2>2. l = [op |-> op, name |-> "", ret |-> ret, wrote |-> wrote, has |-> has, val |-> ret]
    BY UsesMade
  <2>3. [op |-> op, name |-> "", ret |-> ret, wrote |-> wrote, has |-> has, val |-> ret] \in TextLines
    BY <1>1, <2>1, LineMade
  <2> QED BY <2>2, <2>3
<1>3. Emits(<<l>>, v, nested)
  OBVIOUS
<1> HIDE DEF l
<1>4. GoodLine(l)
  BY <1>2 DEF GoodLine, GoodOperands
<1> QED BY <1>2, <1>3, <1>4 DEF Wrote, Writes, Emits, Adds

\* The forms of one and of two operands.
LEMMA FixedOperands ==
    ASSUME IInv, phase = "body", NEW f \in Forms, NEW nested \in BOOLEAN, NEW vs \in Operands(f.n, nested)
    PROVE  /\ f.form \in OneOperand \cup TwoOperands => vs[1].ty \in KnownTypes
           /\ f.form \in TwoOperands => vs[2].ty \in KnownTypes
           /\ f.form \in OneOperand => Types(vs) = <<vs[1].ty>>
           /\ LastAfter(nested) \in Values
           /\ Parse(aliases, f.node) \in KnownTypes /\ Ptr(Parse(aliases, f.node)) \in KnownTypes
           /\ env \in FieldSeqs /\ structs \in [DOMAIN structs -> FieldSeqs]
<1>1. vs \in [1..f.n -> Values] /\ LastAfter(nested) \in Values
  BY OperandsKnown, FormTyped DEF IInv
<1>2. \A v \in Values : v.ty \in KnownTypes
  BY DEF Values
<1>3. Parse(aliases, f.node) \in KnownTypes
  BY ReadLater, FormTyped DEF IInv
<1>4. Ptr(Parse(aliases, f.node)) \in KnownTypes
  BY <1>3, PointersKnown
<1>5. f.form \in OneOperand => f.n = 1
  BY FormTyped
<1>6. f.form \in TwoOperands => f.n = 2
  BY FormTyped
<1>7. f.form \in OneOperand => Types(vs) = <<vs[1].ty>>
  BY <1>1, <1>5 DEF Types
<1>8. f.form \in OneOperand \cup TwoOperands => vs[1].ty \in KnownTypes
  BY <1>1, <1>2, <1>5, <1>6
<1>9. f.form \in TwoOperands => vs[2].ty \in KnownTypes
  BY <1>1, <1>2, <1>6
<1>10. env \in FieldSeqs /\ structs \in [DOMAIN structs -> FieldSeqs]
  BY DEF IInv, Typed
<1> QED BY <1>1, <1>3, <1>4, <1>7, <1>8, <1>9, <1>10

LEMMA LoadWrites ==
    ASSUME IInv, NEW f \in Forms, Compiling(f), NEW nested \in BOOLEAN, NEW vs \in Operands(f.n, nested),
           Load(f, vs, nested)
    PROVE  Stops("fatal") \/ Wrote
<1> DEFINE t == Parse(aliases, f.node)
<1>1. f.form \in OneOperand /\ phase = "body"
  BY DEF Load, OneOperand, Compiling
<1>2. /\ t \in KnownTypes /\ Ptr(t) \in KnownTypes /\ vs[1].ty \in KnownTypes /\ Types(vs) = <<vs[1].ty>>
      /\ LastAfter(nested) \in Values /\ env \in FieldSeqs
  BY <1>1, FixedOperands
<1>3. Stops("fatal") \/ (Emits(<<Uses("load", t, <<Ptr(t)>>, Types(vs))>>, Reg(t), nested) /\ UNCHANGED <<declared, env, asked>>)
  BY DEF Load
<1> HIDE DEF t
<1>4. "load" \in Ops \ {"type", "define", "declare", "set-field", "call", "ccall"} /\ <<"load", 1>> \in Unchecked
  BY DEF Ops, Unchecked
<1>5. /\ <<Ptr(t)>> \in Seq(KnownTypes) /\ Types(vs) \in Seq(KnownTypes) /\ Reg(t) \in Values
      /\ \A k \in DOMAIN <<Ptr(t)>> : k = 1
  BY <1>2, Results
<1> QED BY <1>2, <1>3, <1>4, <1>5, UsesWrites

LEMMA PtrAddWrites ==
    ASSUME IInv, NEW f \in Forms, Compiling(f), NEW nested \in BOOLEAN, NEW vs \in Operands(f.n, nested),
           PtrAdd(f, vs, nested)
    PROVE  Stops("fatal") \/ Wrote
<1> DEFINE t == Parse(aliases, f.node)
           h == <<vs[1].ty>> \o Passed(<<vs[2]>>, <<I32>>)
<1>1. f.form \in TwoOperands /\ phase = "body"
  BY DEF PtrAdd, TwoOperands, Compiling
<1>2. /\ Ptr(t) \in KnownTypes /\ vs[1].ty \in KnownTypes
      /\ LastAfter(nested) \in Values /\ env \in FieldSeqs
  BY <1>1, FixedOperands
<1>3. \/ Stops("fatal")
      \/ /\ Checked(<<vs[2]>>, <<I32>>)
         /\ Emits(<<Uses("gep", Ptr(t), <<Ptr(t), I32>>, h)>>, Reg(Ptr(t)), nested) /\ UNCHANGED <<declared, env, asked>>
  BY DEF PtrAdd
<1>4. "gep" \in Ops \ {"type", "define", "declare", "set-field", "call", "ccall"} /\ <<"gep", 1>> \in Unchecked
  BY DEF Ops, Unchecked
<1>5. ASSUME Checked(<<vs[2]>>, <<I32>>) PROVE h = <<vs[1].ty, I32>>
  <2>1. Passed(<<vs[2]>>, <<I32>>) = <<I32>>
    BY <1>5, OnePassed
  <2> QED BY <2>1, Pair
<1> HIDE DEF t, h
<1>6. /\ <<Ptr(t), I32>> \in Seq(KnownTypes) /\ <<vs[1].ty, I32>> \in Seq(KnownTypes) /\ Reg(Ptr(t)) \in Values
      /\ \A k \in DOMAIN <<Ptr(t), I32>> : <<vs[1].ty, I32>>[k] # <<Ptr(t), I32>>[k] => k = 1
  BY <1>2, Results, OwnTypes
<1> QED BY <1>2, <1>3, <1>4, <1>5, <1>6, UsesWrites

LEMMA MakeWrites ==
    ASSUME IInv, NEW f \in Forms, Compiling(f), NEW nested \in BOOLEAN, NEW vs \in Operands(f.n, nested),
           Make(f, vs, nested)
    PROVE  Stops("fatal") \/ Wrote
<1> DEFINE t   == Parse(aliases, f.node)
           k   == FieldIndex(t.base, f.name)
           fty == IF k = 0 THEN I32 ELSE FieldAt(t, k)
           at1 == Ptr(FieldAt(t, IF k = 0 THEN 1 ELSE k))
<1>1. f.form \in OneOperand /\ phase = "body"
  BY DEF Make, OneOperand, Compiling
<1>2. /\ Ptr(t) \in KnownTypes /\ vs[1].ty \in KnownTypes
      /\ LastAfter(nested) \in Values /\ env \in FieldSeqs /\ structs \in [DOMAIN structs -> FieldSeqs]
  BY <1>1, FixedOperands
<1>3. \/ Stops("fatal")
      \/ /\ Emits(<<Uses("make", Ptr(t), <<fty, Ptr(fty)>>, <<vs[1].ty, at1>>)>>, Reg(Ptr(t)), nested)
         /\ UNCHANGED <<declared, env, asked>>
  BY DEF Make
<1>4. "make" \in Ops \ {"type", "define", "declare", "set-field", "call", "ccall"}
      /\ <<"make", 1>> \in Unchecked /\ <<"make", 2>> \in Unchecked
  BY DEF Ops, Unchecked
<1>5. fty \in KnownTypes /\ Ptr(fty) \in KnownTypes /\ at1 \in KnownTypes
  <2>1. fty \in KnownTypes /\ FieldAt(t, IF k = 0 THEN 1 ELSE k) \in KnownTypes
    BY <1>2, FieldsKnown, OwnTypes
  <2> HIDE DEF fty
  <2> QED BY <2>1, PointersKnown
<1> HIDE DEF t, k, fty, at1
<1>6. /\ <<fty, Ptr(fty)>> \in Seq(KnownTypes) /\ <<vs[1].ty, at1>> \in Seq(KnownTypes) /\ Reg(Ptr(t)) \in Values
      /\ \A j \in DOMAIN <<fty, Ptr(fty)>> : j = 1 \/ j = 2
  BY <1>2, <1>5, Results
<1> QED BY <1>2, <1>3, <1>4, <1>6, UsesWrites

LEMMA StoreWrites ==
    ASSUME IInv, NEW f \in Forms, Compiling(f), NEW nested \in BOOLEAN, NEW vs \in Operands(f.n, nested),
           Store(f, vs, nested)
    PROVE  Stops("fatal") \/ Wrote
<1> DEFINE t == Parse(aliases, f.node)
           h == Passed(<<vs[2]>>, <<t>>) \o <<vs[1].ty>>
<1>1. f.form \in TwoOperands /\ phase = "body"
  BY DEF Store, TwoOperands, Compiling
<1>2. /\ t \in KnownTypes /\ Ptr(t) \in KnownTypes /\ vs[1].ty \in KnownTypes
      /\ LastAfter(nested) \in Values /\ env \in FieldSeqs
  BY <1>1, FixedOperands
<1>3. \/ Stops("fatal")
      \/ /\ Checked(<<vs[2]>>, <<t>>)
         /\ Emits(<<Uses("store", t, <<t, Ptr(t)>>, h)>>, NoValue, nested) /\ UNCHANGED <<declared, env, asked>>
  BY DEF Store
<1>4. "store" \in Ops \ {"type", "define", "declare", "set-field", "call", "ccall"} /\ <<"store", 2>> \in Unchecked
  BY DEF Ops, Unchecked
<1>5. ASSUME Checked(<<vs[2]>>, <<t>>) PROVE h = <<t, vs[1].ty>>
  <2>1. Passed(<<vs[2]>>, <<t>>) = <<t>>
    BY <1>5, OnePassed
  <2> QED BY <2>1, Pair
<1> HIDE DEF t, h
<1>6. /\ <<t, Ptr(t)>> \in Seq(KnownTypes) /\ <<t, vs[1].ty>> \in Seq(KnownTypes)
      /\ \A k \in DOMAIN <<t, Ptr(t)>> : <<t, vs[1].ty>>[k] # <<t, Ptr(t)>>[k] => k = 2
  BY <1>2
<1> QED BY <1>2, <1>3, <1>4, <1>5, <1>6, UsesWrites, OwnTypes

LEMMA LetWrites ==
    ASSUME IInv, NEW f \in Forms, Compiling(f), NEW nested \in BOOLEAN, NEW vs \in Operands(f.n, nested),
           Let(f, vs, nested)
    PROVE  Wrote
<1> DEFINE t == Parse(aliases, f.node)
           h == LetStored(vs[1], t)
<1>1. f.form \in OneOperand /\ phase = "body"
  BY DEF Let, OneOperand, Compiling
<1>2. /\ t \in KnownTypes /\ vs[1].ty \in KnownTypes /\ h \in KnownTypes
      /\ LastAfter(nested) \in Values /\ env \in FieldSeqs
  BY <1>1, FixedOperands DEF LetStored
<1>3. /\ Emits(<<Uses("let", t, <<t>>, <<h>>)>>, NoValue, nested) /\ UNCHANGED <<declared, asked>>
      /\ env' = Append(env, [name |-> f.name, ty |-> t])
  BY DEF Let
<1>4. "let" \in Ops \ {"type", "define", "declare", "set-field", "call", "ccall"} /\ <<"let", 1>> \in Unchecked
  BY DEF Ops, Unchecked
<1> HIDE DEF t, h
<1>5. <<t>> \in Seq(KnownTypes) /\ <<h>> \in Seq(KnownTypes) /\ \A k \in DOMAIN <<t>> : k = 1
  BY <1>2
<1>6. env' \in FieldSeqs
  <2> DEFINE S == [name : Words, ty : KnownTypes]
             x == [name |-> f.name, ty |-> t]
  <2>1. x \in S
    BY <1>2, FormTyped DEF Words
  <2>2. env \in Seq(S) /\ env' = Append(env, x)
    BY <1>2, <1>3 DEF FieldSeqs
  <2> HIDE DEF S, x
  <2>3. env' \in Seq(S)
    BY <2>1, <2>2
  <2> QED BY <2>3 DEF S, FieldSeqs
<1> QED BY <1>2, <1>3, <1>4, <1>5, <1>6, UsesWrites, OwnTypes

LEMMA SetWrites ==
    ASSUME IInv, NEW f \in Forms, Compiling(f), NEW nested \in BOOLEAN, NEW vs \in Operands(f.n, nested),
           Set(f, vs, nested)
    PROVE  Wrote
<1> DEFINE t == EnvType(f.name)
<1>1. f.form \in OneOperand /\ phase = "body"
  BY DEF Set, OneOperand, Compiling
<1>2. /\ vs[1].ty \in KnownTypes /\ Types(vs) = <<vs[1].ty>>
      /\ LastAfter(nested) \in Values /\ env \in FieldSeqs
  BY <1>1, FixedOperands
<1>3. t \in KnownTypes
  BY <1>2, EnvKnown
<1>4. /\ Emits(<<Uses("set", t, <<t>>, Types(vs))>>, NoValue, nested) /\ UNCHANGED <<declared, env, asked>>
  BY DEF Set
<1>5. "set" \in Ops \ {"type", "define", "declare", "set-field", "call", "ccall"} /\ <<"set", 1>> \in Unchecked
  BY DEF Ops, Unchecked
<1> HIDE DEF t
<1>6. <<t>> \in Seq(KnownTypes) /\ Types(vs) \in Seq(KnownTypes) /\ \A k \in DOMAIN <<t>> : k = 1
  BY <1>2, <1>3
<1> QED BY <1>2, <1>3, <1>4, <1>5, <1>6, UsesWrites, OwnTypes

\* A ccall of a name that is new declares it first.
WroteDeclared ==
    \E d, l \in TextLines :
        /\ d.op = "declare" /\ l.op = "ccall" /\ d.name = l.name /\ l.name \notin declared
        /\ d.ret = l.ret /\ d.wrote = l.wrote /\ GoodOperands(d) /\ GoodOperands(l)
        /\ text' = text \o <<d, l>> /\ declared' = declared \cup {l.name}
        /\ it' \in Values /\ last' \in Values /\ nforms' = nforms + 1
        /\ UNCHANGED <<decls, phase, at, tables, env, asked>>

LEMMA CcallTyped ==
    ASSUME IInv, phase = "body", NEW f \in Forms, f.form = "ccall"
    PROVE  /\ CcallSig(f).ret \in KnownTypes /\ CcallSig(f).params \in [1..f.n -> KnownTypes]
           /\ WrittenSig(f.name, CcallSig(f)).ret \in KnownTypes
           /\ WrittenSig(f.name, CcallSig(f)).params = CcallSig(f).params
           /\ f.name # "printf" => WrittenSig(f.name, CcallSig(f)).ret = CcallSig(f).ret
<1>1. f.nodes \in Seq(TypeNodes) /\ DOMAIN f.nodes = 1..f.n /\ f.node \in TypeNodes
  BY FormTyped
<1>2. Parse(aliases, f.node) \in KnownTypes
  BY <1>1, ReadLater DEF IInv
<1>3. ASSUME NEW i \in 1..f.n PROVE Parse(aliases, f.nodes[i]) \in KnownTypes
  <2> DEFINE ns == f.nodes
  <2>1. i \in DOMAIN ns /\ ns \in Seq(TypeNodes)
    BY <1>1
  <2> HIDE DEF ns
  <2>2. ns[i] \in TypeNodes
    BY <2>1
  <2> USE DEF ns
  <2>3. f.nodes[i] \in Range(f.nodes)
    BY <2>1 DEF Range
  <2> QED BY <2>2, <2>3, ReadLater DEF IInv
<1> DEFINE sig == CcallSig(f)
<1>4. sig = [ret |-> Parse(aliases, f.node), params |-> [i \in 1..f.n |-> Parse(aliases, f.nodes[i])]]
  BY <1>1 DEF CcallSig, Sig
<1>5. sig.ret \in KnownTypes /\ sig.params \in [1..f.n -> KnownTypes]
  BY <1>2, <1>3, <1>4
<1> HIDE DEF sig
<1>6. [sig EXCEPT !.ret = I32].ret = I32 /\ [sig EXCEPT !.ret = I32].params = sig.params
  BY <1>4
<1>7. WrittenSig(f.name, sig) = IF f.name = "printf" THEN [sig EXCEPT !.ret = I32] ELSE sig
  BY DEF WrittenSig
<1>8. /\ WrittenSig(f.name, sig).ret \in KnownTypes /\ WrittenSig(f.name, sig).params = sig.params
      /\ f.name # "printf" => WrittenSig(f.name, sig).ret = sig.ret
  BY <1>5, <1>6, <1>7, OwnTypes
<1> QED BY <1>5, <1>8 DEF sig

LEMMA CcallWrites ==
    ASSUME IInv, NEW f \in Forms, Compiling(f), NEW nested \in BOOLEAN, NEW vs \in Operands(f.n, nested),
           Ccall(f, vs, nested)
    PROVE  Stops("fatal") \/ Wrote \/ WroteDeclared
<1> DEFINE sig  == CcallSig(f)
           ws   == WrittenSig(f.name, sig)
           c    == CallLine("ccall", f.name, ws, sig.params, vs)
           val  == IF sig.ret = Void THEN c.val ELSE sig.ret
           line == [c EXCEPT !.val = IF sig.ret = Void THEN @ ELSE sig.ret]
           d    == DeclareLine(f.name, ws)
<1>1. f.name \in Words /\ f.n \in Nat /\ phase = "body" /\ f.form = "ccall"
  BY FormTyped DEF Words, Compiling, Ccall
<1>2. vs \in [1..f.n -> Values] /\ LastAfter(nested) \in Values /\ env \in FieldSeqs
  BY <1>1, OperandsKnown DEF IInv, Typed
<1>3. /\ sig.ret \in KnownTypes /\ sig.params \in [1..f.n -> KnownTypes] /\ ws.ret \in KnownTypes
      /\ ws.params = sig.params
      /\ f.name # "printf" => ws.ret = sig.ret
  BY <1>1, CcallTyped
<1>4. \/ Stops("fatal")
      \/ /\ Checked(vs, sig.params)
         /\ Emits(CcallDeclares(f.name, sig) \o <<line>>, ResultOf(sig.ret), nested)
         /\ declared' = declared \cup {f.name} /\ UNCHANGED <<env, asked>>
  BY Zenon DEF Ccall
<1>5. CcallDeclares(f.name, sig) = IF f.name \in declared THEN <<>> ELSE <<d>>
  BY DEF CcallDeclares
<1> SUFFICES ASSUME Checked(vs, sig.params), Emits(CcallDeclares(f.name, sig) \o <<line>>, ResultOf(sig.ret), nested),
                    declared' = declared \cup {f.name}, UNCHANGED <<env, asked>>
             PROVE  Wrote \/ WroteDeclared
  BY <1>4
<1>6. "ccall" \in Ops /\ "declare" \in Ops
  BY DEF Ops
<1>7. Passed(vs, sig.params) = sig.params
  BY <1>1, <1>2, <1>3, PassedKnown
<1>8. sig.params \in Seq(KnownTypes)
  BY <1>1, <1>3
<1>9. c = [op |-> "ccall", name |-> f.name, ret |-> ws.ret, wrote |-> sig.params, has |-> sig.params, val |-> ws.ret]
  <2> DEFINE x == TextLine("ccall", f.name, ws.ret, sig.params)
  <2>1. x = [op |-> "ccall", name |-> f.name, ret |-> ws.ret, wrote |-> sig.params, has |-> sig.params, val |-> ws.ret]
    BY DEF TextLine
  <2>2. c = [x EXCEPT !.has = sig.params]
    BY <1>7 DEF CallLine
  <2> HIDE DEF x
  <2> QED BY <2>1, <2>2, Changed
<1>10. d = [op |-> "declare", name |-> f.name, ret |-> ws.ret, wrote |-> sig.params, has |-> sig.params, val |-> ws.ret]
  <2> HIDE DEF sig, ws
  <2> QED BY <1>3 DEF DeclareLine, TextLine
<1>11. ResultOf(sig.ret) \in Values
  BY <1>3, Results
<1>12. val \in KnownTypes /\ (val # ws.ret => f.name = "printf")
  <2> HIDE DEF sig, ws, c
  <2>1. c.val = ws.ret
    BY <1>9
  <2> QED BY <1>3, <2>1
<1>13. line = [c EXCEPT !.val = val]
  BY <1>9
<1> HIDE DEF sig, ws, c, d, val, line
<1>14. line = [op |-> "ccall", name |-> f.name, ret |-> ws.ret, wrote |-> sig.params, has |-> sig.params, val |-> val]
  BY <1>9, <1>13, Changed
<1>15. line \in TextLines /\ d \in TextLines
  BY <1>1, <1>3, <1>6, <1>8, <1>10, <1>12, <1>14, LineMade
<1>16. GoodOperands(line) /\ GoodOperands(d)
  BY <1>10, <1>12, <1>14 DEF GoodOperands
<1>17. /\ line.op = "ccall" /\ line.name = f.name /\ line.ret = ws.ret /\ line.wrote = sig.params
       /\ d.op = "declare" /\ d.name = f.name /\ d.ret = ws.ret /\ d.wrote = sig.params
  BY <1>10, <1>14
<1>18. CASE f.name \in declared
  <2>1. <<>> \o <<line>> = <<line>>
    BY <1>15
  <2>2. Emits(<<line>>, ResultOf(sig.ret), nested) /\ declared' = declared
    BY <1>5, <1>18, <2>1
  <2>3. GoodLine(line)
    BY <1>16, <1>17, <1>18 DEF GoodLine
  <2> QED BY <1>2, <1>11, <1>15, <1>17, <2>2, <2>3 DEF Wrote, Writes, Emits, Adds
<1>19. CASE f.name \notin declared
  <2>1. Emits(<<d, line>>, ResultOf(sig.ret), nested)
    BY <1>5, <1>19, Pair
  <2> QED BY <1>2, <1>11, <1>15, <1>16, <1>17, <1>19, <2>1 DEF WroteDeclared, Emits
<1> QED BY <1>18, <1>19

LEMMA JitWrites ==
    ASSUME IInv, NEW f \in Forms, Compiling(f), NEW nested \in BOOLEAN, NEW vs \in Operands(f.n, nested),
           Jit(f, vs, nested)
    PROVE  Stops("fatal") \/ Wrote
<1> DEFINE jit == "llvm_jit_call_i32_i32_i32"
           ts  == <<I8Ptr, I8Ptr, I32, I32>>
           l   == TextLine("ccall", jit, I32, ts)
<1>1. f.form \in TwoOperands /\ phase = "body"
  BY DEF Jit, TwoOperands, Compiling
<1>2. LastAfter(nested) \in Values /\ env \in FieldSeqs
  BY <1>1, FixedOperands
<1>3. jit \in DOMAIN Preset
  BY DEF Preset
<1>4. jit \in declared /\ jit \in Words /\ "ccall" \in Ops
  BY <1>1, <1>3 DEF IInv, DeclareLines, Words, Ops
<1>5. \/ Stops("fatal")
      \/ /\ \E v \in {Zero, Reg(I32)} : Emits(<<l>>, v, nested)
         /\ declared' = declared \cup {jit} /\ UNCHANGED <<env, asked>>
  BY DEF Jit
<1> HIDE DEF jit
<1>6. ts \in Seq(KnownTypes) /\ I32 \in KnownTypes
  BY OwnTypes
<1> HIDE DEF ts
<1>7. l = [op |-> "ccall", name |-> jit, ret |-> I32, wrote |-> ts, has |-> ts, val |-> I32]
  BY DEF TextLine
<1>8. l \in TextLines
  <2> HIDE DEF l
  <2>1. [op |-> "ccall", name |-> jit, ret |-> I32, wrote |-> ts, has |-> ts, val |-> I32] \in TextLines
    BY <1>4, <1>6, LineMade
  <2> QED BY <1>7, <2>1
<1> HIDE DEF l
<1>9. GoodLine(l) /\ l.op = "ccall"
  BY <1>4, <1>7 DEF GoodLine, GoodOperands
<1>10. \A v \in {Zero, Reg(I32)} : v \in Values
  BY OwnTypes, Results
<1>11. declared' = declared \cup {jit} => declared' = declared
  BY <1>4
<1> QED BY <1>2, <1>5, <1>8, <1>9, <1>10, <1>11 DEF Wrote, Writes, Emits, Adds

LEMMA LastStructFound ==
    ASSUME IInv, phase # "types", NEW s
    PROVE  /\ s \in DOMAIN structs <=> s \in DeclaredAs("struct")
           /\ s \in DOMAIN structs => LastStruct(s) \in DOMAIN decls /\ StructFrom(s, LastStruct(s))
<1>1. DOMAIN decls = 1..Len(decls) /\ Len(decls) \in Nat /\ TypesRead = Len(decls)
  BY DeclTyped DEF IInv, TypesRead
<1>2. DOMAIN structs = DeclaredAs("struct")
  BY <1>1 DEF IInv, TypesPass, NamedIn, DeclaredAs
<1>3. ASSUME s \in DOMAIN structs
      PROVE  LastStruct(s) \in DOMAIN decls /\ StructFrom(s, LastStruct(s))
  <2>1. PICK i \in 1..Len(decls) : StructFrom(s, i)
    BY <1>1, <1>3 DEF IInv, TypesPass
  <2> DEFINE LastFrom(k) == /\ decls[k].kind = "struct" /\ decls[k].name = s
                        /\ \A j \in k + 1..Len(decls) : decls[j].kind = "struct" => decls[j].name # s
  <2>2. i \in DOMAIN decls /\ LastFrom(i)
    BY <1>1, <2>1 DEF StructFrom
  <2>3. \A k \in DOMAIN decls : LastFrom(k) => k = i
    BY <1>1, <2>2
  <2>4. LastStruct(s) = CHOOSE k \in DOMAIN decls : LastFrom(k)
    BY DEF LastStruct
  <2> HIDE DEF Last
  <2> QED BY <2>1, <2>2, <2>3, <2>4
<1> QED BY <1>2, <1>3

\* The base of a field assignment is a struct of the program, or a pointer to one.
LEMMA BaseOf ==
    ASSUME NEW t \in KnownTypes, NEW s, s \notin Bases
    PROVE  t \in {T(s, 0), T(s, 1)} <=> IsStruct(BaseStruct(t)) /\ BaseStruct(t).base = s
<1>1. t.stars \in Nat /\ t = [base |-> t.base, stars |-> t.stars]
  BY DEF KnownTypes
<1>2. t = T(s, 0) <=> t.base = s /\ t.stars = 0
  BY <1>1 DEF T
<1>3. t = T(s, 1) <=> t.base = s /\ t.stars = 1
  BY <1>1 DEF T
<1>4. Pointee(t) = [base |-> t.base, stars |-> t.stars - 1]
  BY <1>1 DEF Pointee
<1>5. BaseStruct(t).base = t.base /\ BaseStruct(t).stars = IF t.stars > 0 THEN t.stars - 1 ELSE t.stars
  BY <1>4 DEF BaseStruct, IsPtr
<1> QED BY <1>1, <1>2, <1>3, <1>5 DEF IsStruct

LEMMA FieldAgrees ==
    ASSUME IInv, phase # "types", NEW t \in KnownTypes, NEW field
    PROVE  FieldDeclared([base |-> t, field |-> field]) <=>
              IsStruct(BaseStruct(t)) /\ FieldIndex(BaseStruct(t).base, field) # 0
<1>1. structs \in [DOMAIN structs -> FieldSeqs]
  BY DEF IInv, Typed
<1>2. \A s \in DOMAIN structs : s \notin Bases
  <2>1. \A i \in DOMAIN decls : decls[i].name \notin Bases
    BY DeclTyped DEF IInv
  <2> QED BY <2>1, LastStructFound DEF DeclaredAs
<1> DEFINE Has(s) == \E i \in DOMAIN decls[LastStruct(s)].fields : decls[LastStruct(s)].fields[i].name = field
<1>3. FieldDeclared([base |-> t, field |-> field]) <=>
         \E s \in DOMAIN structs : t \in {T(s, 0), T(s, 1)} /\ Has(s)
  BY LastStructFound DEF FieldDeclared
<1>4. \A s \in DOMAIN structs : Has(s) <=> \E i \in DOMAIN structs[s] : structs[s][i].name = field
  BY LastStructFound DEF StructFrom
<1> HIDE DEF Has
<1>5. \A s \in DOMAIN structs : Has(s) <=> FieldIndex(s, field) # 0
  BY <1>1, <1>4, IndexFound
<1>6. FieldIndex(BaseStruct(t).base, field) # 0 => BaseStruct(t).base \in DOMAIN structs
  BY <1>1, IndexFound
<1>7. \A s \in DOMAIN structs : t \in {T(s, 0), T(s, 1)} <=> IsStruct(BaseStruct(t)) /\ BaseStruct(t).base = s
  BY <1>2, BaseOf
<1> QED BY <1>3, <1>5, <1>6, <1>7

\* A field assignment is written if the field is there, and asked for either way.
WroteField ==
    \E a \in [base : KnownTypes, field : Words] :
        /\ \/ FieldDeclared(a) /\ \E l \in TextLines : l.op = "set-field" /\ GoodLine(l) /\ Adds(l)
           \/ ~FieldDeclared(a) /\ text' = text
        /\ asked' = Append(asked, a)
        /\ it' \in Values /\ last' \in Values /\ nforms' = nforms + 1
        /\ UNCHANGED <<decls, phase, at, tables, env, declared>>

LEMMA SetFieldWrites ==
    ASSUME IInv, NEW f \in Forms, Compiling(f), NEW nested \in BOOLEAN, NEW vs \in Operands(f.n, nested),
           SetField(f, vs, nested)
    PROVE  Stops("fatal") \/ Stops("crashed") \/ WroteField
<1> DEFINE t   == vs[1].ty
           s   == BaseStruct(t)
           k   == IF IsStruct(s) THEN FieldIndex(s.base, f.name) ELSE 0
           fty == FieldAt(s, k)
           h   == <<t>> \o Passed(<<vs[2]>>, <<fty>>)
           l   == Uses("set-field", fty, <<Ptr(s), fty>>, h)
           a   == [base |-> t, field |-> f.name]
<1>1. f.form \in TwoOperands /\ phase = "body"
  BY DEF SetField, TwoOperands, Compiling
<1>2. t \in KnownTypes /\ LastAfter(nested) \in Values /\ structs \in [DOMAIN structs -> FieldSeqs]
  BY <1>1, FixedOperands
<1>3. \/ Stops("fatal") \/ Stops("crashed")
      \/ /\ k # 0 => Checked(<<vs[2]>>, <<fty>>)
         /\ Emits(IF k = 0 THEN <<>> ELSE <<l>>, NoValue, nested)
         /\ asked' = Append(asked, a) /\ UNCHANGED <<declared, env>>
  BY DEF SetField
<1> SUFFICES ASSUME k # 0 => Checked(<<vs[2]>>, <<fty>>),
                    Emits(IF k = 0 THEN <<>> ELSE <<l>>, NoValue, nested),
                    asked' = Append(asked, a), UNCHANGED <<declared, env>>
             PROVE  WroteField
  BY <1>3
<1>4. a \in [base : KnownTypes, field : Words]
  BY <1>2, FormTyped DEF Words
<1>5. FieldDeclared(a) <=> k # 0
  BY <1>1, <1>2, FieldAgrees
<1>6. fty \in KnownTypes
  BY <1>2, FieldsKnown
<1>7. s \in KnownTypes /\ Ptr(s) \in KnownTypes
  <2>1. s \in KnownTypes
    BY <1>2, PointersKnown DEF BaseStruct
  <2> QED BY <2>1, PointersKnown
<1>8. "set-field" \in Ops /\ "" \in Words /\ <<"set-field", 1>> \in Unchecked
  BY DEF Ops, Words, Unchecked
<1>9. ASSUME k # 0 PROVE h = <<t, fty>>
  <2>1. Passed(<<vs[2]>>, <<fty>>) = <<fty>>
    BY <1>9, OnePassed
  <2> QED BY <2>1, Pair
<1> HIDE DEF t, s, k, fty, h, a
<1>10. ASSUME k # 0 PROVE l \in TextLines /\ l.op = "set-field" /\ GoodLine(l)
  <2>1. /\ <<t, fty>> \in Seq(KnownTypes) /\ <<Ptr(s), fty>> \in Seq(KnownTypes)
        /\ \A j \in DOMAIN <<Ptr(s), fty>> : <<t, fty>>[j] # <<Ptr(s), fty>>[j] => j = 1
    BY <1>2, <1>6, <1>7
  <2> DEFINE r == [op |-> "set-field", name |-> "", ret |-> fty, wrote |-> <<Ptr(s), fty>>, has |-> h, val |-> fty]
  <2>6. h \in Seq(KnownTypes)
    BY <1>9, <1>10, <2>1
  <2>2. l = r
    <3> DEFINE w == <<Ptr(s), fty>>
    <3>1. w \in Seq(KnownTypes)
      BY <2>1
    <3> HIDE DEF w
    <3>2. Uses("set-field", fty, w, h)
             = [op |-> "set-field", name |-> "", ret |-> fty, wrote |-> w, has |-> h, val |-> fty]
      BY UsesMade
    <3> QED BY <3>2 DEF w
  <2>3. r \in TextLines
    BY <1>6, <1>8, <2>1, <2>6, LineMade
  <2>4. r.op = "set-field" /\ r.val = r.ret /\ r.wrote = <<Ptr(s), fty>> /\ r.has = <<t, fty>>
    BY <1>9, <1>10
  <2> HIDE DEF r, l
  <2>5. GoodLine(r)
    BY <1>8, <2>1, <2>4 DEF GoodLine, GoodOperands
  <2> QED BY <2>2, <2>3, <2>4, <2>5
<1> HIDE DEF l
<1>11. CASE k = 0
  <2>1. text' = text
    <3>1. text' = text \o <<>> /\ text \in Seq(TextLines)
      BY <1>11 DEF Emits, IInv, TextGood
    <3> QED BY <3>1
  <2> QED BY <1>2, <1>4, <1>5, <1>11, <2>1, OwnTypes DEF WroteField, Emits
<1>12. CASE k # 0
  <2>1. Adds(l)
    BY <1>12 DEF Emits, Adds
  <2> QED BY <1>2, <1>4, <1>5, <1>10, <1>12, <2>1, OwnTypes DEF WroteField, Emits
<1> QED BY <1>11, <1>12

-----------------------------------------------------------------------------
(* Every step keeps the invariant: the forms.                              *)

LEMMA SamePasses ==
    ASSUME TypesPass, SignaturesPass, UNCHANGED <<decls, tables>>,
           TypesRead' = TypesRead, SignaturesRead' = SignaturesRead
    PROVE  TypesPass' /\ SignaturesPass'
<1>1. \A s, i : StructFrom(s, i)' <=> StructFrom(s, i)
  BY DEF StructFrom, tables
<1>2. TypesPass'
  BY <1>1 DEF TypesPass, NamedIn, tables
<1>3. \A d : Signature(d)' = Signature(d)
  BY DEF Signature, SignatureParams, ParamType, tables
<1>4. SignaturesPass'
  BY <1>3 DEF SignaturesPass, NamedIn, DeclaredFns, tables
<1> QED BY <1>2, <1>4

LEMMA SameText ==
    ASSUME IInv, phase \notin {"types", "signatures"}, phase' \notin {"types", "signatures"},
           UNCHANGED <<decls, tables, text, declared>>,
           Opened' = Opened \/ (Opened \in Nat /\ Opened' = Opened + 1 /\ decls[Opened + 1].kind \notin {"fn", "entry"})
    PROVE  /\ TextGood' /\ TypeLines' /\ DefineLines' /\ DeclareLines' /\ CcallsDeclared'
           /\ Lines({"set-field"})' = Lines({"set-field"})
<1>1. \A o : Lines(o)' = Lines(o)
  BY DEF Lines
<1>2. TextGood'
  <2>1. \A x : GoodLine(x)' <=> GoodLine(x)
    BY SameTables DEF GoodLine, GoodOperands
  <2> QED BY <2>1, SameTables DEF TextGood, IInv
<1>3. TypeLines'
  BY <1>1 DEF TypeLines, IInv, tables
<1>4. DefineLines'
  <2>1. \A d, p : HeaderOf(d, p)' <=> HeaderOf(d, p)
    BY SameTables DEF HeaderOf, tables
  <2>2. CASE Opened' = Opened
    BY <1>1, <2>1, <2>2, SameTables DEF DefineLines, IInv
  <2>3. CASE Opened \in Nat /\ Opened' = Opened + 1 /\ decls[Opened + 1].kind \notin {"fn", "entry"}
    <3> DEFINE o == Opened
    <3>1. /\ \A p \in 1..o : decls[p].kind \in {"fn", "entry"} => \E d \in Lines({"define"}) : HeaderOf(d, p)
          /\ \A d \in Lines({"define"}) :
                text[d].name = "arena-create" \/ \E p \in 1..o : p \in DeclaredFns(text[d].name)
          /\ \A d, e \in Lines({"define"}) : text[d].name = text[e].name /\ d # e =>
                \/ \E p, q \in DeclaredFns(text[d].name) : p # q
                \/ text[d].name = "arena-create" /\ DeclaredFns(text[d].name) # {}
      BY DEF DefineLines, IInv
    <3>2. PICK m : m = o
      OBVIOUS
    <3>3. m \in Nat /\ Opened' = m + 1 /\ 1..m + 1 = 1..m \cup {m + 1} /\ decls[m + 1].kind \notin {"fn", "entry"}
      BY <2>3, <3>2
    <3> HIDE DEF o
    <3> QED BY <1>1, <2>1, <3>1, <3>2, <3>3, SameTables DEF DefineLines
  <2> QED BY <2>2, <2>3
<1>5. DeclareLines'
  BY <1>1 DEF DeclareLines, IInv
<1>6. CcallsDeclared'
  BY <1>1 DEF CcallsDeclared, IInv
<1> QED BY <1>1, <1>2, <1>3, <1>4, <1>5, <1>6

\* What no step of a body changes.
LEMMA BodyKeeps ==
    ASSUME IInv, phase = "body", UNCHANGED <<decls, at, tables>>, nforms' \in 0..MaxForms,
           phase' \in {"body", "fatal", "crashed"}, env' \in FieldSeqs, it' \in Values, last' \in Values
    PROVE  Walk' /\ Typed' /\ TypesPass' /\ SignaturesPass' /\ Opened' = Opened
<1>1. TypesRead' = TypesRead /\ SignaturesRead' = SignaturesRead /\ Opened' = Opened
  BY DEF TypesRead, SignaturesRead, Opened
<1>2. Walk'
  BY DEF Walk, IInv
<1>3. Typed'
  BY SameTables DEF Typed, IInv, tables
<1> QED BY <1>1, <1>2, <1>3, SamePasses DEF IInv

LEMMA StopsKeeps ==
    ASSUME IInv, phase = "body", NEW how \in {"fatal", "crashed"}, Stops(how)
    PROVE  IInv'
<1>1. UNCHANGED <<decls, at, tables, text, declared, asked, nforms, env, it, last>> /\ phase' = how
  BY DEF Stops, function
<1>2. nforms' \in 0..MaxForms /\ env' \in FieldSeqs /\ it' \in Values /\ last' \in Values
  BY <1>1 DEF IInv, Walk, Typed
<1>3. Walk' /\ Typed' /\ TypesPass' /\ SignaturesPass' /\ Opened' = Opened
  BY <1>1, <1>2, BodyKeeps
<1>4. /\ TextGood' /\ TypeLines' /\ DefineLines' /\ DeclareLines' /\ CcallsDeclared'
      /\ Lines({"set-field"})' = Lines({"set-field"})
  BY <1>1, <1>3, SameText
<1>5. AssignmentsCounted' /\ (asked \in Seq([base : KnownTypes, field : Words]))'
  BY <1>1, <1>4, SameAsked
<1> QED BY <1>3, <1>4, <1>5 DEF IInv

LEMMA MoreForms ==
    ASSUME IInv, nforms < MaxForms, nforms' = nforms + 1
    PROVE  nforms' \in 0..MaxForms
  BY ProgramAssumption DEF IInv, Walk

LEMMA WroteKeeps ==
    ASSUME IInv, phase = "body", nforms < MaxForms, Wrote
    PROVE  IInv'
<1>1. PICK l \in TextLines : Writes(l)
  BY DEF Wrote
<1>2. nforms' = nforms + 1 /\ UNCHANGED <<decls, phase, at, tables>>
  BY DEF Wrote
<1>3. /\ GoodLine(l) /\ l.op \notin {"type", "define", "declare", "set-field"} /\ Adds(l)
      /\ it' \in Values /\ last' \in Values /\ env' \in FieldSeqs
      /\ UNCHANGED <<declared, asked>>
  BY <1>1 DEF Writes
<1>4. Walk' /\ Typed' /\ TypesPass' /\ SignaturesPass' /\ Opened' = Opened
  BY <1>2, <1>3, BodyKeeps, MoreForms
<1>5. UNCHANGED <<decls, tables, declared, asked>>
  BY <1>2, <1>3
<1>6. /\ TextGood' /\ TypeLines' /\ DefineLines' /\ DeclareLines' /\ CcallsDeclared'
      /\ Lines({"set-field"})' = Lines({"set-field"})
  BY <1>2, <1>3, <1>4, <1>5, QuietLine
<1>7. AssignmentsCounted' /\ (asked \in Seq([base : KnownTypes, field : Words]))'
  BY <1>5, <1>6, SameAsked
<1> QED BY <1>4, <1>6, <1>7 DEF IInv

\* One more assignment is asked for, and one more line written if its field is there.
LEMMA AskedMore ==
    ASSUME IInv, UNCHANGED <<decls, tables>>, NEW a \in [base : KnownTypes, field : Words], asked' = Append(asked, a),
           Lines({"set-field"})' = IF FieldDeclared(a) THEN Lines({"set-field"}) \cup {Len(text) + 1}
                                   ELSE Lines({"set-field"})
    PROVE  AssignmentsCounted' /\ (asked \in Seq([base : KnownTypes, field : Words]))'
<1> DEFINE A == [base : KnownTypes, field : Words]
           n == Len(asked) + 1
           D == {i \in DOMAIN asked : FieldDeclared(asked[i])}
           L == Lines({"set-field"})
<1>1. A' = A
  BY SameTables
<1>2. asked \in Seq(A) /\ a \in A
  BY DEF IInv
<1> HIDE DEF A
<1>3. /\ asked' \in Seq(A) /\ DOMAIN asked' = DOMAIN asked \cup {n} /\ n \notin DOMAIN asked
      /\ asked'[n] = a /\ (\A i \in DOMAIN asked : asked'[i] = asked[i]) /\ DOMAIN asked = 1..Len(asked)
      /\ Len(asked) \in Nat
  BY <1>2
<1>4. D' = IF FieldDeclared(a) THEN D \cup {n} ELSE D
  BY <1>3, SameTables
<1>5. IsFiniteSet(D) /\ n \notin D
  <2>1. D \in SUBSET (1..Len(asked)) /\ n \notin D
    BY <1>3
  <2>2. IsFiniteSet(1..Len(asked))
    BY <1>3, FS_Interval
  <2> HIDE DEF D
  <2> QED BY <2>1, <2>2, FS_Subset
<1>6. IsFiniteSet(L) /\ Len(text) + 1 \notin L
  <2>1. text \in Seq(TextLines)
    BY DEF IInv, TextGood
  <2>2. DOMAIN text = 1..Len(text) /\ Len(text) \in Nat
    BY <2>1
  <2>3. L \in SUBSET (1..Len(text)) /\ Len(text) + 1 \notin L
    BY <2>2 DEF Lines
  <2>4. IsFiniteSet(1..Len(text))
    BY <2>2, FS_Interval
  <2> HIDE DEF L
  <2> QED BY <2>3, <2>4, FS_Subset
<1>7. Cardinality(L) = Cardinality(D)
  BY DEF IInv, AssignmentsCounted
<1> HIDE DEF D, L, n
<1>8. Cardinality(L \cup {Len(text) + 1}) = Cardinality(L) + 1 /\ Cardinality(D \cup {n}) = Cardinality(D) + 1
  BY <1>5, <1>6, FS_AddElement
<1>9. L' = IF FieldDeclared(a) THEN L \cup {Len(text) + 1} ELSE L
  BY DEF L
<1>10. Cardinality(L') = Cardinality(D')
  BY <1>4, <1>7, <1>8, <1>9
<1>11. AssignmentsCounted'
  BY <1>10 DEF L, D, AssignmentsCounted
<1> QED BY <1>1, <1>3, <1>11 DEF A

LEMMA WroteFieldKeeps ==
    ASSUME IInv, phase = "body", nforms < MaxForms, WroteField
    PROVE  IInv'
<1>1. PICK a \in [base : KnownTypes, field : Words] :
        /\ \/ FieldDeclared(a) /\ \E l \in TextLines : l.op = "set-field" /\ GoodLine(l) /\ Adds(l)
           \/ ~FieldDeclared(a) /\ text' = text
        /\ asked' = Append(asked, a)
        /\ it' \in Values /\ last' \in Values /\ nforms' = nforms + 1
        /\ UNCHANGED <<decls, phase, at, tables, env, declared>>
  BY DEF WroteField
<1>2. env' \in FieldSeqs
  BY <1>1 DEF IInv, Typed
<1>3. Walk' /\ Typed' /\ TypesPass' /\ SignaturesPass' /\ Opened' = Opened
  BY <1>1, <1>2, BodyKeeps, MoreForms
<1>4. /\ TextGood' /\ TypeLines' /\ DefineLines' /\ DeclareLines' /\ CcallsDeclared'
      /\ Lines({"set-field"})' = IF FieldDeclared(a) THEN Lines({"set-field"}) \cup {Len(text) + 1}
                                ELSE Lines({"set-field"})
  <2>1. CASE FieldDeclared(a)
    <3>1. PICK l \in TextLines : l.op = "set-field" /\ GoodLine(l) /\ Adds(l)
      BY <1>1, <2>1
    <3> QED BY <1>1, <1>3, <2>1, <3>1, QuietLine
  <2>2. CASE ~FieldDeclared(a)
    BY <1>1, <1>3, <2>2, SameText
  <2> QED BY <2>1, <2>2
<1>5. AssignmentsCounted' /\ (asked \in Seq([base : KnownTypes, field : Words]))'
  BY <1>1, <1>4, AskedMore
<1> QED BY <1>3, <1>4, <1>5 DEF IInv

LEMMA Joined ==
    ASSUME NEW S, NEW s \in Seq(S), NEW t \in Seq(S)
    PROVE  /\ s \o t \in Seq(S) /\ Len(s \o t) = Len(s) + Len(t)
           /\ Len(s) \in Nat /\ Len(t) \in Nat /\ DOMAIN s = 1..Len(s) /\ DOMAIN t = 1..Len(t)
           /\ DOMAIN (s \o t) = 1..Len(s) + Len(t)
           /\ \A i \in DOMAIN s : (s \o t)[i] = s[i]
           /\ \A i \in DOMAIN t : (s \o t)[Len(s) + i] = t[i]
  OBVIOUS

LEMMA TwoMore ==
    ASSUME NEW S, NEW s \in Seq(S), NEW x \in S, NEW y \in S
    PROVE  /\ s \o <<x, y>> \in Seq(S) /\ Len(s) \in Nat
           /\ Len(s) + 1 \notin DOMAIN s /\ Len(s) + 2 \notin DOMAIN s
           /\ DOMAIN (s \o <<x, y>>) = DOMAIN s \cup {Len(s) + 1, Len(s) + 2}
           /\ (s \o <<x, y>>)[Len(s) + 1] = x /\ (s \o <<x, y>>)[Len(s) + 2] = y
           /\ \A i \in DOMAIN s : (s \o <<x, y>>)[i] = s[i] /\ i < Len(s) + 1
<1>1. <<x, y>> \in Seq(S) /\ Len(<<x, y>>) = 2 /\ <<x, y>>[1] = x /\ <<x, y>>[2] = y
  OBVIOUS
<1> DEFINE t == <<x, y>>
<1> HIDE DEF t
<1>2. t \in Seq(S) /\ Len(t) = 2 /\ t[1] = x /\ t[2] = y
  BY <1>1 DEF t
<1>3. s \o t \in Seq(S) /\ Len(s \o t) = Len(s) + 2 /\ DOMAIN s = 1..Len(s) /\ Len(s) \in Nat
  <2>1. s \o t \in Seq(S) /\ Len(s \o t) = Len(s) + Len(t) /\ DOMAIN s = 1..Len(s) /\ Len(s) \in Nat
    BY <1>2, Joined
  <2> QED BY <1>2, <2>1
<1>4. (s \o t)[Len(s) + 1] = x /\ (s \o t)[Len(s) + 2] = y /\ \A i \in DOMAIN s : (s \o t)[i] = s[i]
  BY <1>2, <1>3
<1>5. DOMAIN (s \o t) = 1..Len(s) + 2
  BY <1>3
<1> QED BY <1>3, <1>4, <1>5 DEF t

LEMMA WroteDeclaredKeeps ==
    ASSUME IInv, phase = "body", nforms < MaxForms, WroteDeclared
    PROVE  IInv'
<1>1. PICK d \in TextLines, l \in TextLines :
        /\ d.op = "declare" /\ l.op = "ccall" /\ d.name = l.name /\ l.name \notin declared
        /\ d.ret = l.ret /\ d.wrote = l.wrote /\ GoodOperands(d) /\ GoodOperands(l)
        /\ text' = text \o <<d, l>> /\ declared' = declared \cup {l.name}
        /\ it' \in Values /\ last' \in Values /\ nforms' = nforms + 1
        /\ UNCHANGED <<decls, phase, at, tables, env, asked>>
  BY DEF WroteDeclared
<1>2. env' \in FieldSeqs
  BY <1>1 DEF IInv, Typed
<1>3. Walk' /\ Typed' /\ TypesPass' /\ SignaturesPass' /\ Opened' = Opened
  BY <1>1, <1>2, BodyKeeps, MoreForms
<1> DEFINE n == Len(text) + 1
           m == Len(text) + 2
<1>4. /\ text' \in Seq(TextLines) /\ DOMAIN text' = DOMAIN text \cup {n, m} /\ n \notin DOMAIN text /\ m \notin DOMAIN text
      /\ n \in Nat /\ m = n + 1
      /\ text'[n] = d /\ text'[m] = l /\ \A i \in DOMAIN text : text'[i] = text[i] /\ i < n
  <2>1. text \in Seq(TextLines)
    BY DEF IInv, TextGood
  <2> QED BY <1>1, <2>1, TwoMore
<1> HIDE DEF n, m
<1>5. /\ d.op = "declare" /\ l.op = "ccall" /\ d.name = l.name /\ l.name \notin declared
      /\ d.ret = l.ret /\ d.wrote = l.wrote /\ GoodOperands(d) /\ GoodOperands(l)
      /\ declared' = declared \cup {l.name} /\ phase' = "body" /\ UNCHANGED <<decls, at, tables, asked>>
  BY <1>1
<1>6. /\ \A o \in {"type", "define", "set-field"} : Lines({o})' = Lines({o})
      /\ Lines({"declare"})' = Lines({"declare"}) \cup {n}
      /\ Lines({"ccall"})' = Lines({"ccall"}) \cup {m}
      /\ \A o : \A i \in Lines(o) : text'[i] = text[i] /\ i < m /\ i # n
  <2>1. \A o \in {"type", "define", "set-field"} : Lines({o})' = Lines({o})
    BY <1>4, <1>5 DEF Lines
  <2>2. Lines({"declare"})' = Lines({"declare"}) \cup {n}
    BY <1>4, <1>5 DEF Lines
  <2>3. Lines({"ccall"})' = Lines({"ccall"}) \cup {m}
    BY <1>4, <1>5 DEF Lines
  <2>4. \A o : Lines(o) \subseteq DOMAIN text
    BY DEF Lines
  <2>5. \A i \in DOMAIN text : text'[i] = text[i] /\ i < m /\ i # n
    <3>1. DOMAIN text \subseteq Nat
      <4>1. text \in Seq(TextLines)
        BY DEF IInv, TextGood
      <4> QED BY <4>1
    <3> QED BY <1>4, <3>1
  <2> QED BY <2>1, <2>2, <2>3, <2>4, <2>5
<1>7. TextGood'
  <2>1. ASSUME NEW x, GoodLine(x) PROVE GoodLine(x)'
    BY <1>5, <2>1, SameTables DEF GoodLine, GoodOperands
  <2>2. GoodLine(d)' /\ GoodLine(l)'
    BY <1>5 DEF GoodLine, GoodOperands
  <2>3. \A i \in DOMAIN text : GoodLine(text[i])
    BY DEF IInv, TextGood
  <2>4. \A i \in DOMAIN text' : (i \in DOMAIN text /\ text'[i] = text[i]) \/ text'[i] = d \/ text'[i] = l
    BY <1>4
  <2>5. ASSUME NEW i \in DOMAIN text' PROVE GoodLine(text[i])'
    <3>1. PICK x : x = text'[i]
      OBVIOUS
    <3>2. x \in {d, l} \/ \E j \in DOMAIN text : x = text[j]
      BY <2>4, <3>1
    <3>3. GoodLine(x)'
      BY <2>1, <2>2, <2>3, <3>2
    <3> QED BY <3>1, <3>3
  <2>6. TextLines' = TextLines
    BY <1>5, SameTables
  <2> QED BY <1>4, <1>5, <2>5, <2>6 DEF TextGood
<1>8. TypeLines'
  BY <1>5, <1>6 DEF TypeLines, IInv, tables
<1>9. DefineLines'
  <2>1. \A p : \A i \in Lines({"define"}) : HeaderOf(i, p)' <=> HeaderOf(i, p)
    BY <1>5, <1>6, SameTables DEF HeaderOf, tables
  <2> QED BY <1>3, <1>5, <1>6, <2>1, SameTables DEF DefineLines, IInv
<1>10. DeclareLines'
  BY <1>4, <1>5, <1>6 DEF DeclareLines, IInv
<1>11. CcallsDeclared'
  BY <1>4, <1>5, <1>6 DEF CcallsDeclared, IInv
<1>12. AssignmentsCounted' /\ (asked \in Seq([base : KnownTypes, field : Words]))'
  BY <1>5, <1>6, SameAsked
<1> QED BY <1>3, <1>7, <1>8, <1>9, <1>10, <1>11, <1>12 DEF IInv

LEMMA FormKeeps ==
    ASSUME IInv, NEW f \in Forms, Form(f)
    PROVE  IInv'
<1>1. Compiling(f) /\ phase = "body" /\ nforms < MaxForms
  BY DEF Form, Compiling
<1>2. PICK nested \in BOOLEAN : \E vs \in Operands(f.n, nested) :
        Call(f, vs, nested) \/ Ccall(f, vs, nested) \/ Jit(f, vs, nested)
        \/ Load(f, vs, nested) \/ PtrAdd(f, vs, nested) \/ Make(f, vs, nested)
        \/ Store(f, vs, nested) \/ SetField(f, vs, nested)
        \/ Let(f, vs, nested) \/ Set(f, vs, nested)
  BY DEF Form
<1>4. PICK vs \in Operands(f.n, nested) :
        Call(f, vs, nested) \/ Ccall(f, vs, nested) \/ Jit(f, vs, nested)
        \/ Load(f, vs, nested) \/ PtrAdd(f, vs, nested) \/ Make(f, vs, nested)
        \/ Store(f, vs, nested) \/ SetField(f, vs, nested)
        \/ Let(f, vs, nested) \/ Set(f, vs, nested)
  BY <1>2
<1>3. Stops("fatal") \/ Stops("crashed") \/ Wrote \/ WroteDeclared \/ WroteField
  BY <1>1, <1>4, CallWrites, CcallWrites, JitWrites, LoadWrites, PtrAddWrites, MakeWrites,
     StoreWrites, SetFieldWrites, LetWrites, SetWrites
<1> QED BY <1>1, <1>3, StopsKeeps, WroteKeeps, WroteDeclaredKeeps, WroteFieldKeeps

-----------------------------------------------------------------------------
(* Every step keeps the invariant: the end of a body.                      *)

LEMMA RetTyped ==
    ASSUME IInv, phase = "body"
    PROVE  RetType \in KnownTypes /\ at \in DOMAIN decls
<1>1. at \in DOMAIN decls /\ decls[at].kind \in {"fn", "entry"}
  BY DeclTyped DEF IInv, Walk
<1>2. decls[at].node \in TypeNodes
  <2>1. decls[at] \in Decls
    BY <1>1, DeclTyped DEF IInv
  <2> QED BY <2>1 DEF Decls
<1>3. decls[at].node \in Nodes(decls[at])
  BY <1>1 DEF Nodes
<1> QED BY <1>1, <1>2, <1>3, ReadLater DEF IInv, RetType

LEMMA ClosesKeeps ==
    ASSUME IInv, phase = "body", NEW l \in TextLines, GoodOperands(l), l.op \in {"ret", "implicit-ret"}, Closes(<<l>>)
    PROVE  IInv'
<1>1. /\ Adds(l) /\ phase' = "functions" /\ at' = at + 1
      /\ env' = <<>> /\ it' = NoValue /\ last' = NoValue
      /\ UNCHANGED <<decls, tables, declared, nforms, asked>>
  BY DEF Closes, Adds
<1>2. /\ at \in 1..Len(decls) /\ Len(decls) \in Nat
  BY DeclTyped DEF IInv, Walk
<1>3. TypesRead' = TypesRead /\ SignaturesRead' = SignaturesRead /\ Opened' = Opened
  BY <1>1, <1>2 DEF TypesRead, SignaturesRead, Opened
<1>4. Walk'
  BY <1>1, <1>2 DEF Walk, IInv, function
<1>5. Typed'
  <2>1. <<>> \in FieldSeqs
    BY DEF FieldSeqs
  <2> QED BY <1>1, <2>1, SameTables, OwnTypes DEF Typed, IInv, tables
<1>6. TypesPass' /\ SignaturesPass'
  BY <1>1, <1>3, SamePasses DEF IInv
<1>7. GoodLine(l)
  BY DEF GoodLine
<1>8. /\ TextGood' /\ TypeLines' /\ DefineLines' /\ DeclareLines' /\ CcallsDeclared'
      /\ Lines({"set-field"})' = Lines({"set-field"})
  BY <1>1, <1>3, <1>7, QuietLine
<1>9. AssignmentsCounted' /\ (asked \in Seq([base : KnownTypes, field : Words]))'
  BY <1>1, <1>8, SameAsked
<1> QED BY <1>4, <1>5, <1>6, <1>8, <1>9 DEF IInv

LEMMA BareReturn ==
    ASSUME NEW t \in KnownTypes
    PROVE  /\ TextLine("ret", "", t, <<>>) \in TextLines /\ TextLine("ret", "", t, <<>>).op = "ret"
           /\ GoodOperands(TextLine("ret", "", t, <<>>))
<1>1. "ret" \in Ops /\ "" \in Words /\ <<>> \in Seq(KnownTypes)
  BY DEF Ops, Words
<1> DEFINE r == [op |-> "ret", name |-> "", ret |-> t, wrote |-> <<>>, has |-> <<>>, val |-> t]
<1>2. TextLine("ret", "", t, <<>>) = r
  BY DEF TextLine
<1>3. r \in TextLines
  BY <1>1, LineMade
<1>4. GoodOperands(r) /\ r.op = "ret"
  BY DEF GoodOperands
<1> HIDE DEF r
<1> QED BY <1>2, <1>3, <1>4

LEMMA UsedReturn ==
    ASSUME NEW op \in {"ret", "implicit-ret"}, NEW t \in KnownTypes, NEW h \in KnownTypes, op = "ret" \/ h = t
    PROVE  /\ Uses(op, t, <<t>>, <<h>>) \in TextLines /\ Uses(op, t, <<t>>, <<h>>).op = op
           /\ GoodOperands(Uses(op, t, <<t>>, <<h>>))
<1>1. op \in Ops /\ "" \in Words /\ <<t>> \in Seq(KnownTypes) /\ <<h>> \in Seq(KnownTypes)
  BY DEF Ops, Words
<1> DEFINE r == [op |-> op, name |-> "", ret |-> t, wrote |-> <<t>>, has |-> <<h>>, val |-> t]
<1>2. Uses(op, t, <<t>>, <<h>>) = r
  <2> DEFINE w == <<t>>
             g == <<h>>
  <2>1. op \in Ops /\ "" \in Words /\ w \in Seq(KnownTypes) /\ g \in Seq(KnownTypes)
    BY <1>1
  <2> HIDE DEF w, g
  <2>2. Uses(op, t, w, g) = [op |-> op, name |-> "", ret |-> t, wrote |-> w, has |-> g, val |-> t]
    BY UsesMade
  <2> QED BY <2>2 DEF w, g
<1>3. r \in TextLines
  BY <1>1, LineMade
<1>4. GoodOperands(r) /\ r.op = op
  <2>1. <<"ret", 1>> \in Unchecked
    BY DEF Unchecked
  <2> QED BY <2>1 DEF GoodOperands
<1> HIDE DEF r
<1> QED BY <1>2, <1>3, <1>4

LEMMA ReturnKeeps ==
    ASSUME IInv, NEW nested \in BOOLEAN, Return(nested)
    PROVE  IInv'
<1>1. phase = "body"
  BY DEF Return
<1>2. PICK vs \in Operands(1, nested) :
        Closes(<<IF RetType = Void THEN TextLine("ret", "", Void, <<>>)
                 ELSE Uses("ret", RetType, <<RetType>>, Types(vs))>>)
  BY DEF Return
<1>3. vs \in [1..1 -> Values]
  BY <1>2, OperandsKnown DEF IInv
<1>4. vs[1].ty \in KnownTypes /\ Types(vs) = <<vs[1].ty>>
  BY <1>3 DEF Values, Types
<1>5. CASE RetType = Void
  <2>1. Closes(<<TextLine("ret", "", Void, <<>>)>>)
    BY <1>2, <1>5
  <2> QED BY <1>1, <2>1, BareReturn, ClosesKeeps, OwnTypes
<1>6. CASE RetType # Void
  <2>1. Closes(<<Uses("ret", RetType, <<RetType>>, <<vs[1].ty>>)>>)
    BY <1>2, <1>4, <1>6
  <2>2. RetType \in KnownTypes
    BY <1>1, RetTyped
  <2> QED BY <1>1, <1>4, <2>1, <2>2, UsedReturn, ClosesKeeps
<1> QED BY <1>5, <1>6

LEMMA EndBodyKeeps ==
    ASSUME IInv, EndBody
    PROVE  IInv'
<1>1. phase = "body"
  BY DEF EndBody
<1> DEFINE v == LastAfter(FALSE)
<1>2. RetType \in KnownTypes
  BY <1>1, RetTyped
<1>4. \/ Stops("fatal")
      \/ /\ RetType # Void /\ v # NoValue => Checked(<<v>>, <<RetType>>)
         /\ Closes(<<IF RetType = Void \/ v = NoValue THEN TextLine("ret", "", RetType, <<>>)
                     ELSE Uses("implicit-ret", RetType, <<RetType>>, Passed(<<v>>, <<RetType>>))>>)
  BY DEF EndBody
<1>5. CASE Stops("fatal")
  BY <1>1, <1>5, StopsKeeps
<1>6. CASE Closes(<<TextLine("ret", "", RetType, <<>>)>>)
  BY <1>1, <1>2, <1>6, BareReturn, ClosesKeeps
<1>7. CASE Checked(<<v>>, <<RetType>>)
           /\ Closes(<<Uses("implicit-ret", RetType, <<RetType>>, Passed(<<v>>, <<RetType>>))>>)
  <2>1. Passed(<<v>>, <<RetType>>) = <<RetType>>
    BY <1>7, OnePassed
  <2>2. Closes(<<Uses("implicit-ret", RetType, <<RetType>>, <<RetType>>)>>)
    BY <1>7, <2>1
  <2> QED BY <1>1, <1>2, <2>2, UsedReturn, ClosesKeeps
<1> HIDE DEF v
<1> QED BY <1>4, <1>5, <1>6, <1>7

-----------------------------------------------------------------------------
(* Every step keeps the invariant: the passes.                             *)

LEMMA InitHolds ==
    ASSUME Init
    PROVE  IInv
<1>1. /\ decls \in Programs /\ phase = "types" /\ at = 1
      /\ aliases = <<>> /\ structs = <<>> /\ fns = <<>> /\ text = <<>> /\ declared = {}
      /\ env = <<>> /\ it = NoValue /\ last = NoValue /\ nforms = 0 /\ asked = <<>>
  BY DEF Init
<1>2. Len(decls) \in Nat /\ MaxForms \in Nat
  BY <1>1, ProgramAssumption
<1>3. Walk
  BY <1>1, <1>2 DEF Walk, function
<1>4. TypesRead = 0 /\ SignaturesRead = 0 /\ Opened = 0
  BY <1>1 DEF TypesRead, SignaturesRead, Opened
<1>5. DOMAIN <<>> = {} /\ \A S : <<>> \in Seq(S)
  OBVIOUS
<1>6. Typed
  BY <1>1, <1>5, OwnTypes DEF Typed, FieldSeqs
<1>7. TypesPass /\ SignaturesPass
  BY <1>1, <1>4, <1>5 DEF TypesPass, SignaturesPass, NamedIn
<1>8. \A o : Lines(o) = {}
  BY <1>1, <1>5 DEF Lines
<1>9. TextGood
  BY <1>1, <1>5 DEF TextGood
<1>10. TypeLines /\ DeclareLines /\ CcallsDeclared
  BY <1>1, <1>8 DEF TypeLines, DeclareLines, CcallsDeclared
<1>11. DefineLines
  BY <1>4, <1>8 DEF DefineLines
<1>12. AssignmentsCounted
  <2>1. {i \in DOMAIN asked : FieldDeclared(asked[i])} = {}
    BY <1>1, <1>5
  <2> QED BY <1>8, <2>1 DEF AssignmentsCounted
<1> QED BY <1>1, <1>3, <1>5, <1>6, <1>7, <1>9, <1>10, <1>11, <1>12 DEF IInv

LEMMA PutEntry ==
    ASSUME NEW table, NEW x, NEW y
    PROVE  Put(table, x, y) = [z \in DOMAIN table \cup {x} |-> IF z = x THEN y ELSE table[z]]
  BY DEF Put, Over

LEMMA PutTyped ==
    ASSUME NEW S, NEW table, table \in [DOMAIN table -> S], NEW x, NEW y \in S
    PROVE  Put(table, x, y) \in [DOMAIN Put(table, x, y) -> S]
<1>1. Put(table, x, y) = [z \in {x} \cup DOMAIN table |-> IF z = x THEN y ELSE table[z]]
  BY DEF Put, Over
<1> QED BY <1>1

LEMMA ParsePut ==
    ASSUME NEW known, NEW x, NEW y, NEW n, n.name # x
    PROVE  Parse(Put(known, x, y), n) = Parse(known, n)
<1> DEFINE p == Put(known, x, y)
<1>1. DOMAIN p = DOMAIN known \cup {x} /\ \A z \in DOMAIN known : z # x => p[z] = known[z]
  BY PutEntry
<1> HIDE DEF p
<1>2. ParsedName(p, n.name) = ParsedName(known, n.name)
  BY <1>1 DEF ParsedName
<1>3. Parse(p, n) = Parse(known, n)
  BY <1>2 DEF Parse
<1> QED BY <1>3 DEF p

\* In the first pass there is no text, and all that a step can change is a table.
LEMMA CollectTypeKeeps ==
    ASSUME IInv, CollectType
    PROVE  IInv'
<1> DEFINE d == decls[at]
           fs == [i \in DOMAIN d.fields |-> [name |-> d.fields[i].name, ty |-> Parse(aliases, d.fields[i].node)]]
<1>1. /\ phase = "types" /\ at \in 1..Len(decls) /\ Len(decls) \in Nat /\ at' = at + 1
      /\ UNCHANGED <<decls, phase, fns, text, declared, env, it, last, nforms, asked>>
  BY DeclTyped DEF CollectType, IInv, Walk, function
<1>2. d \in Decls /\ at \in DOMAIN decls
  BY <1>1, DeclTyped DEF IInv
<1>3. d.name \in STRING /\ d.node \in TypeNodes /\ d.fields \in Seq([name : STRING, node : TypeNodes])
  BY <1>2 DEF Decls
<1>4. \/ /\ d.kind = "alias" /\ aliases' = Put(aliases, d.name, Parse(aliases, d.node)) /\ structs' = structs
      \/ /\ d.kind = "struct" /\ structs' = Put(structs, d.name, fs) /\ aliases' = aliases
      \/ /\ d.kind \in {"fn", "entry"} /\ aliases' = aliases /\ structs' = structs
  BY DEF CollectType
<1>5. Walk'
  BY <1>1 DEF Walk, IInv, function
<1>6. KnownTypes' = KnownTypes /\ FieldSeqs' = FieldSeqs /\ Sigs' = Sigs /\ Values' = Values /\ TextLines' = TextLines
  BY <1>1 DEF KnownTypes, Known, DeclaredAs, TakenForStruct, FieldSeqs, Sigs, Values, TextLines
<1>7. d.kind = "alias" => Parse(aliases, d.node) \in KnownTypes
  BY <1>1, <1>3, ReadFirst DEF IInv, Nodes
<1>8. d.kind = "struct" => fs \in FieldSeqs
  <2> SUFFICES ASSUME d.kind = "struct" PROVE fs \in FieldSeqs
    OBVIOUS
  <2>1. ASSUME NEW i \in DOMAIN d.fields
        PROVE  [name |-> d.fields[i].name, ty |-> Parse(aliases, d.fields[i].node)] \in [name : Words, ty : KnownTypes]
    <3> DEFINE gs == d.fields
               G  == [name : STRING, node : TypeNodes]
    <3>1. gs \in Seq(G) /\ i \in DOMAIN gs
      BY <1>3
    <3> HIDE DEF gs, G
    <3>2. gs[i] \in G
      BY <3>1
    <3>3. gs[i].name \in STRING /\ gs[i].node \in TypeNodes
      BY <3>2 DEF G
    <3>4. gs[i].node \in Nodes(d)
      BY <3>1 DEF gs, Nodes
    <3>5. Parse(aliases, gs[i].node) \in KnownTypes
      BY <1>1, <3>3, <3>4, ReadFirst DEF IInv
    <3> QED BY <3>3, <3>5 DEF gs, Words
  <2> DEFINE S == [name : Words, ty : KnownTypes]
             x(i) == [name |-> d.fields[i].name, ty |-> Parse(aliases, d.fields[i].node)]
  <2>2. DOMAIN d.fields = 1..Len(d.fields) /\ Len(d.fields) \in Nat
    BY <1>3
  <2>3. \A i \in 1..Len(d.fields) : x(i) \in S
    BY <2>1, <2>2
  <2>4. fs = [i \in 1..Len(d.fields) |-> x(i)]
    BY <2>2
  <2> HIDE DEF S, x, fs, d
  <2>5. fs \in Seq(S)
    BY <2>2, <2>3, <2>4
  <2> QED BY <2>5 DEF S, FieldSeqs
<1>9. Typed'
  <2>1. aliases' \in [DOMAIN aliases' -> KnownTypes]
    BY <1>4, <1>7, PutTyped DEF IInv, Typed
  <2>2. structs' \in [DOMAIN structs' -> FieldSeqs]
    <3> HIDE DEF d, fs
    <3> QED BY <1>4, <1>8, PutTyped DEF IInv, Typed
  <2>3. fns' \in [DOMAIN fns' -> Sigs] /\ env' \in FieldSeqs /\ it' \in Values /\ last' \in Values
    BY <1>1 DEF IInv, Typed
  <2> QED BY <1>6, <2>1, <2>2, <2>3 DEF Typed
<1>10. TypesRead = at - 1 /\ TypesRead' = at /\ SignaturesRead = 0 /\ SignaturesRead' = 0 /\ Opened' = Opened
  BY <1>1 DEF TypesRead, SignaturesRead, Opened
<1>11. TypesPass'
  <2>0. PICK a : a = at /\ a \in 1..Len(decls)
    BY <1>1
  <2>1. /\ DOMAIN aliases = NamedIn({"alias"}, a - 1) /\ DOMAIN structs = NamedIn({"struct"}, a - 1)
        /\ \A s \in DOMAIN structs : \E i \in 1..a - 1 : StructFrom(s, i)
    BY <1>10, <2>0 DEF IInv, TypesPass
  <2>2. \A k : NamedIn(k, a)' = IF d.kind \in k THEN NamedIn(k, a - 1) \cup {d.name} ELSE NamedIn(k, a - 1)
    <3>1. 1..a = 1..a - 1 \cup {a} /\ decls' = decls
      BY <1>1, <2>0
    <3> QED BY <2>0, <3>1 DEF NamedIn
  <2>3. DOMAIN aliases' = NamedIn({"alias"}, a)' /\ DOMAIN structs' = NamedIn({"struct"}, a)'
    <3> HIDE DEF d, fs
    <3>1. d.kind = "alias" => DOMAIN aliases' = DOMAIN aliases \cup {d.name} /\ structs' = structs
      BY <1>4, PutEntry
    <3>2. d.kind = "struct" => DOMAIN structs' = DOMAIN structs \cup {d.name} /\ aliases' = aliases
      BY <1>4, PutEntry
    <3> QED BY <1>4, <2>1, <2>2, <3>1, <3>2
  <2>4. ASSUME NEW s \in DOMAIN structs' PROVE \E i \in 1..a : StructFrom(s, i)'
    <3>1. CASE d.kind = "struct" /\ s = d.name
      <4>1. structs'[s] = fs /\ aliases' = aliases
        <5> HIDE DEF fs
        <5> QED BY <1>4, <3>1, PutEntry
      <4>2. /\ DOMAIN fs = DOMAIN d.fields
            /\ \A k \in DOMAIN fs : fs[k].name = d.fields[k].name /\ fs[k].ty = Parse(aliases, d.fields[k].node)
        OBVIOUS
      <4>3. decls' = decls /\ TypesRead' = a /\ d = decls[a]
        BY <1>1, <1>10, <2>0
      <4> HIDE DEF fs
      <4>4. /\ decls[a].kind = "struct" /\ decls[a].name = s
            /\ \A j \in a + 1..a : decls[j].kind = "struct" => decls[j].name # s
        BY <2>0, <3>1
      <4> HIDE DEF d
      <4>5. StructFrom(s, a)'
        BY <4>1, <4>2, <4>3, <4>4 DEF StructFrom
      <4> QED BY <2>0, <4>5
    <3>2. CASE ~(d.kind = "struct" /\ s = d.name)
      <4>1. s \in DOMAIN structs /\ structs'[s] = structs[s]
        <5> HIDE DEF fs, d
        <5>1. d.kind = "struct" =>
                /\ DOMAIN structs' = DOMAIN structs \cup {d.name}
                /\ \A z \in DOMAIN structs : z # d.name => structs'[z] = structs[z]
          BY <1>4, PutEntry
        <5> QED BY <1>4, <3>2, <5>1
      <4>2. PICK i \in 1..a - 1 : StructFrom(s, i)
        BY <2>1, <4>1
      <4>3. ASSUME NEW n PROVE Parse(aliases', n) = Parse(aliases, n) \/ (d.kind = "alias" /\ d.name = n.name)
        BY <1>4, ParsePut
      <4> HIDE DEF fs
      <4>4. /\ decls[i].kind = "struct" /\ decls[i].name = s
            /\ \A j \in i + 1..a : decls[j].kind = "struct" => decls[j].name # s
            /\ DOMAIN structs'[s] = DOMAIN decls[i].fields
        BY <1>1, <1>10, <2>0, <3>2, <4>1, <4>2 DEF StructFrom
      <4>5. ASSUME NEW k \in DOMAIN structs'[s]
            PROVE  /\ structs'[s][k].name = decls[i].fields[k].name
                   /\ \/ structs'[s][k].ty = Parse(aliases', decls[i].fields[k].node)
                      \/ \E j \in i..a : decls[j].kind = "alias" /\ decls[j].name = decls[i].fields[k].node.name
        <5>1. /\ structs[s][k].name = decls[i].fields[k].name
              /\ \/ structs[s][k].ty = Parse(aliases, decls[i].fields[k].node)
                 \/ \E j \in i..a - 1 : decls[j].kind = "alias" /\ decls[j].name = decls[i].fields[k].node.name
          BY <1>10, <2>0, <4>1, <4>2 DEF StructFrom
        <5>2. i \in 1..a - 1 /\ a \in i..a /\ \A j \in i..a - 1 : j \in i..a
          BY <1>1, <2>0
        <5> QED BY <2>0, <4>1, <4>3, <5>1, <5>2
      <4>6. decls' = decls /\ TypesRead' = a
        BY <1>1, <1>10, <2>0
      <4>7. StructFrom(s, i)'
        BY <4>4, <4>5, <4>6 DEF StructFrom
      <4> QED BY <2>0, <4>7
    <3> QED BY <3>1, <3>2
  <2>5. TypesRead' = a
    BY <1>10, <2>0
  <2> QED BY <2>3, <2>4, <2>5 DEF TypesPass
<1>12. SignaturesPass'
  BY <1>1, <1>10 DEF IInv, SignaturesPass, NamedIn
<1>13. text = <<>> /\ text' = <<>> /\ \A o : Lines(o) = {} /\ Lines(o)' = {}
  BY <1>1 DEF IInv, TextGood, Lines
<1>14. TextGood'
  BY <1>1, <1>13 DEF TextGood
<1>15. TypeLines'
  BY <1>1, <1>13 DEF TypeLines
<1>16. DefineLines'
  BY <1>1, <1>13 DEF DefineLines, Opened
<1>17. DeclareLines' /\ CcallsDeclared'
  BY <1>1, <1>13 DEF DeclareLines, CcallsDeclared, IInv
<1>18. asked = <<>> /\ asked' = <<>>
  BY <1>1 DEF IInv, Walk
<1>19. AssignmentsCounted' /\ (asked \in Seq([base : KnownTypes, field : Words]))'
  <2>1. DOMAIN asked' = {} /\ \A S : <<>> \in Seq(S)
    BY <1>18
  <2>2. {i \in DOMAIN asked' : FieldDeclared(asked[i])'} = {}
    BY <2>1
  <2> QED BY <1>13, <1>18, <2>1, <2>2 DEF AssignmentsCounted
<1> QED BY <1>5, <1>9, <1>11, <1>12, <1>14, <1>15, <1>16, <1>17, <1>19 DEF IInv

LEMMA SameTypes ==
    ASSUME UNCHANGED decls
    PROVE  /\ KnownTypes' = KnownTypes /\ TextLines' = TextLines
           /\ FieldSeqs' = FieldSeqs /\ Sigs' = Sigs /\ Values' = Values
           /\ \A n : DeclaredFns(n)' = DeclaredFns(n)
<1>1. KnownTypes' = KnownTypes
  BY DEF KnownTypes, Known, DeclaredAs, TakenForStruct
<1> QED BY <1>1 DEF TextLines, FieldSeqs, Sigs, Values, DeclaredFns

\* What the last two passes read of a parameter.
LEMMA ParamsTyped ==
    ASSUME IInv, phase # "types", NEW p \in DOMAIN decls, decls[p].kind \in {"fn", "entry"}
    PROVE  /\ decls[p].params \in Seq([shape : {"typed", "atom", "hole"}, name : STRING, node : TypeNodes])
           /\ \A i \in DOMAIN decls[p].params :
                 ParamType(decls[p].params[i]) \in KnownTypes /\ decls[p].params[i].name \in Words
           /\ Parse(aliases, decls[p].node) \in KnownTypes
<1> DEFINE d == decls[p]
           P == [shape : {"typed", "atom", "hole"}, name : STRING, node : TypeNodes]
<1>1. d \in Decls
  BY DeclTyped DEF IInv
<1>2. d.node \in TypeNodes /\ d.params \in Seq(P)
  BY <1>1 DEF Decls
<1>3. \A n \in Nodes(d) : n \in TypeNodes => Parse(aliases, n) \in KnownTypes
  BY ReadLater DEF IInv
<1>4. Nodes(d) = {d.node} \cup {d.params[i].node : i \in DOMAIN d.params}
  BY DEF Nodes
<1>5. ASSUME NEW i \in DOMAIN d.params
      PROVE  ParamType(d.params[i]) \in KnownTypes /\ d.params[i].name \in Words
  <2> DEFINE ps == d.params
  <2>1. ps \in Seq(P) /\ i \in DOMAIN ps
    BY <1>2, <1>5
  <2>2. ps[i].node \in Nodes(d)
    BY <1>4, <1>5
  <2> HIDE DEF ps, P, d
  <2>3. ps[i] \in P
    BY <2>1
  <2>4. ps[i].node \in TypeNodes /\ ps[i].name \in STRING
    BY <2>3 DEF P
  <2>5. Parse(aliases, ps[i].node) \in KnownTypes
    BY <1>3, <2>2, <2>4
  <2> QED BY <2>4, <2>5, OwnTypes DEF ParamType, ps, Words
<1> QED BY <1>2, <1>3, <1>4, <1>5

LEMMA SignatureTyped ==
    ASSUME IInv, phase # "types", NEW p \in DOMAIN decls, decls[p].kind \in {"fn", "entry"}
    PROVE  Signature(decls[p]) \in Sigs
<1> DEFINE ps == decls[p].params
           P == [shape : {"typed", "atom", "hole"}, name : STRING, node : TypeNodes]
           ts == [i \in DOMAIN ps |-> ParamType(ps[i])]
<1>1. /\ ps \in Seq(P) /\ Parse(aliases, decls[p].node) \in KnownTypes
      /\ \A i \in DOMAIN ps : ParamType(ps[i]) \in KnownTypes
  BY ParamsTyped
<1>2. SignatureParams(decls[p]) = <<>> \/ SignatureParams(decls[p]) = ts
  BY DEF SignatureParams
<1> HIDE DEF ps, P
<1>3. DOMAIN ps = 1..Len(ps) /\ Len(ps) \in Nat
  BY <1>1
<1>4. ts \in Seq(KnownTypes)
  BY <1>1, <1>3
<1>5. <<>> \in Seq(KnownTypes)
  OBVIOUS
<1> HIDE DEF ts
<1>6. SignatureParams(decls[p]) \in Seq(KnownTypes)
  BY <1>2, <1>4, <1>5
<1> QED BY <1>1, <1>6 DEF Signature, Sigs

\* While signatures are collected the text has typedefs and nothing else.
LEMMA OnlyTypedefs ==
    ASSUME IInv, phase = "signatures"
    PROVE  /\ text \in Seq(TextLines) /\ \A i \in DOMAIN text : text[i].op = "type" /\ GoodOperands(text[i])
           /\ Lines({"type"}) = DOMAIN text /\ \A o : o # "type" => Lines({o}) = {}
           /\ \A i, j \in DOMAIN text : text[i].name = text[j].name => i = j
           /\ \A i \in DOMAIN text : text[i].name \in DOMAIN structs
           /\ \A s \in DOMAIN structs : \E i \in DOMAIN text : text[i].name = s
<1>1. text \in Seq(TextLines) /\ \A i \in DOMAIN text : text[i].op = "type" /\ GoodOperands(text[i])
  BY DEF IInv, TextGood, GoodLine
<1>2. Lines({"type"}) = DOMAIN text /\ \A o : o # "type" => Lines({o}) = {}
  BY <1>1 DEF Lines
<1> QED BY <1>1, <1>2 DEF IInv, TypeLines

LEMMA CollectSignatureKeeps ==
    ASSUME IInv, CollectSignature
    PROVE  IInv'
<1> DEFINE d == decls[at]
<1>1. /\ phase = "signatures" /\ at <= Len(decls) /\ at' = at + 1
      /\ UNCHANGED <<decls, phase, aliases, structs, text, declared, env, it, last, nforms, asked>>
  BY DEF CollectSignature, function
<1>2. fns' = IF d.kind \in {"fn", "entry"} /\ d.name \notin Skipped THEN Put(fns, d.name, Signature(d)) ELSE fns
  BY DEF CollectSignature
<1>3. at \in 1..Len(decls) /\ Len(decls) \in Nat /\ at \in DOMAIN decls
  BY <1>1, DeclTyped DEF IInv, Walk
<1>4. /\ TypesRead' = TypesRead /\ SignaturesRead = at - 1 /\ SignaturesRead' = at /\ Opened' = 0
  BY <1>1, <1>3 DEF TypesRead, SignaturesRead, Opened
<1>5. Walk'
  BY <1>1, <1>3 DEF Walk, IInv, function
<1>6. Typed'
  <2>1. d.kind \in {"fn", "entry"} => Signature(d) \in Sigs
    BY <1>1, <1>3, SignatureTyped
  <2> HIDE DEF d
  <2>2. fns' \in [DOMAIN fns' -> Sigs]
    BY <1>2, <2>1, PutTyped DEF IInv, Typed
  <2> QED BY <1>1, <2>2, SameTypes DEF Typed, IInv
<1>7. TypesPass'
  <2>1. \A s, i : StructFrom(s, i)' <=> StructFrom(s, i)
    BY <1>1, <1>4 DEF StructFrom
  <2> QED BY <1>1, <1>4, <2>1 DEF TypesPass, NamedIn, IInv
<1>8. SignaturesPass'
  <2>1. PICK a : a = at
    OBVIOUS
  <2>2. a \in 1..Len(decls) /\ d = decls[a] /\ SignaturesRead = a - 1 /\ SignaturesRead' = a
    BY <1>3, <1>4, <2>1
  <2>3. \A x : Signature(x)' = Signature(x)
    BY <1>1 DEF Signature, SignatureParams, ParamType
  <2>4. Skipped \subseteq DOMAIN BuiltIn
    BY DEF Skipped, BuiltIn
  <2>5. /\ DOMAIN fns \subseteq DOMAIN fns'
        /\ DOMAIN fns' \subseteq DOMAIN fns \cup {x \in {d.name} : d.kind \in {"fn", "entry"}}
        /\ \A z \in DOMAIN fns : (d.kind \in {"fn", "entry"} => z # d.name) => fns'[z] = fns[z]
        /\ d.kind \in {"fn", "entry"} /\ d.name \notin DOMAIN BuiltIn =>
              d.name \in DOMAIN fns' /\ fns'[d.name] = Signature(d)
    <3> HIDE DEF d
    <3>1. CASE d.kind \in {"fn", "entry"} /\ d.name \notin Skipped
      <4>1. fns' = [z \in DOMAIN fns \cup {d.name} |-> IF z = d.name THEN Signature(d) ELSE fns[z]]
        BY <1>2, <3>1, PutEntry
      <4> QED BY <3>1, <4>1
    <3>2. CASE ~(d.kind \in {"fn", "entry"} /\ d.name \notin Skipped)
      BY <1>2, <2>4, <3>2
    <3> QED BY <3>1, <3>2
  <2>6. decls' = decls
    BY <1>1
  <2>7. (DOMAIN fns \subseteq DOMAIN BuiltIn \cup NamedIn({"fn", "entry"}, Len(decls)))'
    <3>1. d.kind \in {"fn", "entry"} => d.name \in NamedIn({"fn", "entry"}, Len(decls))
      BY <2>2 DEF NamedIn
    <3> HIDE DEF d
    <3>2. NamedIn({"fn", "entry"}, Len(decls))' = NamedIn({"fn", "entry"}, Len(decls))
      BY <2>6 DEF NamedIn
    <3> QED BY <2>5, <3>1, <3>2 DEF IInv, SignaturesPass
  <2>8. ASSUME NEW p \in 1..a, decls[p].kind \in {"fn", "entry"}, DeclaredFns(decls[p].name) = {p},
               decls[p].name \notin DOMAIN BuiltIn
        PROVE  decls[p].name \in DOMAIN fns' /\ fns'[decls[p].name] = Signature(decls[p])
    <3>1. CASE p = a
      BY <2>2, <2>5, <2>8, <3>1
    <3>2. CASE p # a
      <4>1. p \in 1..a - 1
        BY <2>2, <3>2
      <4>2. decls[p].name \in DOMAIN fns /\ fns[decls[p].name] = Signature(decls[p])
        BY <2>2, <2>8, <4>1 DEF IInv, SignaturesPass
      <4>3. d.kind \in {"fn", "entry"} => d.name # decls[p].name
        BY <1>3, <2>1, <2>2, <2>8, <3>2 DEF DeclaredFns
      <4> HIDE DEF d
      <4> QED BY <2>5, <4>2, <4>3
    <3> QED BY <3>1, <3>2
  <2>9. \A n : DeclaredFns(n)' = DeclaredFns(n)
    BY <2>6 DEF DeclaredFns
  <2> QED BY <2>2, <2>3, <2>6, <2>7, <2>8, <2>9 DEF SignaturesPass
<1>9. /\ text \in Seq(TextLines) /\ \A i \in DOMAIN text : text[i].op = "type" /\ GoodOperands(text[i])
      /\ Lines({"type"}) = DOMAIN text /\ \A o : o # "type" => Lines({o}) = {}
  BY <1>1, OnlyTypedefs
<1>10. \A o : Lines(o)' = Lines(o)
  BY <1>1 DEF Lines
<1>11. TextGood'
  <2>1. \A i \in DOMAIN text' : GoodLine(text[i])'
    BY <1>1, <1>9 DEF GoodLine, GoodOperands
  <2> QED BY <1>1, <1>9, <2>1, SameTypes DEF TextGood
<1>12. TypeLines'
  BY <1>1, <1>10 DEF TypeLines, IInv
<1>13. DefineLines'
  <2>1. Lines({"define"})' = {} /\ Opened' = 0
    BY <1>4, <1>9, <1>10
  <2> QED BY <2>1 DEF DefineLines
<1>14. DeclareLines' /\ CcallsDeclared'
  BY <1>1, <1>10 DEF DeclareLines, CcallsDeclared, IInv
<1>15. asked = <<>> /\ asked' = <<>>
  BY <1>1 DEF IInv, Walk
<1>16. AssignmentsCounted' /\ (asked \in Seq([base : KnownTypes, field : Words]))'
  <2>1. DOMAIN asked' = {} /\ \A S : <<>> \in Seq(S)
    BY <1>15
  <2>2. {i \in DOMAIN asked' : FieldDeclared(asked[i])'} = {}
    BY <2>1
  <2>3. Lines({"set-field"})' = {}
    BY <1>9, <1>10
  <2> QED BY <1>15, <2>1, <2>2, <2>3 DEF AssignmentsCounted
<1> QED BY <1>5, <1>6, <1>7, <1>8, <1>11, <1>12, <1>13, <1>14, <1>16 DEF IInv

-----------------------------------------------------------------------------
(* A finite set listed.                                                    *)

LEMMA Listed ==
    ASSUME NEW S, IsFiniteSet(S)
    PROVE  /\ SetToSeq(S) \in Seq(S)
           /\ \A i, j \in DOMAIN SetToSeq(S) : SetToSeq(S)[i] = SetToSeq(S)[j] => i = j
           /\ \A x \in S : \E i \in DOMAIN SetToSeq(S) : SetToSeq(S)[i] = x
<1> DEFINE n == Cardinality(S)
           f == SetToSeq(S)
<1>1. n \in Nat /\ ExistsBijection(1..n, S)
  BY FS_CardinalityType
<1>2. f = CHOOSE g \in [1..n -> S] : IsInjective(g)
  BY DEF SetToSeq
<1> HIDE DEF n
<1>3. \E g \in [1..n -> S] : IsInjective(g)
  BY <1>1 DEF ExistsBijection, Bijection, Injection, Surjection, IsInjective
<1> HIDE DEF f
<1>4. f \in [1..n -> S] /\ IsInjective(f)
  BY <1>2, <1>3
<1>5. f \in Injection(1..n, S)
  BY <1>4 DEF Injection, IsInjective
<1>6. IsFiniteSet(1..n) /\ Cardinality(1..n) = n
  BY <1>1, FS_Interval
<1>7. f \in Surjection(1..n, S)
  BY <1>1, <1>5, <1>6, FS_Injection DEF n
<1>8. \A x \in S : \E i \in 1..n : f[i] = x
  BY <1>7 DEF Surjection
<1>9. \A i, j \in 1..n : f[i] = f[j] => i = j
  BY <1>4 DEF IsInjective
<1>10. f \in Seq(S) /\ DOMAIN f = 1..n
  BY <1>1, <1>4
<1> QED BY <1>8, <1>9, <1>10 DEF f

LEMMA ImageFinite ==
    ASSUME NEW U, IsFiniteSet(U), NEW f, DOMAIN f = U
    PROVE  IsFiniteSet({f[x] : x \in U})
<1> DEFINE R == {f[x] : x \in U}
           g == [x \in U |-> f[x]]
<1>1. g \in Surjection(U, R)
  BY DEF Surjection
<1> HIDE DEF g, R
<1>2. IsFiniteSet(R)
  BY <1>1, FS_Surjection
<1> QED BY <1>2 DEF R

LEMMA StructsFinite ==
    ASSUME IInv, phase = "types", at > Len(decls)
    PROVE  IsFiniteSet({TypedefLine(s) : s \in DOMAIN structs})
<1>1. Len(decls) \in Nat /\ at = Len(decls) + 1
  BY DeclTyped DEF IInv, Walk
<1>2. TypesRead = Len(decls)
  BY <1>1 DEF TypesRead
<1> DEFINE U == {j \in 1..Len(decls) : decls[j].kind \in {"struct"}}
           f == [j \in U |-> decls[j].name]
           g == [s \in DOMAIN structs |-> TypedefLine(s)]
<1>3. IsFiniteSet(U)
  <2>1. 1 \in Int /\ Len(decls) \in Int
    BY <1>1
  <2>2. IsFiniteSet(1..Len(decls))
    BY <2>1, FS_Interval
  <2>3. U \in SUBSET (1..Len(decls))
    OBVIOUS
  <2> QED BY <2>2, <2>3, FS_Subset
<1>4. DOMAIN structs = {f[j] : j \in U}
  BY <1>2 DEF IInv, TypesPass, NamedIn
<1>5. DOMAIN f = U
  OBVIOUS
<1> HIDE DEF f, U
<1>6. IsFiniteSet(DOMAIN structs)
  BY <1>3, <1>4, <1>5, ImageFinite
<1>7. DOMAIN g = DOMAIN structs /\ {TypedefLine(s) : s \in DOMAIN structs} = {g[s] : s \in DOMAIN structs}
  OBVIOUS
<1> HIDE DEF g
<1> QED BY <1>6, <1>7, ImageFinite

LEMMA TypedefTyped ==
    ASSUME Typed, NEW s \in DOMAIN structs, s \in STRING
    PROVE  /\ TypedefLine(s) \in TextLines /\ GoodOperands(TypedefLine(s))
           /\ TypedefLine(s).op = "type" /\ TypedefLine(s).name = s
<1> DEFINE fs == structs[s]
           S  == [name : Words, ty : KnownTypes]
           w  == [i \in DOMAIN fs |-> fs[i].ty]
<1>1. fs \in Seq(S)
  BY DEF Typed, FieldSeqs
<1>2. w = FieldTypes(structs[s])
  BY DEF FieldTypes
<1> HIDE DEF fs
<1>3. DOMAIN fs = 1..Len(fs) /\ Len(fs) \in Nat
  BY <1>1
<1>4. \A i \in DOMAIN fs : fs[i].ty \in KnownTypes
  <2> HIDE DEF S
  <2>1. \A i \in DOMAIN fs : fs[i] \in S
    BY <1>1
  <2> QED BY <2>1 DEF S
<1>5. w \in Seq(KnownTypes)
  BY <1>3, <1>4
<1> DEFINE r == [op |-> "type", name |-> s, ret |-> Void, wrote |-> w, has |-> w, val |-> Void]
<1> HIDE DEF w
<1>6. TypedefLine(s) = r
  BY <1>2 DEF TypedefLine, TextLine
<1>7. r \in TextLines
  <2>1. "type" \in Ops /\ s \in Words /\ Void \in KnownTypes
    BY OwnTypes DEF Ops, Words
  <2> QED BY <1>5, <2>1, LineMade
<1>8. GoodOperands(r) /\ r.op = "type" /\ r.name = s
  BY DEF GoodOperands
<1> HIDE DEF r
<1> QED BY <1>6, <1>7, <1>8

LEMMA TypesCollectedKeeps ==
    ASSUME IInv, TypesCollected
    PROVE  IInv'
<1> DEFINE L == {TypedefLine(s) : s \in DOMAIN structs}
<1>1. /\ phase = "types" /\ at > Len(decls) /\ text' = SetToSeq(L) /\ phase' = "signatures" /\ at' = 1
      /\ UNCHANGED <<decls, aliases, structs, fns, declared, env, it, last, nforms, asked>>
  BY DEF TypesCollected, tables, function
<1>2. Len(decls) \in Nat /\ at = Len(decls) + 1
  BY <1>1, DeclTyped DEF IInv, Walk
<1>3. TypesRead' = TypesRead /\ SignaturesRead = 0 /\ SignaturesRead' = 0 /\ Opened' = 0
  BY <1>1, <1>2 DEF TypesRead, SignaturesRead, Opened
<1>4. Walk'
  BY <1>1, <1>2 DEF Walk, IInv, function
<1>5. Typed'
  BY <1>1, SameTypes DEF Typed, IInv
<1>6. TypesPass' /\ SignaturesPass'
  BY <1>1, <1>3, SamePasses DEF IInv, tables
<1>7. \A s \in DOMAIN structs : /\ TypedefLine(s) \in TextLines /\ GoodOperands(TypedefLine(s))
                                /\ TypedefLine(s).op = "type" /\ TypedefLine(s).name = s
  <2>1. TypesRead = Len(decls)
    BY <1>1, <1>2 DEF TypesRead
  <2>2. \A i \in 1..Len(decls) : decls[i].name \in STRING
    <3>1. \A i \in DOMAIN decls : decls[i] \in Decls
      BY DeclTyped DEF IInv
    <3>2. DOMAIN decls = 1..Len(decls)
      BY DeclTyped DEF IInv
    <3> QED BY <3>1, <3>2 DEF Decls
  <2>3. DOMAIN structs \subseteq STRING
    BY <2>1, <2>2 DEF IInv, TypesPass, NamedIn
  <2> QED BY <2>3, TypedefTyped DEF IInv
<1>8. IsFiniteSet(L)
  BY <1>1, StructsFinite
<1>9. /\ L \subseteq TextLines /\ \A x \in L : GoodOperands(x) /\ x.op = "type" /\ x.name \in DOMAIN structs
      /\ \A x, y \in L : x.name = y.name => x = y
      /\ \A s \in DOMAIN structs : \E x \in L : x.name = s
  BY <1>7
<1> HIDE DEF L
<1>10. /\ text' \in Seq(L) /\ \A i, j \in DOMAIN text' : text'[i] = text'[j] => i = j
       /\ \A x \in L : \E i \in DOMAIN text' : text'[i] = x
  BY <1>1, <1>8, Listed
<1>11. \A i \in DOMAIN text' : text'[i] \in L
  BY <1>10
<1>12. text' \in Seq(TextLines)
  BY <1>9, <1>10
<1>13. Lines({"type"})' = DOMAIN text' /\ \A o : o # "type" => Lines({o})' = {}
  BY <1>9, <1>11 DEF Lines
<1>14. TextGood'
  <2>1. \A i \in DOMAIN text' : GoodLine(text[i])'
    BY <1>9, <1>11 DEF GoodLine, GoodOperands
  <2>2. \A i \in DOMAIN text' : text'[i].op = "type"
    BY <1>9, <1>11
  <2> QED BY <1>1, <1>12, <2>1, <2>2, SameTypes DEF TextGood
<1>15. TypeLines'
  <2>1. \A i, j \in DOMAIN text' : text'[i].name = text'[j].name => i = j
    BY <1>9, <1>10, <1>11
  <2>2. \A s \in DOMAIN structs : \E j \in DOMAIN text' : text'[j].name = s
    BY <1>9, <1>10
  <2>3. \A j \in DOMAIN text' : text'[j].name \in DOMAIN structs
    BY <1>9, <1>11
  <2> QED BY <1>1, <1>13, <2>1, <2>2, <2>3 DEF TypeLines
<1>16. DefineLines'
  <2>1. Lines({"define"})' = {} /\ Opened' = 0
    BY <1>3, <1>13
  <2> QED BY <2>1 DEF DefineLines
<1>17. declared' = {} /\ asked' = <<>>
  BY <1>1 DEF IInv, Walk
<1>18. DeclareLines' /\ CcallsDeclared'
  <2>1. Lines({"declare"})' = {} /\ Lines({"ccall"})' = {}
    BY <1>13
  <2> QED BY <1>1, <1>17, <2>1 DEF DeclareLines, CcallsDeclared
<1>19. AssignmentsCounted' /\ (asked \in Seq([base : KnownTypes, field : Words]))'
  <2>1. DOMAIN asked' = {} /\ \A S : <<>> \in Seq(S)
    BY <1>17
  <2>2. {i \in DOMAIN asked' : FieldDeclared(asked[i])'} = {}
    BY <2>1
  <2>3. Lines({"set-field"})' = {}
    BY <1>13
  <2> QED BY <1>17, <2>1, <2>2, <2>3 DEF AssignmentsCounted
<1> QED BY <1>4, <1>5, <1>6, <1>14, <1>15, <1>16, <1>18, <1>19 DEF IInv

-----------------------------------------------------------------------------
(* What is built in.                                                       *)

LEMMA BuiltInTyped ==
    BuiltIn \in [DOMAIN BuiltIn -> Sigs]
<1> DEFINE p == I8Ptr
           a == ArenaPtr
           i == I32
<1>1. i \in KnownTypes /\ p \in KnownTypes /\ a \in KnownTypes
  BY OwnTypes
<1> HIDE DEF p, a, i
<1>2. /\ <<i>> \in Seq(KnownTypes) /\ <<a, i>> \in Seq(KnownTypes) /\ <<p, p>> \in Seq(KnownTypes)
      /\ <<p, p, i, i>> \in Seq(KnownTypes) /\ <<p, p, p>> \in Seq(KnownTypes) /\ <<p, p, i>> \in Seq(KnownTypes)
  BY <1>1
<1>3. \A t \in KnownTypes, ts \in Seq(KnownTypes) : Sig(t, ts) \in Sigs
  BY DEF Sig, Sigs
<1>4. /\ Sig(a, <<i>>) \in Sigs /\ Sig(i, <<a, i>>) \in Sigs /\ Sig(i, <<p, p>>) \in Sigs
      /\ Sig(i, <<p, p, i, i>>) \in Sigs /\ Sig(i, <<p, p, p>>) \in Sigs /\ Sig(i, <<p, p, i>>) \in Sigs
  BY <1>1, <1>2, <1>3
<1> DEFINE s1 == Sig(a, <<i>>)
           s2 == Sig(i, <<a, i>>)
           s3 == Sig(i, <<p, p>>)
           s4 == Sig(i, <<p, p, i, i>>)
           s5 == Sig(i, <<p, p, p>>)
           s6 == Sig(i, <<p, p, i>>)
           names == {"arena-create", "arena-kind", "llvm-jit-compile", "llvm-jit-call", "llvm-link-objects"} \cup Compilers
<1>5. BuiltIn = [n \in names |-> CASE n = "arena-create" -> s1 [] n = "arena-kind" -> s2
                                   [] n = "llvm-jit-compile" -> s3 [] n = "llvm-jit-call" -> s4
                                   [] n = "llvm-link-objects" -> s5 [] n \in Compilers -> s6]
  BY DEF BuiltIn, p, a, i
<1>6. s1 \in Sigs /\ s2 \in Sigs /\ s3 \in Sigs /\ s4 \in Sigs /\ s5 \in Sigs /\ s6 \in Sigs
  BY <1>4
<1> HIDE DEF s1, s2, s3, s4, s5, s6
<1>7. DOMAIN BuiltIn = names
  BY <1>5
<1>8. \A n \in names : BuiltIn[n] \in Sigs
  BY <1>5, <1>6 DEF Compilers
<1> QED BY <1>5, <1>7, <1>8

LEMMA PresetTyped ==
    /\ Preset \in [DOMAIN Preset -> Sigs]
    /\ DOMAIN Preset \subseteq Words /\ IsFiniteSet(DOMAIN Preset)
<1> DEFINE p == I8Ptr
           i == I32
<1>1. i \in KnownTypes /\ p \in KnownTypes
  BY OwnTypes
<1> HIDE DEF p, i
<1>2. /\ <<i>> \in Seq(KnownTypes) /\ <<p, p>> \in Seq(KnownTypes)
      /\ <<p, p, i, i>> \in Seq(KnownTypes) /\ <<p, p, p>> \in Seq(KnownTypes) /\ <<p, p, i>> \in Seq(KnownTypes)
  BY <1>1
<1>3. \A t \in KnownTypes, ts \in Seq(KnownTypes) : Sig(t, ts) \in Sigs
  BY DEF Sig, Sigs
<1>4. /\ Sig(p, <<i>>) \in Sigs /\ Sig(i, <<p, p>>) \in Sigs
      /\ Sig(i, <<p, p, i, i>>) \in Sigs /\ Sig(i, <<p, p, p>>) \in Sigs /\ Sig(i, <<p, p, i>>) \in Sigs
  BY <1>1, <1>2, <1>3
<1> DEFINE s1 == Sig(p, <<i>>)
           s3 == Sig(i, <<p, p>>)
           s4 == Sig(i, <<p, p, i, i>>)
           s5 == Sig(i, <<p, p, p>>)
           s6 == Sig(i, <<p, p, i>>)
<1>5. Preset = [malloc |-> s1, llvm_jit_compile_and_get_ptr |-> s3, llvm_jit_call_i32_i32_i32 |-> s4,
                llvm_compile_ir_to_assembly |-> s6, llvm_compile_ir_to_object |-> s6, llvm_link_objects |-> s5]
  BY DEF Preset, p, i
<1>6. s1 \in Sigs /\ s3 \in Sigs /\ s4 \in Sigs /\ s5 \in Sigs /\ s6 \in Sigs
  BY <1>4
<1> HIDE DEF s1, s3, s4, s5, s6
<1>7. Preset \in [DOMAIN Preset -> Sigs]
  BY <1>5, <1>6
<1>8. IsFiniteSet(DOMAIN Preset)
  <2> DEFINE f == [k \in 1..6 |-> CASE k = 1 -> "malloc" [] k = 2 -> "llvm_jit_compile_and_get_ptr"
                                    [] k = 3 -> "llvm_jit_call_i32_i32_i32" [] k = 4 -> "llvm_compile_ir_to_assembly"
                                    [] k = 5 -> "llvm_compile_ir_to_object" [] k = 6 -> "llvm_link_objects"]
  <2>1. DOMAIN Preset = {"malloc", "llvm_jit_compile_and_get_ptr", "llvm_jit_call_i32_i32_i32",
                         "llvm_compile_ir_to_assembly", "llvm_compile_ir_to_object", "llvm_link_objects"}
    BY <1>5
  <2>2. f[1] = "malloc" /\ f[2] = "llvm_jit_compile_and_get_ptr" /\ f[3] = "llvm_jit_call_i32_i32_i32"
        /\ f[4] = "llvm_compile_ir_to_assembly" /\ f[5] = "llvm_compile_ir_to_object" /\ f[6] = "llvm_link_objects"
    OBVIOUS
  <2>3. DOMAIN f = 1..6 /\ 1..6 = {1, 2, 3, 4, 5, 6}
    OBVIOUS
  <2> HIDE DEF f
  <2>4. {f[k] : k \in 1..6} = DOMAIN Preset
    BY <2>1, <2>2, <2>3
  <2>5. IsFiniteSet(1..6)
    <3>1. 1 \in Int /\ 6 \in Int
      OBVIOUS
    <3> QED BY <3>1, FS_Interval
  <2> QED BY <2>3, <2>4, <2>5, ImageFinite
<1> QED BY <1>7, <1>8 DEF Words

LEMMA DeclaresTyped ==
    ASSUME NEW n \in DOMAIN Preset
    PROVE  /\ DeclareLine(n, Preset[n]) \in TextLines /\ GoodOperands(DeclareLine(n, Preset[n]))
           /\ DeclareLine(n, Preset[n]).op = "declare" /\ DeclareLine(n, Preset[n]).name = n
<1> DEFINE sig == Preset[n]
           r == [op |-> "declare", name |-> n, ret |-> sig.ret, wrote |-> sig.params, has |-> sig.params, val |-> sig.ret]
<1>1. sig \in Sigs /\ n \in Words
  BY PresetTyped
<1> HIDE DEF sig
<1>2. sig.ret \in KnownTypes /\ sig.params \in Seq(KnownTypes) /\ "declare" \in Ops
  BY <1>1 DEF Sigs, Ops
<1>3. r \in TextLines
  BY <1>1, <1>2, LineMade
<1>4. DeclareLine(n, sig) = r
  BY DEF DeclareLine, TextLine
<1>5. GoodOperands(r) /\ r.op = "declare" /\ r.name = n
  BY DEF GoodOperands
<1> HIDE DEF r
<1> QED BY <1>3, <1>4, <1>5 DEF sig

LEMMA ArenaTypedefTyped ==
    /\ Len(ArenaTypedef) \in {0, 1} /\ ArenaTypedef \in Seq(TextLines)
    /\ DOMAIN ArenaTypedef = IF "Arena" \in DOMAIN structs THEN {} ELSE {1}
    /\ \A i \in DOMAIN ArenaTypedef :
          GoodOperands(ArenaTypedef[i]) /\ ArenaTypedef[i].op = "type" /\ ArenaTypedef[i].name = "Arena"
<1> DEFINE w == FieldTypes(ArenaFields)
           r == [op |-> "type", name |-> "Arena", ret |-> Void, wrote |-> w, has |-> w, val |-> Void]
<1>1. w = [i \in 1..4 |-> I8Ptr]
  BY DEF FieldTypes, ArenaFields
<1>2. w \in Seq(KnownTypes)
  BY <1>1, OwnTypes
<1> HIDE DEF w
<1>3. r \in TextLines
  <2>1. "type" \in Ops /\ "Arena" \in Words /\ Void \in KnownTypes
    BY OwnTypes DEF Ops, Words
  <2> QED BY <1>2, <2>1, LineMade
<1>4. GoodOperands(r) /\ r.op = "type" /\ r.name = "Arena"
  BY DEF GoodOperands
<1>5. ArenaTypedef = IF "Arena" \in DOMAIN structs THEN <<>> ELSE <<r>>
  BY DEF ArenaTypedef, ArenaTypedef_Bug, TextLine, w
<1> HIDE DEF r
<1>6. /\ <<r>> \in Seq(TextLines) /\ Len(<<r>>) = 1 /\ DOMAIN <<r>> = {1} /\ <<r>>[1] = r
      /\ <<>> \in Seq(TextLines) /\ Len(<<>>) = 0 /\ DOMAIN <<>> = {}
  BY <1>3
<1> QED BY <1>4, <1>5, <1>6

LEMMA FunctionSeq ==
    ASSUME NEW S, NEW n \in Nat, NEW t \in [1..n -> S]
    PROVE  t \in Seq(S) /\ Len(t) = n
  OBVIOUS

LEMMA ArenaLinesTyped ==
    ASSUME Typed
    PROVE  /\ ArenaLines \in Seq(TextLines) /\ DOMAIN ArenaLines = 1..5
           /\ \A i \in 1..5 : /\ GoodOperands(ArenaLines[i])
                              /\ ArenaLines[i].op = IF i = 1 THEN "define" ELSE "store"
           /\ ArenaLines[1].name = "arena-create"
<1> DEFINE h == TextLine("define", "arena-create", ArenaPtr, <<I32>>)
           g(i) == <<I8Ptr, Ptr(FieldAt(T("Arena", 0), i))>>
           w == <<I8Ptr, Ptr(I8Ptr)>>
           t == [i \in 1..4 |-> Uses("store", I8Ptr, w, g(i))]
<1>1. \A i \in 1..4 : g(i) \in Seq(KnownTypes) /\ w \in Seq(KnownTypes) /\ DOMAIN w = 1..2 /\ g(i)[1] = w[1]
  <2>1. ASSUME NEW i PROVE Ptr(FieldAt(T("Arena", 0), i)) \in KnownTypes
    BY FieldsKnown, PointersKnown DEF Typed
  <2>2. I8Ptr \in KnownTypes /\ Ptr(I8Ptr) \in KnownTypes
    BY OwnTypes, PointersKnown
  <2> QED BY <2>1, <2>2
<1>2. h \in TextLines /\ GoodOperands(h) /\ h.op = "define" /\ h.name = "arena-create"
  <2> DEFINE r == [op |-> "define", name |-> "arena-create", ret |-> ArenaPtr, wrote |-> <<I32>>, has |-> <<I32>>, val |-> ArenaPtr]
  <2>1. "define" \in Ops /\ "arena-create" \in Words /\ ArenaPtr \in KnownTypes /\ <<I32>> \in Seq(KnownTypes)
    BY OwnTypes DEF Ops, Words
  <2>2. r \in TextLines
    BY <2>1, LineMade
  <2>3. GoodOperands(r) /\ r.op = "define" /\ r.name = "arena-create"
    BY DEF GoodOperands
  <2>4. h = r
    BY DEF TextLine
  <2> HIDE DEF r, h
  <2> QED BY <2>2, <2>3, <2>4
<1> HIDE DEF h, g, w
<1>3. ASSUME NEW i \in 1..4
      PROVE  Uses("store", I8Ptr, w, g(i)) \in TextLines /\ GoodOperands(Uses("store", I8Ptr, w, g(i)))
             /\ Uses("store", I8Ptr, w, g(i)).op = "store"
  <2> DEFINE x == g(i)
             r == [op |-> "store", name |-> "", ret |-> I8Ptr, wrote |-> w, has |-> x, val |-> I8Ptr]
  <2>1. "store" \in Ops /\ "" \in Words /\ I8Ptr \in KnownTypes /\ x \in Seq(KnownTypes) /\ w \in Seq(KnownTypes)
    BY <1>1, OwnTypes DEF Ops, Words
  <2>2. DOMAIN w = 1..2 /\ x[1] = w[1]
    BY <1>1
  <2> HIDE DEF x
  <2>3. Uses("store", I8Ptr, w, x) = r
    BY <2>1, UsesMade
  <2>4. r \in TextLines
    BY <2>1, LineMade
  <2>5. GoodOperands(r) /\ r.op = "store"
    <3>1. <<"store", 2>> \in Unchecked
      BY DEF Unchecked
    <3> QED BY <2>2, <3>1 DEF GoodOperands
  <2> HIDE DEF r
  <2> QED BY <2>3, <2>4, <2>5 DEF x
<1>4. t \in Seq(TextLines) /\ Len(t) = 4 /\ \A i \in 1..4 : t[i] = Uses("store", I8Ptr, w, g(i))
  <2>1. t \in [1..4 -> TextLines]
    BY <1>3
  <2> HIDE DEF t
  <2>2. t \in Seq(TextLines) /\ Len(t) = 4
    <3> DEFINE S == TextLines
    <3>1. 4 \in Nat /\ t \in [1..4 -> S]
      BY <2>1
    <3> HIDE DEF S
    <3>2. t \in Seq(S) /\ Len(t) = 4
      BY <3>1, FunctionSeq
    <3> QED BY <3>2 DEF S
  <2> QED BY <2>2 DEF t
<1>5. ArenaLines = <<h>> \o t
  BY DEF ArenaLines, h, t, w, g
<1>6. \A i \in 1..4 : GoodOperands(t[i]) /\ t[i].op = "store"
  BY <1>3, <1>4
<1> HIDE DEF t
<1>7. <<h>> \in Seq(TextLines) /\ Len(<<h>>) = 1 /\ <<h>>[1] = h
  BY <1>2
<1>8. /\ ArenaLines \in Seq(TextLines) /\ DOMAIN ArenaLines = 1..5 /\ ArenaLines[1] = h
      /\ \A i \in 1..4 : ArenaLines[1 + i] = t[i]
  <2> DEFINE u == <<h>>
  <2>1. u \in Seq(TextLines) /\ Len(u) = 1 /\ u[1] = h /\ ArenaLines = u \o t
    BY <1>5, <1>7
  <2> HIDE DEF u
  <2>2. /\ u \o t \in Seq(TextLines) /\ DOMAIN u = 1..Len(u) /\ DOMAIN t = 1..Len(t) /\ DOMAIN (u \o t) = 1..Len(u) + Len(t)
        /\ \A i \in DOMAIN u : (u \o t)[i] = u[i]
        /\ \A i \in DOMAIN t : (u \o t)[Len(u) + i] = t[i]
    <3>1. u \in Seq(TextLines) /\ t \in Seq(TextLines)
      BY <1>4, <2>1
    <3> QED BY <3>1, Joined
  <2>3. 1 \in DOMAIN u /\ Len(u) + Len(t) = 5 /\ DOMAIN t = 1..4
    BY <1>4, <2>1, <2>2
  <2> QED BY <2>1, <2>2, <2>3
<1>9. \A i \in 1..5 : i = 1 \/ \E j \in 1..4 : i = 1 + j
  OBVIOUS
<1>10. ASSUME NEW i \in 1..5
       PROVE  GoodOperands(ArenaLines[i]) /\ ArenaLines[i].op = IF i = 1 THEN "define" ELSE "store"
  <2>1. CASE i = 1
    BY <1>2, <1>8, <2>1
  <2>2. CASE i # 1
    <3>1. PICK j \in 1..4 : i = 1 + j
      BY <1>9, <2>2
    <3>2. ArenaLines[i] = t[j]
      BY <1>8, <3>1
    <3> QED BY <1>6, <2>2, <3>2
  <2> QED BY <2>1, <2>2
<1> QED BY <1>2, <1>8, <1>10

\* Line i of x is a line of t, which stands in x after the first n.
From(i, t, n, x) == \E j \in DOMAIN t : i = n + j /\ x[i] = t[j]
Part(t, n, x) == \A j \in DOMAIN t : n + j \in DOMAIN x /\ x[n + j] = t[j]

LEMMA JoinedFrom ==
    ASSUME NEW S, NEW s \in Seq(S), NEW t \in Seq(S)
    PROVE  /\ s \o t \in Seq(S) /\ Len(s) \in Nat
           /\ \A i \in DOMAIN (s \o t) : (i \in DOMAIN s /\ (s \o t)[i] = s[i]) \/ From(i, t, Len(s), s \o t)
           /\ Part(t, Len(s), s \o t)
           /\ \A i \in DOMAIN s : i \in DOMAIN (s \o t) /\ (s \o t)[i] = s[i]
<1>1. /\ Len(s) \in Nat /\ Len(t) \in Nat /\ DOMAIN s = 1..Len(s) /\ DOMAIN t = 1..Len(t)
      /\ s \o t \in Seq(S) /\ DOMAIN (s \o t) = 1..Len(s) + Len(t)
      /\ \A k \in DOMAIN s : (s \o t)[k] = s[k]
      /\ \A k \in DOMAIN t : (s \o t)[Len(s) + k] = t[k]
  BY Joined
<1> DEFINE x == s \o t
           n == Len(s)
           m == Len(t)
<1>2. /\ n \in Nat /\ m \in Nat /\ DOMAIN s = 1..n /\ DOMAIN t = 1..m /\ DOMAIN x = 1..n + m
      /\ \A k \in DOMAIN s : x[k] = s[k]
      /\ \A k \in DOMAIN t : x[n + k] = t[k]
  BY <1>1
<1> HIDE DEF x, n, m
<1>3. ASSUME NEW i \in 1..n + m PROVE i \in 1..n \/ \E j \in 1..m : i = n + j
  <2>1. CASE i <= n
    BY <1>2, <2>1
  <2>2. CASE i > n
    <3>1. i - n \in 1..m /\ i = n + (i - n)
      BY <1>2, <2>2
    <3> QED BY <3>1
  <2> QED BY <1>2, <2>1, <2>2
<1>4. ASSUME NEW i \in DOMAIN x PROVE (i \in DOMAIN s /\ x[i] = s[i]) \/ From(i, t, n, x)
  <2>1. CASE i \in 1..n
    BY <1>2, <2>1
  <2>2. CASE \E j \in 1..m : i = n + j
    BY <1>2, <2>2 DEF From
  <2> QED BY <1>2, <1>3, <2>1, <2>2
<1>5. Part(t, n, x)
  <2>1. \A j \in 1..m : n + j \in 1..n + m
    BY <1>2
  <2> QED BY <1>2, <2>1 DEF Part
<1>6. \A i \in DOMAIN s : i \in DOMAIN x /\ x[i] = s[i]
  BY <1>2
<1> QED BY <1>1, <1>2, <1>4, <1>5, <1>6 DEF x, n

LEMMA FromJoined ==
    ASSUME NEW S, NEW s \in Seq(S), NEW t \in Seq(S), NEW u, NEW n,
           \A i \in DOMAIN s : i \in DOMAIN (s \o t) /\ (s \o t)[i] = s[i]
    PROVE  /\ (Part(u, n, s) => Part(u, n, s \o t))
           /\ \A i \in DOMAIN s : From(i, u, n, s) => From(i, u, n, s \o t)
<1> DEFINE x == s \o t
<1>1. \A i \in DOMAIN s : i \in DOMAIN x /\ x[i] = s[i]
  OBVIOUS
<1> HIDE DEF x
<1>2. Part(u, n, s) => Part(u, n, x)
  BY <1>1 DEF Part
<1>3. \A i \in DOMAIN s : From(i, u, n, s) => From(i, u, n, x)
  BY <1>1 DEF From
<1> QED BY <1>2, <1>3 DEF x

\* Where each line of x comes from, four texts written one after the other.
PartsOf(x, s, a, d, b) ==
    \E n2, n3, n4 \in Nat :
        /\ \A i \in DOMAIN x :
              (i \in DOMAIN s /\ x[i] = s[i]) \/ From(i, a, n2, x) \/ From(i, d, n3, x) \/ From(i, b, n4, x)
        /\ \A i \in DOMAIN s : i \in DOMAIN x /\ x[i] = s[i]
        /\ Part(a, n2, x) /\ Part(d, n3, x) /\ Part(b, n4, x)

LEMMA FourParts ==
    ASSUME NEW S, NEW s \in Seq(S), NEW a \in Seq(S), NEW d \in Seq(S), NEW b \in Seq(S),
           NEW x, x = s \o a \o d \o b
    PROVE  x \in Seq(S) /\ PartsOf(x, s, a, d, b)
<1> DEFINE u == s \o a
           w == u \o d
           n2 == Len(s)
           n3 == Len(u)
           n4 == Len(w)
<1>1. /\ u \in Seq(S) /\ n2 \in Nat
      /\ \A i \in DOMAIN u : (i \in DOMAIN s /\ u[i] = s[i]) \/ From(i, a, n2, u)
      /\ Part(a, n2, u)
      /\ \A i \in DOMAIN s : i \in DOMAIN u /\ u[i] = s[i]
  BY JoinedFrom
<1> HIDE DEF u
<1>2. /\ w \in Seq(S) /\ n3 \in Nat
      /\ \A i \in DOMAIN w : (i \in DOMAIN u /\ w[i] = u[i]) \/ From(i, d, n3, w)
      /\ Part(d, n3, w)
      /\ \A i \in DOMAIN u : i \in DOMAIN w /\ w[i] = u[i]
  BY <1>1, JoinedFrom
<1>3. /\ Part(a, n2, w)
      /\ \A i \in DOMAIN u : From(i, a, n2, u) => From(i, a, n2, w)
  BY <1>1, <1>2, FromJoined
<1>4. x = w \o b
  BY DEF u
<1> HIDE DEF w
<1>5. /\ x \in Seq(S) /\ n4 \in Nat
      /\ \A i \in DOMAIN x : (i \in DOMAIN w /\ x[i] = w[i]) \/ From(i, b, n4, x)
      /\ Part(b, n4, x)
      /\ \A i \in DOMAIN w : i \in DOMAIN x /\ x[i] = w[i]
  BY <1>2, <1>4, JoinedFrom
<1>6. /\ Part(a, n2, x) /\ Part(d, n3, x)
      /\ \A i \in DOMAIN w : From(i, a, n2, w) => From(i, a, n2, x)
      /\ \A i \in DOMAIN w : From(i, d, n3, w) => From(i, d, n3, x)
  BY <1>2, <1>3, <1>4, <1>5, FromJoined
<1> HIDE DEF n2, n3, n4
<1>7. ASSUME NEW i \in DOMAIN x
      PROVE  (i \in DOMAIN s /\ x[i] = s[i]) \/ From(i, a, n2, x) \/ From(i, d, n3, x) \/ From(i, b, n4, x)
  <2>1. CASE From(i, b, n4, x)
    BY <2>1
  <2>2. CASE i \in DOMAIN w /\ x[i] = w[i]
    BY <1>1, <1>2, <1>3, <1>6, <2>2
  <2> QED BY <1>5, <2>1, <2>2
<1>8. \A i \in DOMAIN s : i \in DOMAIN x /\ x[i] = s[i]
  BY <1>1, <1>2, <1>5
<1>9. PartsOf(x, s, a, d, b)
  BY <1>1, <1>2, <1>5, <1>6, <1>7, <1>8 DEF PartsOf
<1> QED BY <1>5, <1>9

LEMMA RegisterBuiltInsKeeps ==
    ASSUME IInv, RegisterBuiltIns
    PROVE  IInv'
<1> DEFINE D == {DeclareLine(n, Preset[n]) : n \in DOMAIN Preset}
           A == ArenaTypedef
           B == ArenaLines
           E == SetToSeq(D)
<1>1. /\ phase = "signatures" /\ at > Len(decls) /\ fns' = Over(BuiltIn, fns)
      /\ text' = text \o A \o E \o B
      /\ declared' = DOMAIN Preset /\ phase' = "functions" /\ at' = 1
      /\ UNCHANGED <<decls, aliases, structs, env, it, last, nforms, asked>>
  BY DEF RegisterBuiltIns, function
<1>2. Len(decls) \in Nat /\ at = Len(decls) + 1
  BY <1>1, DeclTyped DEF IInv, Walk
<1>3. TypesRead' = TypesRead /\ SignaturesRead = Len(decls) /\ SignaturesRead' = Len(decls) /\ Opened' = 0
  BY <1>1, <1>2 DEF TypesRead, SignaturesRead, Opened
<1>4. Walk'
  BY <1>1, <1>2 DEF Walk, IInv, function
<1>5. fns' = [n \in DOMAIN BuiltIn \cup DOMAIN fns |-> IF n \in DOMAIN BuiltIn THEN BuiltIn[n] ELSE fns[n]]
  BY <1>1 DEF Over
<1>6. Typed'
  <2>1. fns' \in [DOMAIN fns' -> Sigs]
    <3>1. /\ \A n \in DOMAIN BuiltIn : BuiltIn[n] \in Sigs
          /\ \A n \in DOMAIN fns : fns[n] \in Sigs
      BY BuiltInTyped DEF IInv, Typed
    <3> DEFINE b == BuiltIn
    <3>2. fns' = [n \in DOMAIN b \cup DOMAIN fns |-> IF n \in DOMAIN b THEN b[n] ELSE fns[n]]
      BY <1>5
    <3>3. \A n \in DOMAIN b : b[n] \in Sigs
      BY <3>1
    <3> HIDE DEF b
    <3> QED BY <3>1, <3>2, <3>3
  <2> QED BY <1>1, <2>1, SameTypes DEF Typed, IInv
<1>7. TypesPass'
  <2>1. \A s, i : StructFrom(s, i)' <=> StructFrom(s, i)
    BY <1>1, <1>3 DEF StructFrom
  <2> QED BY <1>1, <1>3, <2>1 DEF TypesPass, NamedIn, IInv
<1>8. SignaturesPass'
  <2>1. \A x : Signature(x)' = Signature(x)
    BY <1>1 DEF Signature, SignatureParams, ParamType
  <2>2. \A n : DeclaredFns(n)' = DeclaredFns(n)
    BY <1>1, SameTypes
  <2>3. \A k, n : NamedIn(k, n)' = NamedIn(k, n)
    BY <1>1 DEF NamedIn
  <2>4. /\ DOMAIN fns' = DOMAIN BuiltIn \cup DOMAIN fns
        /\ \A n \in DOMAIN fns : n \notin DOMAIN BuiltIn => fns'[n] = fns[n]
    BY <1>5
  <2>5. (DOMAIN fns \subseteq DOMAIN BuiltIn \cup NamedIn({"fn", "entry"}, Len(decls)))'
    BY <1>1, <2>3, <2>4 DEF SignaturesPass, IInv
  <2>6. \A p \in 1..Len(decls) :
          decls[p].kind \in {"fn", "entry"} /\ DeclaredFns(decls[p].name) = {p} /\ decls[p].name \notin DOMAIN BuiltIn =>
             decls[p].name \in DOMAIN fns' /\ fns'[decls[p].name] = Signature(decls[p])
    BY <1>3, <2>4 DEF SignaturesPass, IInv
  <2> QED BY <1>1, <1>3, <2>1, <2>2, <2>5, <2>6 DEF SignaturesPass
<1>9. /\ text \in Seq(TextLines) /\ \A i \in DOMAIN text : text[i].op = "type" /\ GoodOperands(text[i])
      /\ \A i, j \in DOMAIN text : text[i].name = text[j].name => i = j
      /\ \A i \in DOMAIN text : text[i].name \in DOMAIN structs
      /\ \A s \in DOMAIN structs : \E i \in DOMAIN text : text[i].name = s
  BY <1>1, OnlyTypedefs
<1>10. /\ A \in Seq(TextLines) /\ DOMAIN A = IF "Arena" \in DOMAIN structs THEN {} ELSE {1}
       /\ \A i \in DOMAIN A : GoodOperands(A[i]) /\ A[i].op = "type" /\ A[i].name = "Arena"
  BY ArenaTypedefTyped
<1>11. /\ B \in Seq(TextLines) /\ DOMAIN B = 1..5
       /\ \A i \in 1..5 : GoodOperands(B[i]) /\ B[i].op = IF i = 1 THEN "define" ELSE "store"
       /\ B[1].name = "arena-create"
  BY ArenaLinesTyped DEF IInv
<1>12. /\ E \in Seq(TextLines) /\ \A i \in DOMAIN E : GoodOperands(E[i]) /\ E[i].op = "declare" /\ E[i].name \in DOMAIN Preset
       /\ \A i, j \in DOMAIN E : E[i].name = E[j].name => i = j
       /\ \A n \in DOMAIN Preset : \E i \in DOMAIN E : E[i].name = n
  <2>1. /\ D \subseteq TextLines /\ \A x \in D : GoodOperands(x) /\ x.op = "declare" /\ x.name \in DOMAIN Preset
        /\ \A x, y \in D : x.name = y.name => x = y
        /\ \A n \in DOMAIN Preset : \E x \in D : x.name = n
    BY DeclaresTyped
  <2>2. IsFiniteSet(D)
    <3> DEFINE g == [n \in DOMAIN Preset |-> DeclareLine(n, Preset[n])]
    <3>1. DOMAIN g = DOMAIN Preset /\ D = {g[n] : n \in DOMAIN Preset}
      OBVIOUS
    <3> HIDE DEF g, D
    <3> QED BY <3>1, PresetTyped, ImageFinite
  <2> HIDE DEF D
  <2>3. /\ E \in Seq(D) /\ \A i, j \in DOMAIN E : E[i] = E[j] => i = j
        /\ \A x \in D : \E i \in DOMAIN E : E[i] = x
    BY <2>2, Listed
  <2> HIDE DEF E
  <2>4. \A i \in DOMAIN E : E[i] \in D
    BY <2>3
  <2> QED BY <2>1, <2>3, <2>4
<1> HIDE DEF A, B, E, D
<1>13. text' \in Seq(TextLines)
  BY <1>1, <1>9, <1>10, <1>11, <1>12, FourParts
<1>14. PICK n2, n3, n4 \in Nat :
          /\ \A i \in DOMAIN text' :
                (i \in DOMAIN text /\ text'[i] = text[i]) \/ From(i, A, n2, text') \/ From(i, E, n3, text') \/ From(i, B, n4, text')
          /\ \A i \in DOMAIN text : i \in DOMAIN text' /\ text'[i] = text[i]
          /\ Part(A, n2, text') /\ Part(E, n3, text') /\ Part(B, n4, text')
  <2>1. text \in Seq(TextLines) /\ A \in Seq(TextLines) /\ E \in Seq(TextLines) /\ B \in Seq(TextLines)
    BY <1>9, <1>10, <1>11, <1>12
  <2>2. text' = text \o A \o E \o B
    BY <1>1
  <2>3. PICK x : x = text'
    OBVIOUS
  <2>4. x = text \o A \o E \o B
    BY <2>2, <2>3
  <2>5. PartsOf(x, text, A, E, B)
    BY <2>1, <2>4, FourParts
  <2> QED BY <2>3, <2>5 DEF PartsOf
<1>24. ASSUME NEW i PROVE From(i, A, n2, text') =>
          i = n2 + 1 /\ GoodOperands(text'[i]) /\ text'[i].op = "type" /\ text'[i].name = "Arena" /\ "Arena" \notin DOMAIN structs
  BY <1>10 DEF From
<1>25. ASSUME NEW i PROVE From(i, E, n3, text') => GoodOperands(text'[i]) /\ text'[i].op = "declare"
  BY <1>12 DEF From
<1>26. ASSUME NEW i PROVE From(i, B, n4, text') =>
          /\ GoodOperands(text'[i]) /\ text'[i].op \in {"define", "store"}
          /\ (text'[i].op = "define" => i = n4 + 1 /\ text'[i].name = "arena-create")
  <2> SUFFICES ASSUME From(i, B, n4, text')
               PROVE  /\ GoodOperands(text'[i]) /\ text'[i].op \in {"define", "store"}
                      /\ (text'[i].op = "define" => i = n4 + 1 /\ text'[i].name = "arena-create")
    OBVIOUS
  <2>1. PICK j \in 1..5 : i = n4 + j /\ text'[i] = B[j]
    BY <1>11 DEF From
  <2>2. GoodOperands(B[j]) /\ B[j].op = IF j = 1 THEN "define" ELSE "store"
    BY <1>11
  <2>3. B[j].op = "define" => j = 1
    BY <2>2
  <2> QED BY <1>11, <2>1, <2>2, <2>3
<1>15. \A i \in DOMAIN text' :
          GoodOperands(text'[i]) /\ text'[i].op \in {"type", "define", "declare", "store"}
  BY <1>9, <1>14, <1>24, <1>25, <1>26
<1>16. /\ Lines({"call"})' = {} /\ Lines({"ccall"})' = {} /\ Lines({"set-field"})' = {}
  BY <1>15 DEF Lines
<1>17. TextGood'
  <2>1. \A i \in DOMAIN text' : GoodLine(text[i])'
    BY <1>15 DEF GoodLine, GoodOperands
  <2> QED BY <1>1, <1>13, <2>1, SameTypes DEF TextGood
<1>18. \A i \in Lines({"type"})' :
          \/ i \in DOMAIN text /\ text'[i] = text[i]
          \/ i = n2 + 1 /\ text'[i].name = "Arena" /\ "Arena" \notin DOMAIN structs
  BY <1>14, <1>24, <1>25, <1>26 DEF Lines
<1>19. TypeLines'
  <2>1. \A i, j \in Lines({"type"})' : text'[i].name = text'[j].name => i = j
    BY <1>9, <1>18
  <2>2. DOMAIN text \subseteq Lines({"type"})' /\ \A i \in DOMAIN text : text'[i] = text[i]
    BY <1>9, <1>14 DEF Lines
  <2>3. \A s \in DOMAIN structs : \E j \in Lines({"type"})' : text'[j].name = s
    BY <1>9, <2>2
  <2>4. "Arena" \notin DOMAIN structs => \E j \in Lines({"type"})' : text'[j].name = "Arena"
    BY <1>10, <1>14 DEF Lines, Part
  <2> QED BY <1>1, <2>1, <2>3, <2>4 DEF TypeLines
<1>20. DefineLines'
  <2>1. \A i \in Lines({"define"})' : i = n4 + 1 /\ text'[i].name = "arena-create"
    BY <1>9, <1>14, <1>24, <1>25, <1>26 DEF Lines
  <2> QED BY <1>3, <2>1 DEF DefineLines
<1>21. DeclareLines'
  <2>1. \A i \in Lines({"declare"})' : \E j \in DOMAIN E : i = n3 + j /\ text'[i] = E[j]
    <3>1. \A i \in Lines({"declare"})' : From(i, E, n3, text')
      BY <1>9, <1>14, <1>24, <1>26 DEF Lines
    <3> QED BY <3>1 DEF From
  <2>2. \A j \in DOMAIN E : n3 + j \in Lines({"declare"})' /\ text'[n3 + j] = E[j]
    BY <1>12, <1>14 DEF Lines, Part
  <2>3. \A i \in Lines({"declare"})' : text'[i].name \in DOMAIN Preset
    BY <1>12, <2>1
  <2>4. \A n \in DOMAIN Preset : \E i \in Lines({"declare"})' : text'[i].name = n
    BY <1>12, <2>2
  <2>5. \A d, e \in Lines({"declare"})' : text'[d].name = text'[e].name => d = e
    BY <1>12, <2>1
  <2> QED BY <1>1, <2>3, <2>4, <2>5 DEF DeclareLines
<1>22. CcallsDeclared'
  BY <1>16 DEF CcallsDeclared
<1>23. AssignmentsCounted' /\ (asked \in Seq([base : KnownTypes, field : Words]))'
  <2>0. asked = <<>> /\ asked' = <<>>
    BY <1>1 DEF IInv, Walk
  <2>1. DOMAIN asked' = {} /\ \A S : <<>> \in Seq(S)
    BY <2>0
  <2>2. {i \in DOMAIN asked' : FieldDeclared(asked[i])'} = {}
    BY <2>1
  <2> QED BY <1>16, <2>0, <2>1, <2>2 DEF AssignmentsCounted
<1> QED BY <1>4, <1>6, <1>7, <1>8, <1>17, <1>19, <1>20, <1>21, <1>22, <1>23 DEF IInv

LEMMA SkipDeclKeeps ==
    ASSUME IInv, SkipDecl
    PROVE  IInv'
<1>1. /\ phase = "functions" /\ at <= Len(decls) /\ decls[at].kind \in {"alias", "struct"} /\ at' = at + 1
      /\ UNCHANGED <<decls, phase, aliases, structs, fns, text, declared, env, it, last, nforms, asked>>
  BY DEF SkipDecl, tables, function
<1>2. at \in 1..Len(decls) /\ Len(decls) \in Nat
  BY <1>1, DeclTyped DEF IInv, Walk
<1>3. /\ TypesRead' = TypesRead /\ SignaturesRead' = SignaturesRead
      /\ Opened = at - 1 /\ Opened' = at
  BY <1>1, <1>2 DEF TypesRead, SignaturesRead, Opened
<1>4. Walk'
  BY <1>1, <1>2 DEF Walk, IInv, function
<1>5. Typed' /\ TypesPass' /\ SignaturesPass'
  <2>1. Typed'
    BY <1>1, SameTables DEF Typed, IInv, tables
  <2> QED BY <1>1, <1>3, <2>1, SamePasses DEF IInv, tables
<1>6. Opened \in Nat /\ Opened' = Opened + 1 /\ decls[Opened + 1].kind \notin {"fn", "entry"}
  <2>1. Opened + 1 = at
    BY <1>2, <1>3
  <2> QED BY <1>1, <1>2, <1>3, <2>1
<1>7. /\ TextGood' /\ TypeLines' /\ DefineLines' /\ DeclareLines' /\ CcallsDeclared'
      /\ Lines({"set-field"})' = Lines({"set-field"})
  BY <1>1, <1>6, SameText DEF tables
<1>8. AssignmentsCounted' /\ (asked \in Seq([base : KnownTypes, field : Words]))'
  BY <1>1, <1>7, SameAsked DEF tables
<1> QED BY <1>4, <1>5, <1>7, <1>8 DEF IInv

LEMMA FinishedKeeps ==
    ASSUME IInv, Finished
    PROVE  IInv'
<1>1. /\ phase = "functions" /\ at > Len(decls) /\ phase' = "done"
      /\ UNCHANGED <<decls, at, aliases, structs, fns, text, declared, env, it, last, nforms, asked>>
  BY DEF Finished, tables, function
<1>2. at \in 1..Len(decls) + 1 /\ Len(decls) \in Nat
  BY <1>1, DeclTyped DEF IInv, Walk
<1>3. TypesRead' = TypesRead /\ SignaturesRead' = SignaturesRead /\ Opened' = Opened
  BY <1>1, <1>2 DEF TypesRead, SignaturesRead, Opened
<1>4. Walk'
  BY <1>1, <1>2 DEF Walk, IInv, function
<1>5. Typed' /\ TypesPass' /\ SignaturesPass'
  <2>1. Typed'
    BY <1>1, SameTables DEF Typed, IInv, tables
  <2> QED BY <1>1, <1>3, <2>1, SamePasses DEF IInv, tables
<1>6. /\ TextGood' /\ TypeLines' /\ DefineLines' /\ DeclareLines' /\ CcallsDeclared'
      /\ Lines({"set-field"})' = Lines({"set-field"})
  BY <1>1, <1>3, SameText DEF tables
<1>7. AssignmentsCounted' /\ (asked \in Seq([base : KnownTypes, field : Words]))'
  BY <1>1, <1>6, SameAsked DEF tables
<1> QED BY <1>4, <1>5, <1>6, <1>7 DEF IInv

LEMMA StutterKeeps ==
    ASSUME IInv, UNCHANGED vars
    PROVE  IInv'
<1>1. /\ UNCHANGED <<decls, phase, at, aliases, structs, fns, text, declared, env, it, last, nforms, asked>>
  BY DEF vars
<1>2. TypesRead' = TypesRead /\ SignaturesRead' = SignaturesRead /\ Opened' = Opened
  BY <1>1 DEF TypesRead, SignaturesRead, Opened
<1>3. Walk' /\ Typed' /\ TypesPass' /\ SignaturesPass'
  <2>1. Walk'
    BY <1>1 DEF Walk, IInv, function
  <2>2. Typed'
    BY <1>1, SameTables DEF Typed, IInv, tables
  <2> QED BY <1>1, <1>2, <2>1, <2>2, SamePasses DEF IInv, tables
<1>4. \A o : Lines(o)' = Lines(o)
  BY <1>1 DEF Lines
<1>5. TextGood'
  <2>1. \A x : GoodLine(x)' <=> GoodLine(x)
    BY <1>1, SameTables DEF GoodLine, GoodOperands, tables
  <2> QED BY <1>1, <2>1, SameTables DEF TextGood, IInv, tables
<1>6. TypeLines'
  BY <1>1, <1>4 DEF TypeLines, IInv
<1>7. DefineLines'
  <2>1. \A d, p : HeaderOf(d, p)' <=> HeaderOf(d, p)
    BY <1>1, SameTables DEF HeaderOf, tables
  <2> QED BY <1>1, <1>2, <1>4, <2>1, SameTables DEF DefineLines, IInv, tables
<1>8. DeclareLines' /\ CcallsDeclared'
  BY <1>1, <1>4 DEF DeclareLines, CcallsDeclared, IInv
<1>9. AssignmentsCounted' /\ (asked \in Seq([base : KnownTypes, field : Words]))'
  BY <1>1, <1>4, SameAsked DEF tables
<1> QED BY <1>3, <1>5, <1>6, <1>7, <1>8, <1>9 DEF IInv

-----------------------------------------------------------------------------
(* The header of a function.                                               *)

LEMMA KeptCounts ==
    ASSUME NEW d, NEW k \in Nat
    PROVE  /\ IsFiniteSet(Kept(d, k)) /\ Cardinality(Kept(d, k)) \in Nat
           /\ Kept(d, 0) = {} /\ Cardinality(Kept(d, 0)) = 0
           /\ (k > 0 => IF IsHole(d.params[k]) THEN Kept(d, k) = Kept(d, k - 1)
                        ELSE /\ Kept(d, k) = Kept(d, k - 1) \cup {k} /\ k \in Kept(d, k)
                             /\ Cardinality(Kept(d, k)) = Cardinality(Kept(d, k - 1)) + 1)
<1>1. \A n \in Nat : IsFiniteSet(Kept(d, n)) /\ Cardinality(Kept(d, n)) \in Nat
  <2> TAKE n \in Nat
  <2>1. 1 \in Int /\ n \in Int
    OBVIOUS
  <2>2. IsFiniteSet(1..n)
    BY <2>1, FS_Interval
  <2>3. Kept(d, n) \in SUBSET (1..n)
    BY DEF Kept
  <2>4. IsFiniteSet(Kept(d, n))
    BY <2>2, <2>3, FS_Subset
  <2> QED BY <2>4, FS_CardinalityType
<1>2. Kept(d, 0) = {} /\ Cardinality(Kept(d, 0)) = 0
  <2>1. Kept(d, 0) = {}
    BY DEF Kept
  <2> QED BY <2>1, FS_EmptySet
<1>3. ASSUME k > 0
      PROVE  IF IsHole(d.params[k]) THEN Kept(d, k) = Kept(d, k - 1)
             ELSE /\ Kept(d, k) = Kept(d, k - 1) \cup {k} /\ k \in Kept(d, k)
                  /\ Cardinality(Kept(d, k)) = Cardinality(Kept(d, k - 1)) + 1
  <2>1. 1..k = 1..k - 1 \cup {k} /\ k \notin 1..k - 1 /\ k - 1 \in Nat
    BY <1>3
  <2>2. CASE IsHole(d.params[k])
    BY <2>1, <2>2 DEF Kept
  <2>3. CASE ~IsHole(d.params[k])
    <3>1. Kept(d, k) = Kept(d, k - 1) \cup {k} /\ k \in Kept(d, k) /\ k \notin Kept(d, k - 1)
      BY <2>1, <2>3 DEF Kept
    <3>2. IsFiniteSet(Kept(d, k - 1))
      BY <1>1, <2>1
    <3>3. Cardinality(Kept(d, k - 1) \cup {k}) = Cardinality(Kept(d, k - 1)) + 1
      BY <3>1, <3>2, FS_AddElement
    <3> QED BY <2>3, <3>1, <3>3
  <2> QED BY <2>2, <2>3
<1> QED BY <1>1, <1>2, <1>3

\* Of the parameters that are kept, one is the i-th.
LEMMA KeptAt ==
    ASSUME NEW d, NEW n \in Nat, NEW i \in 1..Cardinality(Kept(d, n))
    PROVE  \E k \in Kept(d, n) : Cardinality(Kept(d, k)) = i
<1> DEFINE c(k) == Cardinality(Kept(d, k))
           U == {k \in 0..n : i <= c(k)}
<1>1. \A k \in Nat : c(k) \in Nat
  BY KeptCounts
<1>2. c(0) = 0 /\ i \in Nat /\ 1 <= i /\ i <= c(n)
  BY <1>1, KeptCounts
<1>3. U \in SUBSET Nat /\ n \in U
  BY <1>2
<1> HIDE DEF U
<1>4. PICK k \in U : \A m \in U : k <= m
  BY <1>3, Least
<1>5. k \in 0..n /\ i <= c(k)
  BY <1>4 DEF U
<1>6. k # 0
  BY <1>2, <1>5
<1>7. k - 1 \in 0..n /\ k - 1 \notin U /\ k \in Nat /\ k > 0 /\ k - 1 \in Nat
  <2>1. k \in 0..n /\ k # 0 /\ (k - 1 \in U => k <= k - 1)
    BY <1>4, <1>5, <1>6
  <2> QED BY <2>1
<1>8. c(k - 1) < i
  BY <1>1, <1>2, <1>7 DEF U
<1>9. ~IsHole(d.params[k]) /\ c(k) = c(k - 1) + 1 /\ k \in Kept(d, k)
  <2>1. IF IsHole(d.params[k]) THEN Kept(d, k) = Kept(d, k - 1)
        ELSE c(k) = c(k - 1) + 1 /\ k \in Kept(d, k)
    BY <1>7, KeptCounts
  <2>2. c(k) # c(k - 1)
    BY <1>1, <1>2, <1>5, <1>7, <1>8
  <2> QED BY <2>1, <2>2
<1>10. c(k) = i
  <2>1. c(k) \in Nat /\ c(k - 1) \in Nat
    BY <1>1, <1>7
  <2> HIDE DEF c
  <2> QED BY <1>2, <1>5, <1>8, <1>9, <2>1
<1>11. k \in Kept(d, n)
  BY <1>5, <1>7, <1>9 DEF Kept
<1> QED BY <1>10, <1>11

LEMMA NotHolesFrom ==
    ASSUME NEW d, Len(d.params) \in Nat, DOMAIN d.params = 1..Len(d.params)
    PROVE  /\ Cardinality(Kept(d, Len(d.params))) \in Nat
           /\ DOMAIN NotHoles(d) = 1..Cardinality(Kept(d, Len(d.params)))
           /\ \A i \in DOMAIN NotHoles(d) : \E k \in DOMAIN d.params : NotHoles(d)[i] = d.params[k]
<1> DEFINE n == Len(d.params)
           m == Cardinality(Kept(d, n))
<1>1. m \in Nat
  BY KeptCounts
<1>2. NotHoles(d) = [i \in 1..m |-> d.params[CHOOSE k \in Kept(d, n) : Cardinality(Kept(d, k)) = i]]
  BY DEF NotHoles
<1>3. ASSUME NEW i \in 1..m
      PROVE  \E j \in DOMAIN d.params : d.params[CHOOSE k \in Kept(d, n) : Cardinality(Kept(d, k)) = i] = d.params[j]
  <2>1. \E k \in Kept(d, n) : Cardinality(Kept(d, k)) = i
    BY <1>3, KeptAt
  <2>2. (CHOOSE k \in Kept(d, n) : Cardinality(Kept(d, k)) = i) \in Kept(d, n)
    BY <2>1
  <2>3. Kept(d, n) \subseteq DOMAIN d.params
    BY DEF Kept
  <2> QED BY <2>2, <2>3
<1> HIDE DEF m
<1>4. DOMAIN NotHoles(d) = 1..m
  BY <1>2
<1>5. ASSUME NEW i \in 1..m PROVE \E k \in DOMAIN d.params : NotHoles(d)[i] = d.params[k]
  <2>1. NotHoles(d)[i] = d.params[CHOOSE k \in Kept(d, n) : Cardinality(Kept(d, k)) = i]
    BY <1>2
  <2> QED BY <1>3, <2>1
<1> QED BY <1>1, <1>4, <1>5 DEF m

\* Without a hole the header has the parameters of the signature.
LEMMA NoHoles ==
    ASSUME NEW d, Len(d.params) \in Nat, DOMAIN d.params = 1..Len(d.params), ~HasHole(d)
    PROVE  HeaderParams(d) = SignatureParams(d)
<1> DEFINE n == Len(d.params)
<1>1. \A i \in 1..n : ~IsHole(d.params[i])
  BY DEF HasHole
<1>2. \A k \in 0..n : Kept(d, k) = 1..k /\ Cardinality(Kept(d, k)) = k
  <2> TAKE k \in 0..n
  <2>1. Kept(d, k) = 1..k
    BY <1>1 DEF Kept
  <2>2. 1 \in Int /\ k \in Int /\ k \in Nat
    OBVIOUS
  <2>3. Cardinality(1..k) = k
    BY <2>2, FS_Interval
  <2> QED BY <2>1, <2>3
<1>3. Kept(d, n) = 1..n /\ Cardinality(Kept(d, n)) = n /\ \A k \in 1..n : Cardinality(Kept(d, k)) = k
  BY <1>2
<1>4. NotHoles(d) = [i \in 1..n |-> d.params[i]]
  <2>1. NotHoles(d) = [i \in 1..n |-> d.params[CHOOSE k \in 1..n : Cardinality(Kept(d, k)) = i]]
    BY <1>3 DEF NotHoles
  <2>2. \A i \in 1..n : (CHOOSE k \in 1..n : Cardinality(Kept(d, k)) = i) = i
    BY <1>3
  <2> QED BY <2>1, <2>2
<1>5. HeaderParams(d) = [i \in 1..n |-> ParamType(d.params[i])]
  BY <1>4 DEF HeaderParams
<1>6. SignatureParams(d) = [i \in 1..n |-> ParamType(d.params[i])]
  <2>1. ~(Len(d.params) = 1 /\ IsHole(d.params[1]))
    BY <1>1
  <2> QED BY <2>1 DEF SignatureParams
<1> QED BY <1>5, <1>6

LEMMA HeaderTyped ==
    ASSUME IInv, phase # "types", NEW p \in DOMAIN decls, decls[p].kind \in {"fn", "entry"}
    PROVE  /\ HeaderParams(decls[p]) \in Seq(KnownTypes)
           /\ [i \in DOMAIN NotHoles(decls[p]) |->
                  [name |-> NotHoles(decls[p])[i].name, ty |-> ParamType(NotHoles(decls[p])[i])]] \in FieldSeqs
<1> DEFINE d == decls[p]
           ps == d.params
           ns == NotHoles(d)
           n == Cardinality(Kept(d, Len(d.params)))
<1>1. /\ ps \in Seq([shape : {"typed", "atom", "hole"}, name : STRING, node : TypeNodes])
      /\ \A i \in DOMAIN ps : ParamType(ps[i]) \in KnownTypes /\ ps[i].name \in Words
  BY ParamsTyped
<1>2. Len(ps) \in Nat /\ DOMAIN ps = 1..Len(ps)
  BY <1>1
<1>3. n \in Nat /\ DOMAIN ns = 1..n /\ \A i \in 1..n : \E k \in DOMAIN ps : ns[i] = ps[k]
  <2> HIDE DEF d
  <2>1. Len(d.params) \in Nat /\ DOMAIN d.params = 1..Len(d.params)
    BY <1>2
  <2>2. /\ Cardinality(Kept(d, Len(d.params))) \in Nat
        /\ DOMAIN NotHoles(d) = 1..Cardinality(Kept(d, Len(d.params)))
        /\ \A i \in DOMAIN NotHoles(d) : \E k \in DOMAIN d.params : NotHoles(d)[i] = d.params[k]
    BY <2>1, NotHolesFrom
  <2> QED BY <2>2
<1> HIDE DEF n
<1>4. \A i \in 1..n : ParamType(ns[i]) \in KnownTypes /\ ns[i].name \in Words
  BY <1>1, <1>3
<1>5. HeaderParams(d) = [i \in 1..n |-> ParamType(ns[i])]
  BY <1>3 DEF HeaderParams
<1> HIDE DEF ns, d
<1> DEFINE t(i) == ParamType(ns[i])
           S == [name : Words, ty : KnownTypes]
           x(i) == [name |-> ns[i].name, ty |-> ParamType(ns[i])]
           es == [i \in DOMAIN ns |-> x(i)]
<1>6. \A i \in 1..n : t(i) \in KnownTypes /\ x(i) \in S
  BY <1>4
<1>7. HeaderParams(d) = [i \in 1..n |-> t(i)] /\ es = [i \in 1..n |-> x(i)]
  BY <1>3, <1>5
<1>10. FieldSeqs = Seq(S)
  BY DEF FieldSeqs
<1> HIDE DEF t, x, S
<1>8. HeaderParams(d) \in [1..n -> KnownTypes] /\ es \in [1..n -> S]
  BY <1>6, <1>7
<1>9. HeaderParams(d) \in Seq(KnownTypes) /\ es \in Seq(S)
  <2> HIDE DEF es
  <2> QED BY <1>3, <1>8, FunctionSeq
<1> QED BY <1>9, <1>10 DEF d, ns, x

LEMMA OpenFnKeeps ==
    ASSUME IInv, OpenFn
    PROVE  IInv'
<1>0. PICK a : a = at
  OBVIOUS
<1> DEFINE d == decls[a]
           l == TextLine("define", d.name, Parse(aliases, d.node), HeaderParams(d))
<1>1. /\ phase = "functions" /\ a <= Len(decls) /\ d.kind \in {"fn", "entry"} /\ phase' = "body" /\ at' = a
      /\ text' = Append(text, l)
      /\ env' = [i \in DOMAIN NotHoles(d) |-> [name |-> NotHoles(d)[i].name, ty |-> ParamType(NotHoles(d)[i])]]
      /\ it' = NoValue /\ last' = NoValue
      /\ UNCHANGED <<decls, aliases, structs, fns, declared, nforms, asked>>
  BY <1>0 DEF OpenFn, tables
<1>2. a \in 1..Len(decls) /\ Len(decls) \in Nat /\ a \in DOMAIN decls
  BY <1>0, <1>1, DeclTyped DEF IInv, Walk
<1>3. /\ TypesRead' = TypesRead /\ SignaturesRead' = SignaturesRead /\ Opened = a - 1 /\ Opened' = a
  BY <1>0, <1>1, <1>2 DEF TypesRead, SignaturesRead, Opened
<1>4. d.name \in STRING
  <2>1. d \in Decls
    BY <1>2, DeclTyped DEF IInv
  <2> QED BY <2>1 DEF Decls
<1>5. HeaderParams(d) \in Seq(KnownTypes) /\ Parse(aliases, d.node) \in KnownTypes /\ env' \in FieldSeqs
  BY <1>1, <1>2, HeaderTyped, ParamsTyped
<1>6. Walk'
  BY <1>0, <1>1, <1>2 DEF Walk, IInv, function
<1>7. Typed'
  BY <1>1, <1>5, OwnTypes, SameTypes DEF Typed, IInv
<1>8. TypesPass' /\ SignaturesPass'
  BY <1>1, <1>3, SamePasses DEF IInv, tables
<1>9. l \in TextLines /\ GoodLine(l) /\ l.op = "define" /\ l.name = d.name
      /\ l.ret = Parse(aliases, d.node) /\ l.wrote = HeaderParams(d)
  <2> DEFINE h == HeaderParams(d)
             t == Parse(aliases, d.node)
             m == d.name
             r == [op |-> "define", name |-> m, ret |-> t, wrote |-> h, has |-> h, val |-> t]
  <2>1. "define" \in Ops /\ m \in Words /\ t \in KnownTypes /\ h \in Seq(KnownTypes)
    BY <1>4, <1>5 DEF Ops, Words
  <2>2. l = r
    BY DEF TextLine
  <2> HIDE DEF h, t, m
  <2>3. r \in TextLines
    BY <2>1, LineMade
  <2>4. GoodLine(r) /\ r.op = "define" /\ r.name = m /\ r.ret = t /\ r.wrote = h
    BY DEF GoodLine, GoodOperands
  <2> HIDE DEF r, l
  <2> QED BY <2>2, <2>3, <2>4 DEF h, t, m
<1> HIDE DEF l
<1>10. text \in Seq(TextLines)
  BY DEF IInv, TextGood
<1>11. Adds(l)
  <2>1. Append(text, l) = text \o <<l>>
    BY <1>9, <1>10
  <2> QED BY <1>1, <2>1 DEF Adds
<1>12. /\ TextGood' /\ TypeLines' /\ DeclareLines' /\ CcallsDeclared'
       /\ Lines({"set-field"})' = Lines({"set-field"})
  <2>1. /\ l \in TextLines /\ GoodLine(l) /\ l.op \notin {"type", "declare"} /\ l.op # "set-field"
        /\ phase \notin {"types", "signatures"} /\ phase' \notin {"types", "signatures"}
        /\ UNCHANGED <<decls, tables, declared>>
    BY <1>1, <1>9 DEF tables
  <2> QED BY <1>11, <2>1, QuietLine
<1>13. DefineLines'
  <2>0. PICK n : n = Len(text) + 1
    OBVIOUS
  <2>1. /\ DOMAIN text' = DOMAIN text \cup {n} /\ n \notin DOMAIN text
        /\ text'[n] = l /\ \A i \in DOMAIN text : text'[i] = text[i]
    BY <1>9, <1>10, <1>11, <2>0, OneMore DEF Adds
  <2>2. /\ Lines({"define"})' = Lines({"define"}) \cup {n} /\ n \notin Lines({"define"})
        /\ \A i \in Lines({"define"}) : text'[i] = text[i]
    BY <1>9, <2>1 DEF Lines
  <2>3. \A p : \A e \in Lines({"define"}) : HeaderOf(e, p)' <=> HeaderOf(e, p)
    BY <1>1, <2>2, SameTables DEF HeaderOf, tables
  <2>4. HeaderOf(n, a)'
    <3>1. decls' = decls /\ aliases' = aliases /\ HeaderParams(d)' = HeaderParams(d)
      BY <1>1, SameTables DEF tables
    <3> QED BY <1>9, <2>1, <3>1 DEF HeaderOf
  <2>5. /\ \A p \in 1..a - 1 : decls[p].kind \in {"fn", "entry"} => \E e \in Lines({"define"}) : HeaderOf(e, p)
        /\ \A e \in Lines({"define"}) :
              text[e].name = "arena-create" \/ \E p \in 1..a - 1 : p \in DeclaredFns(text[e].name)
        /\ \A e, f \in Lines({"define"}) : text[e].name = text[f].name /\ e # f =>
              \/ \E p, q \in DeclaredFns(text[e].name) : p # q
              \/ text[e].name = "arena-create" /\ DeclaredFns(text[e].name) # {}
    BY <1>3 DEF DefineLines, IInv
  <2>6. a \in DeclaredFns(d.name)
    BY <1>1, <1>2 DEF DeclaredFns
  <2>7. 1..a = 1..a - 1 \cup {a} /\ a \notin 1..a - 1 /\ Opened' = a
    BY <1>2, <1>3
  <2>8. decls' = decls /\ \A x : DeclaredFns(x)' = DeclaredFns(x)
    BY <1>1, SameTypes
  <2>9. ASSUME NEW p \in 1..a, decls[p].kind \in {"fn", "entry"} PROVE \E e \in Lines({"define"})' : HeaderOf(e, p)'
    BY <2>2, <2>3, <2>4, <2>5, <2>7, <2>9
  <2>10. ASSUME NEW e \in Lines({"define"})'
         PROVE  text'[e].name = "arena-create" \/ \E p \in 1..a : p \in DeclaredFns(text'[e].name)
    <3>1. CASE e = n
      BY <1>9, <2>1, <2>6, <2>7, <3>1
    <3>2. CASE e \in Lines({"define"})
      BY <2>2, <2>5, <2>7, <3>2
    <3> QED BY <2>2, <3>1, <3>2
  <2>11. ASSUME NEW e \in Lines({"define"}), text[e].name = d.name
         PROVE  \/ \E p, q \in DeclaredFns(d.name) : p # q
                \/ d.name = "arena-create" /\ DeclaredFns(d.name) # {}
    BY <2>5, <2>6, <2>7, <2>11
  <2>12. ASSUME NEW e \in Lines({"define"})', NEW f \in Lines({"define"})', text'[e].name = text'[f].name, e # f
         PROVE  \/ \E p, q \in DeclaredFns(text'[e].name) : p # q
                \/ text'[e].name = "arena-create" /\ DeclaredFns(text'[e].name) # {}
    <3>1. CASE e = n
      BY <1>9, <2>1, <2>2, <2>11, <2>12, <3>1
    <3>2. CASE f = n
      BY <1>9, <2>1, <2>2, <2>11, <2>12, <3>2
    <3>3. CASE e \in Lines({"define"}) /\ f \in Lines({"define"})
      BY <2>2, <2>5, <2>12, <3>3
    <3> QED BY <2>2, <3>1, <3>2, <3>3
  <2> QED BY <2>7, <2>8, <2>9, <2>10, <2>12 DEF DefineLines
<1>14. AssignmentsCounted' /\ (asked \in Seq([base : KnownTypes, field : Words]))'
  BY <1>1, <1>12, SameAsked DEF tables
<1> QED BY <1>6, <1>7, <1>8, <1>12, <1>13, <1>14 DEF IInv

-----------------------------------------------------------------------------
(* The theorems.                                                           *)

LEMMA NextKeeps ==
    ASSUME IInv, [Next]_vars
    PROVE  IInv'
<1>1. CASE CollectType
  BY <1>1, CollectTypeKeeps
<1>2. CASE TypesCollected
  BY <1>2, TypesCollectedKeeps
<1>3. CASE CollectSignature
  BY <1>3, CollectSignatureKeeps
<1>4. CASE RegisterBuiltIns
  BY <1>4, RegisterBuiltInsKeeps
<1>5. CASE SkipDecl
  BY <1>5, SkipDeclKeeps
<1>6. CASE OpenFn
  BY <1>6, OpenFnKeeps
<1>7. CASE Finished
  BY <1>7, FinishedKeeps
<1>8. ASSUME NEW f \in Forms, Form(f) PROVE IInv'
  BY <1>8, FormKeeps
<1>9. ASSUME NEW nested \in BOOLEAN, Return(nested) PROVE IInv'
  BY <1>9, ReturnKeeps
<1>10. CASE EndBody
  BY <1>10, EndBodyKeeps
<1>11. CASE UNCHANGED vars
  BY <1>11, StutterKeeps
<1> QED BY <1>1, <1>2, <1>3, <1>4, <1>5, <1>6, <1>7, <1>8, <1>9, <1>10, <1>11 DEF Next

\* The tables and the text agree with the declarations read so far, in every pass.
THEOREM Inductive == Spec => []IInv
<1> QED BY InitHolds, NextKeeps, PTL DEF Spec

LEMMA AllRead ==
    ASSUME IInv
    PROVE  /\ Len(decls) \in Nat /\ DOMAIN decls = 1..Len(decls)
           /\ (phase # "types" => DOMAIN aliases = DeclaredAs("alias") /\ DOMAIN structs = DeclaredAs("struct"))
           /\ (phase = "done" => Opened = Len(decls) /\ SignaturesRead = Len(decls))
<1>1. Len(decls) \in Nat /\ DOMAIN decls = 1..Len(decls)
  BY DeclTyped DEF IInv
<1>2. phase # "types" => TypesRead = Len(decls)
  BY DEF TypesRead
<1>3. phase # "types" => DOMAIN aliases = DeclaredAs("alias") /\ DOMAIN structs = DeclaredAs("struct")
  BY <1>1, <1>2 DEF IInv, TypesPass, NamedIn, DeclaredAs
<1>4. phase = "done" => Opened = Len(decls) /\ SignaturesRead = Len(decls)
  BY <1>1 DEF IInv, Walk, Opened, SignaturesRead
<1> QED BY <1>1, <1>3, <1>4

\* The passes walk the declarations in order, and no table has an entry the program does
\* not declare (program.c:405-490).
THEOREM Passes == Spec => []TypeOK
<1>1. ASSUME IInv PROVE TypeOK
  <2>1. DOMAIN fns \subseteq DOMAIN BuiltIn \cup DeclaredAs("fn") \cup DeclaredAs("entry")
    <3>1. NamedIn({"fn", "entry"}, Len(decls)) \subseteq DeclaredAs("fn") \cup DeclaredAs("entry")
      BY <1>1, AllRead DEF NamedIn, DeclaredAs
    <3> QED BY <1>1, <3>1 DEF IInv, SignaturesPass
  <2> QED BY <1>1, <2>1, AllRead DEF TypeOK, IInv, Walk
<1> QED BY <1>1, Inductive, PTL

\* Nothing but what Unchecked lists reaches the text with a type it is not written with
\* (ensure_type_ctx_at).
THEOREM OperandsFit == Spec => []OperandsChecked
<1>1. ASSUME IInv PROVE OperandsChecked
  <2>1. \A i \in DOMAIN text : GoodOperands(text[i])
    BY <1>1 DEF IInv, TextGood, GoodLine
  <2> QED BY <2>1 DEF GoodOperands, OperandsChecked
<1> QED BY <1>1, Inductive, PTL

\* A struct's name means one type in the whole text, which defines it (program.c:405-467,
\* types.c:113-124).
THEOREM NamesMean == Spec => []NamesDenote
<1>1. ASSUME IInv PROVE SameMeaning
  <2> SUFFICES ASSUME phase # "types", NEW s \in DOMAIN structs, NEW k \in DOMAIN structs[s]
               PROVE  \/ structs[s][k].ty = Parse(aliases, decls[LastStruct(s)].fields[k].node)
                      \/ \E j \in LastStruct(s)..Len(decls) :
                            decls[j].kind = "alias" /\ decls[j].name = decls[LastStruct(s)].fields[k].node.name
    BY DEF SameMeaning
  <2>1. StructFrom(s, LastStruct(s))
    BY <1>1, LastStructFound
  <2>2. TypesRead = Len(decls)
    BY DEF TypesRead
  <2> QED BY <2>1, <2>2 DEF StructFrom
<1>2. ASSUME IInv PROVE TypesDefined
  <2> SUFFICES ASSUME phase = "done", NEW i \in DOMAIN text, NEW b \in Mentioned(text[i])
               PROVE  \/ ~IsStruct(T(b, 0))
                      \/ \E j \in Lines({"type"}) : text[j].name = b
                      \/ /\ b \notin DeclaredAs("struct") \cup {"Arena"}
                         /\ b \in DeclaredAs("alias") => TakenForStruct(b)
    BY DEF TypesDefined
  <2>1. Known(b)
    <3> PICK l : l = text[i]
      OBVIOUS
    <3>1. l \in TextLines /\ b \in Mentioned(l)
      BY <1>2 DEF IInv, TextGood
    <3>2. l.ret \in KnownTypes /\ l.wrote \in Seq(KnownTypes)
      BY <3>1 DEF TextLines
    <3> PICK w : w = l.wrote
      OBVIOUS
    <3>3. \A k \in DOMAIN w : w[k] \in KnownTypes
      <4>1. w \in Seq(KnownTypes)
        BY <3>2
      <4> QED BY <4>1
    <3>4. \E t \in KnownTypes : b = t.base
      BY <3>1, <3>2, <3>3 DEF Mentioned
    <3> QED BY <3>4 DEF KnownTypes
  <2>2. CASE b \in Bases
    BY <2>2 DEF IsStruct, T
  <2>3. CASE b \in DeclaredAs("struct") \cup {"Arena"}
    <3>1. DOMAIN structs = DeclaredAs("struct")
      BY <1>2, AllRead
    <3>2. \A s \in DOMAIN structs \cup {"Arena"} : \E j \in Lines({"type"}) : text[j].name = s
      BY <1>2 DEF IInv, TypeLines
    <3> QED BY <2>3, <3>1, <3>2
  <2>4. CASE b \notin Bases \cup DeclaredAs("struct") \cup {"Arena"}
    BY <2>1, <2>4 DEF Known
  <2> QED BY <2>2, <2>3, <2>4
<1> QED BY <1>1, <1>2, Inductive, PTL DEF NamesDenote

\* The text defines nothing twice that the program does not (program.c:11-40, 102-303).
THEOREM NothingTwice == Spec => []DefinedOnce
<1>1. ASSUME IInv PROVE DefinedOnce
  <2>1. \A i, j \in Lines({"type"}) : text[i].name = text[j].name => i = j
    BY <1>1 DEF IInv, TypeLines
  <2>2. Lines({"define", "declare"}) = Lines({"define"}) \cup Lines({"declare"})
    BY DEF Lines
  <2>3. \A i \in Lines({"define"}) : DeclaredFns(text[i].name) # {} \/ text[i].name = "arena-create"
    BY <1>1 DEF IInv, DefineLines
  <2>4. \A i \in Lines({"declare"}) :
          text[i].name \in DOMAIN Preset \/ \E c \in Lines({"ccall"}) : text[c].name = text[i].name
    BY <1>1 DEF IInv, DeclareLines
  <2>5. ASSUME NEW i \in Lines({"define", "declare"}), NEW j \in Lines({"define", "declare"}),
               text[i].name = text[j].name, i # j
        PROVE  LET n == text[i].name IN
                  \/ \E p, q \in DeclaredFns(n) : p # q
                  \/ n = "arena-create" /\ DeclaredFns(n) # {}
                  \/ /\ DeclaredFns(n) # {} \/ n = "arena-create"
                     /\ n \in DOMAIN Preset \/ \E c \in Lines({"ccall"}) : text[c].name = n
    <3>1. CASE i \in Lines({"define"}) /\ j \in Lines({"define"})
      BY <1>1, <2>5, <3>1 DEF IInv, DefineLines
    <3>2. CASE i \in Lines({"declare"}) /\ j \in Lines({"declare"})
      BY <1>1, <2>5, <3>2 DEF IInv, DeclareLines
    <3>3. CASE i \in Lines({"define"}) /\ j \in Lines({"declare"})
      BY <2>3, <2>4, <2>5, <3>3
    <3>4. CASE i \in Lines({"declare"}) /\ j \in Lines({"define"})
      BY <2>3, <2>4, <2>5, <3>4
    <3> QED BY <2>2, <2>5, <3>1, <3>2, <3>3, <3>4
  <2> QED BY <2>1, <2>5 DEF DefinedOnce
<1> QED BY <1>1, Inductive, PTL

\* What a call or a ccall writes agrees with what defines or declares its callee
\* (program.c:304-382, expr.c:485-634).
THEOREM CalleesAgree == Spec => []CallsAgree
<1>1. ASSUME IInv PROVE CallsMatch
  <2> SUFFICES ASSUME phase = "done", NEW c \in Lines({"call"}), NEW p \in DeclaredFns(text[c].name),
                      DeclaredFns(text[c].name) = {p}, ~HasHole(decls[p]), text[c].name \notin DOMAIN BuiltIn
               PROVE  \E d \in Lines({"define"}) :
                        /\ text[d].name = text[c].name /\ text[d].ret = text[c].ret
                        /\ \A k \in DOMAIN text[c].wrote :
                              text[c].wrote[k] = IF k \in DOMAIN text[d].wrote THEN text[d].wrote[k] ELSE I32
    BY DEF CallsMatch
  <2>1. PICK l : l = text[c]
    OBVIOUS
  <2>2. p \in DOMAIN decls /\ decls[p].kind \in {"fn", "entry"} /\ decls[p].name = l.name
    BY <2>1 DEF DeclaredFns
  <2>3. p \in 1..SignaturesRead /\ p \in 1..Opened
    BY <1>1, <2>2, AllRead
  <2>4. l.name \in DOMAIN fns /\ fns[l.name] = Signature(decls[p])
    BY <1>1, <2>1, <2>2, <2>3 DEF IInv, SignaturesPass
  <2>5. Callee(l.name) = Signature(decls[p])
    BY <2>4 DEF Callee
  <2>6. l.op = "call" /\ GoodLine(l)
    BY <1>1, <2>1 DEF IInv, TextGood, Lines
  <2>7. /\ l.ret = Signature(decls[p]).ret
        /\ \A k \in DOMAIN l.wrote :
              l.wrote[k] = IF k \in DOMAIN Signature(decls[p]).params THEN Signature(decls[p]).params[k] ELSE I32
    BY <2>5, <2>6 DEF GoodLine
  <2>8. Len(decls[p].params) \in Nat /\ DOMAIN decls[p].params = 1..Len(decls[p].params)
    <3>1. decls[p] \in Decls
      BY <1>1, <2>2, DeclTyped DEF IInv
    <3>2. decls[p].params \in Seq([shape : {"typed", "atom", "hole"}, name : STRING, node : TypeNodes])
      BY <3>1 DEF Decls
    <3> QED BY <3>2
  <2>9. HeaderParams(decls[p]) = SignatureParams(decls[p])
    BY <2>8, NoHoles
  <2>10. PICK d \in Lines({"define"}) : HeaderOf(d, p)
    BY <1>1, <2>2, <2>3 DEF IInv, DefineLines
  <2>11. Signature(decls[p]).ret = Parse(aliases, decls[p].node) /\ Signature(decls[p]).params = SignatureParams(decls[p])
    BY DEF Signature
  <2>12. text[d].name = l.name /\ text[d].ret = l.ret /\ text[d].wrote = Signature(decls[p]).params
    BY <2>2, <2>7, <2>9, <2>10, <2>11 DEF HeaderOf
  <2> QED BY <2>1, <2>7, <2>10, <2>12
<1>2. ASSUME IInv PROVE CcallsDeclared
  BY <1>2 DEF IInv
<1> QED BY <1>1, <1>2, Inductive, PTL DEF CallsAgree

\* Of the assignments the program asks for, those to a field that its struct has are in the
\* text; those the text has, the program asked for (stmt.c:78-107).
THEOREM AssignmentsWritten == Spec => []AssignmentsKept
<1>1. ASSUME IInv PROVE AssignmentsKept
  <2> DEFINE A == {i \in DOMAIN asked : FieldDeclared(asked[i])}
             n == Len(asked)
  <2>1. Cardinality(Lines({"set-field"})) = Cardinality(A)
    BY <1>1 DEF IInv, AssignmentsCounted
  <2>2. DOMAIN asked = 1..n /\ n \in Nat
    BY <1>1 DEF IInv
  <2> HIDE DEF n
  <2>3. A \subseteq 1..n
    BY <2>2
  <2>4. IsFiniteSet(1..n) /\ Cardinality(1..n) = n
    <3>1. IsFiniteSet(1..n) /\ Cardinality(1..n) = IF 1 > n THEN 0 ELSE n - 1 + 1
      BY <2>2, FS_Interval
    <3> QED BY <2>2, <3>1
  <2> HIDE DEF A
  <2>5. Cardinality(A) \in Nat /\ Cardinality(A) <= n
    <3>1. IsFiniteSet(A) /\ Cardinality(A) <= Cardinality(1..n)
      BY <2>3, <2>4, FS_Subset
    <3> QED BY <2>4, <3>1, FS_CardinalityType
  <2> QED BY <2>1, <2>5 DEF AssignmentsKept, A, n
<1> QED BY <1>1, Inductive, PTL

=============================================================================
