------------------------------ MODULE MCProgram ------------------------------
(***************************************************************************)
(* The programs and forms Program is checked for, and the programs with    *)
(* tests EmbeddedTests is checked for, one family at a time: the other     *)
(* component stays where it begins.                                        *)
(***************************************************************************)
EXTENDS Program, EmbeddedTests

Name(n)      == [name |-> n, stars |-> 0, struct |-> FALSE]
PtrName(n)   == [Name(n) EXCEPT !.stars = 1]
StructName(n) == [Name(n) EXCEPT !.struct = TRUE]

Alias(n, node)     == [kind |-> "alias", name |-> n, node |-> node, fields |-> <<>>, params |-> <<>>]
Struct(n, fields)  == [kind |-> "struct", name |-> n, node |-> Name("Void"), fields |-> fields, params |-> <<>>]
Fn(n, params, ret) == [kind |-> "fn", name |-> n, node |-> ret, fields |-> <<>>, params |-> params]
Entry(ret)         == [Fn("main", <<>>, ret) EXCEPT !.kind = "entry"]
Field(n, node)     == [name |-> n, node |-> node]
Param(n, node)     == [shape |-> "typed", name |-> n, node |-> node]
Untyped            == [shape |-> "atom", name |-> "arg", node |-> Name("Int32")]
Hole               == [shape |-> "hole", name |-> "", node |-> Name("Int32")]

\* A is an alias, S a struct with a field of that type; either may come first, or twice.
AliasDecls  == {Alias("A", Name("String")), Alias("A", PtrName("S"))}
StructDecls == {Struct("S", <<Field("f", Name("A"))>>),
                Struct("S", <<Field("g", Name("Int32")), Field("f", StructName("A"))>>)}
Pointers    == Fn("f", <<Param("x", PtrName("S"))>>, Name("Int32"))
Aliased     == Fn("f", <<Param("x", Name("A"))>>, Name("A"))
FnDecls     == {Pointers, Aliased, Fn("g", <<Hole, Untyped>>, Name("Void")),
                Fn("arena-kind", <<Param("x", PtrName("Int32"))>>, Name("Int32")),
                Fn("malloc", <<Param("x", Name("Int32"))>>, PtrName("Int32"))}
Main        == Entry(Name("Int32"))
Arena       == Struct("Arena", <<Field("f", Name("Int32"))>>)
TypeDecls   == AliasDecls \cup StructDecls

\* A function before main, one after it; one that names a type, beside a type or after any two.
MCPrograms ==
    {<<f, Main>> : f \in FnDecls} \cup {<<Main, Pointers>>, <<Pointers, Aliased>>}
    \cup {<<t, Pointers>> : t \in TypeDecls \cup {Arena}} \cup {<<t, Aliased>> : t \in AliasDecls}
    \cup {<<Aliased, t>> : t \in TypeDecls} \cup {<<Pointers, Arena>>}
    \cup {<<d[1], d[2], Pointers>> : d \in {e \in TypeDecls \X TypeDecls : e[1] # e[2]}}

OpForm(form, name, node, n) == [form |-> form, name |-> name, node |-> node, nodes |-> <<>>, n |-> n]
CcallForm(name, ret, nodes) == [form |-> "ccall", name |-> name, node |-> ret, nodes |-> nodes, n |-> Len(nodes)]

MCForms ==
    {OpForm("call", "f", Name("Void"), 1), OpForm("call", "g", Name("Void"), 1),
     OpForm("call", "arena-kind", Name("Void"), 1), OpForm("call", "other", Name("Void"), 1),
     CcallForm("puts", Name("Int32"), <<Name("A")>>), CcallForm("puts", Name("Void"), <<>>),
     CcallForm("malloc", PtrName("S"), <<Name("Int32")>>), CcallForm("printf", Name("String"), <<Name("String")>>),
     OpForm("llvm-jit", "", Name("Void"), 2),
     OpForm("load", "", Name("A"), 1), OpForm("ptr-add", "", Name("S"), 2),
     OpForm("make", "f", Name("S"), 1), OpForm("make", "f", Name("Arena"), 1),
     OpForm("store", "", Name("A"), 2), OpForm("set-field", "g", Name("Void"), 2),
     OpForm("let", "y", PtrName("S"), 1), OpForm("set", "x", Name("Void"), 1)}

-----------------------------------------------------------------------------
(* Tests.                                                                  *)

\* One function with a test of up to three statements and expectations.
TestShape == [forms |-> 1, sections |-> 1, tests |-> 1, items |-> 3, names |-> {"n"}, tags |-> {},
              kinds |-> {"work", "value", "return", "eq", "false", "ne"},
              blocks |-> {"setup", "inspect", "body", "stray"}]

\* Two tests with two statements and expectations together.
TwoTestShape == [TestShape EXCEPT !.tests = 2, !.items = 2, !.blocks = @ \ {"stray"}]

\* Two functions with two sections of two items each, which hold nothing.
RunnerShape == [forms |-> 2, sections |-> 2, tests |-> 2, items |-> 0, names |-> {"n1", "n2"}, tags |-> {"g"},
                kinds |-> {"eq"}, blocks |-> {}]

NotEqualShape == [forms |-> 1, sections |-> 1, tests |-> 1, items |-> 2, names |-> {"n"}, tags |-> {},
                  kinds |-> {"work", "ne"}, blocks |-> {"setup", "body"}]

\* An expectation in the body or beside it, with a debug block or without.
ToldShape == [forms |-> 1, sections |-> 1, tests |-> 1, items |-> 2, names |-> {"n"}, tags |-> {},
              kinds |-> {"work", "true", "false"}, blocks |-> {"setup", "body", "stray"}]

AllShapes == {TestShape, TwoTestShape, RunnerShape}
NotEqual  == {NotEqualShape}
Told      == {ToldShape}

-----------------------------------------------------------------------------
VARIABLE family   \* which of the two is compiled, "program" or "tests"

MCInit ==
    /\ Init /\ TestsInit
    /\ \/ family = "program" /\ shape = (CHOOSE s \in Shapes : TRUE) /\ ~runTests
       \/ family = "tests" /\ decls = <<Main, Pointers>>
MCNext ==
    /\ \/ family = "program" /\ Next /\ UNCHANGED testVars
       \/ family = "tests" /\ TestsNext /\ UNCHANGED vars
    /\ UNCHANGED family
MCSpec == MCInit /\ [][MCNext]_<<vars, testVars, family>>

=============================================================================
