--------------------------- MODULE EmbeddedTests ----------------------------
(***************************************************************************)
(* weavec0 -generate-tests (program.c): the (tests ...) sections of a      *)
(* program become functions @__test_<fn>_<n>, a main that calls them all   *)
(* takes the place of the user's entry, and every expect-* of a test       *)
(* becomes a branch to a block that reports and returns 1.                 *)
(*                                                                         *)
(* cg_stmt is used here through what Codegen shows of it: a statement      *)
(* either ends the text in a return and says so ("return"), or leaves it   *)
(* open, with a value ("value") or without ("work"). What a value or a     *)
(* condition is when the test runs is left to Execute. The program is      *)
(* chosen while it is compiled, modules already flattened.                 *)
(***************************************************************************)
EXTENDS IRText, FiniteSets, FiniteSetsExt, Functions

CONSTANT Shapes   \* bounds: the shapes a program may have, and the filters it may be given

StmtKinds   == {"work", "value", "return"}
ExpectKinds == {"eq", "true", "false", "ne", "ne-string"}
AllBlocks   == {"setup", "inspect", "body", "stray"}

\* Of a shape: how many top-level forms there are, (tests ...) sections of a function, items
\* of a section, and statements and expectations of all tests together; the names and tags
\* of its tests; of which kinds the statements are, and which blocks hold them.
Shape == [forms : Nat, sections : Nat \ {0}, tests : Nat, items : Nat,
          names : SUBSET STRING, tags : SUBSET STRING,
          kinds : SUBSET (StmtKinds \cup ExpectKinds), blocks : SUBSET AllBlocks]

ASSUME ShapesAssumption == Shapes \subseteq Shape

VARIABLES
    shape,      \* the shape of this program
    runTests,   \* ir->run_tests_mode
    selected,   \* ir->selected_test_names and ir->selected_tags
    forms,      \* top-level forms of the program, in order
    defined,    \* names of the functions in the text, in order
    stage,      \* where compile_to_llvm_ir is
    pos,        \* the form, the section and the item of the section it is at
    test,       \* the test being compiled: what emit_tests_for_fn read of it
    code,       \* its text
    nlabel,     \* ir->label
    sawExpect,  \* ir->saw_expect
    carried,    \* last_expr: the item that left it, 0 when has_last is not set
    funcs,      \* ir->test_funcs and ir->test_names, with the text of each
    wanted,     \* the tests of the program the selection asks for
    calls       \* functions the generated main calls, in order

testVars == <<shape, runTests, selected, forms, defined, stage, pos, test, code, nlabel,
          sawExpect, carried, funcs, wanted, calls>>

-----------------------------------------------------------------------------
(* The text. A line knows the item of the test it stands for ("at").       *)

At(line, i) == [op |-> line.op, to |-> line.to, at |-> i, then |-> 0, when |-> TRUE, val |-> ""]

Work(i)     == At(Inst({}, {}), i)
Report(i)    == [Work(i) EXCEPT !.op = "print"]
Debug(i)    == [Work(i) EXCEPT !.op = "debug"]
LabelLine(l) == At(LabelDef(l), 0)
Jump(l)     == [At(Br(l), 0) EXCEPT !.then = l]
\* br i1: to "then" exactly if what item i says is as "when" has it.
Check(i, when, pass, fail) ==
    [At(CondBr({}, pass, fail), i) EXCEPT !.then = pass, !.when = when]
\* ret i32 0, ret i32 1, or what the statement at i computes.
ReturnStmt(val, i) == [At(Ret({}), i) EXCEPT !.val = val]

StmtLines(kind, i) == IF kind = "return" THEN <<Work(i), ReturnStmt("value", i)>> ELSE <<Work(i)>>

\* expect-eq, expect-true and expect-false; only the last compiles its debug block.
ExpectLines(item, i, l) ==
    <<Work(i), Check(i, TRUE, l, l + 1), LabelLine(l + 1), Report(i)>>
    \o (IF item.kind = "false" /\ item.debug THEN <<Debug(i)>> ELSE <<>>)
    \o <<ReturnStmt("one", i), LabelLine(l)>>

\* expect-ne opens the pass block twice, and jumps to a block it never opens.
\* Two strings are compared for being equal, and the answer is taken as it is.
ExpectNeLines(item, i, l) ==
    <<Work(i), Check(i, item.kind = "ne", l, l + 1), LabelLine(l), Jump(l + 2),
      LabelLine(l + 1), Report(i), ReturnStmt("one", i), LabelLine(l)>>

IsNe(kind)     == kind \in {"ne", "ne-string"}
Desugared_Bug(item, i, l) == SelectSeq(ExpectLines(item, i, l), LAMBDA ln : ln.op # "ret")
Desugared(item, i, l) ==
    IF IsNe(item.kind) THEN ExpectNeLines(item, i, l) ELSE ExpectLines(item, i, l)
LabelsTaken(kind) == IF IsNe(kind) THEN 3 ELSE 2

\* A report that is written for the first expectation of a test only.
Reported_Bug(item, i, l) ==
    IF i = 1 THEN Desugared(item, i, l)
    ELSE SelectSeq(Desugared(item, i, l), LAMBDA ln : ln.op # "print")
Reported(item, i, l) == Desugared(item, i, l)

-----------------------------------------------------------------------------
NoTest == [name |-> "", tags |-> {}, has |-> {}, items |-> <<>>, part |-> "none", before |-> 0]

Items == [kind : shape.kinds, debug : BOOLEAN]

TestsInit ==
    /\ shape \in Shapes
    /\ runTests \in BOOLEAN
    /\ selected \in [names : SUBSET shape.names, tags : SUBSET shape.tags]
    /\ (~runTests => selected = [names |-> {}, tags |-> {}])
    /\ forms = <<>> /\ defined = <<>> /\ stage = "forms"
    /\ pos = [form |-> 1, section |-> 1, item |-> 1]
    /\ test = NoTest /\ code = <<>> /\ nlabel = 0 /\ sawExpect = FALSE /\ carried = 0
    /\ funcs = <<>> /\ wanted = {} /\ calls = <<>>

\* emit_fn_forms_in, emit_fn_form: the entry is left out when main is generated.
FnFormNames_Bug(kind) == IF kind = "fn" THEN <<<<"fn", Len(forms) + 1>>>> ELSE <<<<"main">>>>
FnFormNames(kind) ==
    IF kind = "fn" THEN <<<<"fn", Len(forms) + 1>>>>
    ELSE IF runTests THEN <<>> ELSE <<<<"main">>>>

EmitFnForm(kind) ==
    /\ stage = "forms" /\ Len(forms) < shape.forms
    /\ kind = "entry" => \A i \in 1..Len(forms) : forms[i] # "entry"
    /\ forms' = Append(forms, kind)
    /\ defined' = defined \o FnFormNames(kind)
    /\ UNCHANGED <<shape, runTests, selected, stage, pos, test, code, nlabel, sawExpect, carried, funcs, wanted, calls>>

\* compile_to_llvm_ir: the tests come after every function, or not at all.
FormsEmitted ==
    /\ stage = "forms" /\ forms # <<>>
    /\ stage' = IF runTests THEN "tests" ELSE "done"
    /\ UNCHANGED <<shape, runTests, selected, forms, defined, pos, test, code, nlabel, sawExpect, carried, funcs, wanted, calls>>

AtItem ==
    /\ stage = "tests"
    /\ pos.form <= Len(forms) /\ forms[pos.form] = "fn"
    /\ pos.item <= shape.tests

\* An item of a section that is not a test.
SkipItem ==
    /\ AtItem
    /\ pos' = [pos EXCEPT !.item = @ + 1]
    /\ UNCHANGED <<shape, runTests, selected, forms, defined, stage, test, code, nlabel, sawExpect, carried, funcs, wanted, calls>>

NextSection ==
    /\ stage = "tests" /\ pos.form <= Len(forms)
    /\ pos.item > 1 /\ pos.section < shape.sections
    /\ pos' = [pos EXCEPT !.section = @ + 1, !.item = 1]
    /\ UNCHANGED <<shape, runTests, selected, forms, defined, stage, test, code, nlabel, sawExpect, carried, funcs, wanted, calls>>

NextForm ==
    /\ stage = "tests" /\ pos.form <= Len(forms)
    /\ pos' = [form |-> pos.form + 1, section |-> 1, item |-> 1]
    /\ UNCHANGED <<shape, runTests, selected, forms, defined, stage, test, code, nlabel, sawExpect, carried, funcs, wanted, calls>>

\* test_matches_filters: no filter at all, the name, or one of the tags.
Matches_Bug(name, tags) == name \in selected.names \/ tags \cap selected.tags # {}
Matches(name, tags) ==
    \/ selected.names = {} /\ selected.tags = {}
    \/ name \in selected.names
    \/ tags \cap selected.tags # {}

\* What the documented selection asks for, whatever the code makes of it.
Asked(name, tags) ==
    (selected.names \cup selected.tags # {}) =>
        name \in selected.names \/ \E g \in tags : g \in selected.tags

SawAtStart_Bug == sawExpect
SawAtStart == FALSE

FilterTest(name, tags) ==
    /\ AtItem /\ ~Matches(name, tags)
    /\ pos' = [pos EXCEPT !.item = @ + 1]
    /\ wanted' = IF Asked(name, tags) THEN wanted \cup {pos} ELSE wanted
    /\ UNCHANGED <<shape, runTests, selected, forms, defined, stage, test, code, nlabel, sawExpect, carried, funcs, calls>>

\* The test's blocks are looked up before anything is written; expectations that stand
\* beside the blocks are not among what is looked up.
OpenTest(name, tags, has) ==
    /\ AtItem /\ Matches(name, tags)
    /\ test' = [NoTest EXCEPT !.name = name, !.tags = tags, !.has = has]
    /\ wanted' = IF Asked(name, tags) THEN wanted \cup {pos} ELSE wanted
    /\ code' = <<>> /\ carried' = 0 /\ sawExpect' = SawAtStart
    /\ stage' = "setup"
    /\ UNCHANGED <<shape, runTests, selected, forms, defined, pos, nlabel, funcs, calls>>

Written == FoldFunction(LAMBDA f, n : Len(f.items) + n, Len(test.items), funcs)
Here    == Len(test.items) + 1

Room == Written < shape.items
Add(item) == [test EXCEPT !.items = Append(@, item)]

\* An expectation of the program that no block holds: read by nothing.
StrayExpect(item) ==
    /\ stage = "setup" /\ "stray" \in test.has /\ Room
    /\ item.kind \in ExpectKinds /\ ~item.debug
    /\ \A i \in 1..Len(test.items) : test.items[i].kind = "stray"
    /\ test' = Add([item EXCEPT !.kind = "stray"])
    /\ UNCHANGED <<shape, runTests, selected, forms, defined, stage, pos, code, nlabel, sawExpect, carried, funcs, wanted, calls>>

\* last_expr, has_last: only a statement that left a value, and not one of the setup.
LastWith_Bug(kind) == IF stage # "setup" THEN Here ELSE carried
LastWith(kind) == IF kind = "value" /\ stage # "setup" THEN Here ELSE carried

\* A statement of a block; a return ends the loop over the block.
Statement(item) ==
    /\ \/ stage = "setup" /\ "setup" \in test.has
       \/ stage \in {"inspect", "body"}
    /\ Room
    /\ item.kind \in StmtKinds /\ ~item.debug
    /\ test' = Add(item)
    /\ code' = code \o StmtLines(item.kind, Here)
    /\ carried' = LastWith(item.kind)
    /\ stage' = IF item.kind # "return" THEN stage
                ELSE IF stage = "setup" THEN "rest" ELSE "returned"
    /\ UNCHANGED <<shape, runTests, selected, forms, defined, pos, nlabel, sawExpect, funcs, wanted, calls>>

Expect(item) ==
    /\ stage \in {"inspect", "body"} /\ Room
    /\ item.kind \in ExpectKinds
    /\ test' = Add(item)
    /\ code' = code \o Reported(item, Here, nlabel)
    /\ nlabel' = nlabel + LabelsTaken(item.kind)
    /\ sawExpect' = TRUE
    /\ UNCHANGED <<shape, runTests, selected, forms, defined, stage, pos, carried, funcs, wanted, calls>>

\* The inspect block when there is one, else the body, else neither.
AfterSetup ==
    /\ stage = "setup"
    /\ stage' = IF "inspect" \in test.has THEN "inspect"
                ELSE IF "body" \in test.has THEN "body" ELSE "rest"
    /\ test' = [test EXCEPT !.part = stage', !.before = Len(test.items)]
    /\ UNCHANGED <<shape, runTests, selected, forms, defined, pos, code, nlabel, sawExpect, carried, funcs, wanted, calls>>

-----------------------------------------------------------------------------
\* How a body that did not return ends: with 0 when it had an expectation, otherwise
\* with its last value when it had one.
BodyEnd_Bug == IF carried # 0 THEN ReturnStmt("value", carried) ELSE ReturnStmt("zero", 0)
BodyEnd ==
    IF ~sawExpect /\ carried # 0 THEN ReturnStmt("value", carried) ELSE ReturnStmt("zero", 0)

\* Nothing is written after an inspect block, nor after a block that returned; a return
\* of the setup takes the branch of a test without blocks.
Ending ==
    IF stage = "body" THEN <<BodyEnd>>
    ELSE IF stage = "rest" THEN <<ReturnStmt("zero", 0)>> ELSE <<>>

FuncName == <<"test", pos.form, pos.item - 1>>

CloseTest ==
    /\ stage \in {"inspect", "body", "returned", "rest"}
    /\ funcs' = Append(funcs, [name |-> FuncName, pos |-> pos, items |-> test.items, part |-> test.part,
                               before |-> test.before, code |-> code \o Ending])
    /\ defined' = Append(defined, FuncName)
    /\ pos' = [pos EXCEPT !.item = @ + 1]
    /\ stage' = "tests" /\ test' = NoTest /\ code' = <<>> /\ carried' = 0
    /\ UNCHANGED <<shape, runTests, selected, forms, nlabel, sawExpect, wanted, calls>>

\* emit_tests_main, one iteration per test function.
TestsEmitted ==
    /\ stage = "tests" /\ pos.form > Len(forms)
    /\ stage' = "main"
    /\ defined' = Append(defined, <<"main">>)
    /\ UNCHANGED <<shape, runTests, selected, forms, pos, test, code, nlabel, sawExpect, carried, funcs, wanted, calls>>

CallTest ==
    /\ stage = "main" /\ Len(calls) < Len(funcs)
    /\ calls' = Append(calls, funcs[Len(calls) + 1].name)
    /\ UNCHANGED <<shape, runTests, selected, forms, defined, stage, pos, test, code, nlabel, sawExpect, carried, funcs, wanted>>

EndMain ==
    /\ stage = "main" /\ Len(calls) = Len(funcs)
    /\ stage' = "done"
    /\ UNCHANGED <<shape, runTests, selected, forms, defined, pos, test, code, nlabel, sawExpect, carried, funcs, wanted, calls>>

TestsNext ==
    \/ \E kind \in {"fn", "entry"} : EmitFnForm(kind)
    \/ FormsEmitted
    \/ SkipItem
    \/ NextSection
    \/ NextForm
    \/ \E name \in shape.names, tags \in SUBSET shape.tags : FilterTest(name, tags)
    \/ \E name \in shape.names, tags \in SUBSET shape.tags, has \in SUBSET shape.blocks : OpenTest(name, tags, has)
    \/ \E item \in Items : StrayExpect(item) \/ Statement(item) \/ Expect(item)
    \/ AfterSetup
    \/ CloseTest
    \/ TestsEmitted
    \/ CallTest
    \/ EndMain

TestsSpec == TestsInit /\ [][TestsNext]_testVars

-----------------------------------------------------------------------------
(* Running a test function. "agrees" says of every item what it will be:   *)
(* of an expectation, whether it holds; of a statement's value, whether it *)
(* is zero.                                                                *)

Accepted(text) ==
    /\ UniqueLabels(text) /\ BlocksClosed(text) /\ EndsInTerminator(text)
    /\ Targets(text) \subseteq Labels(text)

LineOf(text, l) == CHOOSE i \in DOMAIN text : text[i].op = "label" /\ text[i].to = {l}

\* Every jump is forward. The outcome: what is returned, and the items whose report
\* and whose debug block ran on the way. From a line on it is what the line does before
\* the lines it leads to.
Outcome(text, agrees, From, i) ==
    LET ln   == text[i]
        goto == IF ln.at = 0 \/ ln.when = agrees[ln.at] THEN ln.then
                ELSE CHOOSE l \in ln.to : l # ln.then
    IN CASE ln.op = "ret"   -> [zero |-> ln.val = "zero" \/ (ln.val = "value" /\ agrees[ln.at]),
                                shown |-> {}, debugged |-> {}]
         [] ln.op = "br"    -> From[LineOf(text, goto)]
         [] ln.op = "print" -> [From[i + 1] EXCEPT !.shown = @ \cup {ln.at}]
         [] ln.op = "debug" -> [From[i + 1] EXCEPT !.debugged = @ \cup {ln.at}]
         [] OTHER           -> From[i + 1]
Outcomes(text, agrees) == LET From[i \in 1..Len(text)] == Outcome(text, agrees, From, i) IN From
Execute(text, agrees)  == Outcomes(text, agrees)[1]

Futures(f)   == [1..Len(f.items) -> BOOLEAN]
Strays(f)    == {i \in 1..Len(f.items) : f.items[i].kind = "stray"}
Expects(f)   == {i \in 1..Len(f.items) : f.items[i].kind \in ExpectKinds}
ReturnsAt(f) == {i \in 1..Len(f.items) : f.items[i].kind = "return"}
\* The values a block leaves: those of the setup are not kept, those of an inspect block
\* never read.
BlockValues(f) == {i \in f.before + 1..Len(f.items) : f.items[i].kind = "value"}
BodyValues(f)  == IF f.part = "body" THEN BlockValues(f) ELSE {}
Failing(f, agrees) == {i \in Expects(f) : ~agrees[i]}

\* The texts LLVM refuses: an inspect block that ends without a return, and expect-ne.
Refused(f) ==
    \/ f.part = "inspect" /\ ReturnsAt(f) = {}
    \/ \E i \in Expects(f) : IsNe(f.items[i].kind)

Compiled == {i \in 1..Len(funcs) : ~Refused(funcs[i])}

-----------------------------------------------------------------------------
\* Every variable is in its range; has_last stands for a value that a statement of this
\* test left, the main never calls more than was compiled, and nothing is compiled as a
\* test when tests are not asked for.
TestsTypeOK ==
    /\ shape \in Shapes /\ runTests \in BOOLEAN /\ sawExpect \in BOOLEAN /\ nlabel \in Nat
    /\ stage \in {"forms", "tests", "setup", "inspect", "body", "rest", "returned", "main", "done"}
    /\ pos.form \in 1..shape.forms + 1 /\ pos.section \in 1..shape.sections /\ pos.item \in 1..shape.tests + 1
    /\ test.part \in AllBlocks \cup {"none", "rest"}
    /\ test.items \in Seq([kind : shape.kinds \cup {"stray"}, debug : BOOLEAN])
    /\ carried # 0 => carried \in BlockValues(test)
    /\ Len(calls) <= Len(funcs)
    /\ funcs # <<>> => runTests

\* The text of a test is well formed - every block opened once, closed before the next
\* one opens, and every branch lands - except exactly in the two cases of Refused
\* (emit_tests_for_fn and try_desugar_expect write labels, branches and returns by hand).
WellFormedText == \A i \in 1..Len(funcs) : Accepted(funcs[i].code) <=> ~Refused(funcs[i])

\* A test with expectations returns 1 as soon as one fails and 0 when all hold, unless a
\* statement of it returned before, whatever statements stand between them or what values
\* those leave (program.c:936-966). Tests with expectations beside the blocks are left to
\* FailuresTold.
ExpectationsDecide ==
    \A i \in Compiled : LET f == funcs[i] IN
        Strays(f) = {} /\ Expects(f) # {} => \A agrees \in Futures(f) :
            Execute(f.code, agrees).zero =
                (Failing(f, agrees) = {} /\ \A r \in ReturnsAt(f) : agrees[r])

\* A test without expectations returns what it returns, else the last value of its body,
\* else 0; what the tests compiled before it contained does not matter (ir->saw_expect
\* is shared by all of them).
ValueDecides ==
    \A i \in Compiled : LET f == funcs[i] IN
        Strays(f) = {} /\ Expects(f) = {} => \A agrees \in Futures(f) :
            Execute(f.code, agrees).zero =
                IF ReturnsAt(f) # {} THEN \A r \in ReturnsAt(f) : agrees[r]
                ELSE BodyValues(f) # {} => agrees[Max(BodyValues(f))]

\* What is reported when a test runs is the first expectation that fails, that one alone,
\* and nothing when none does (the branch, the printf and the ret of program.c:568-619);
\* no debug block runs but that of this one, and of an expect-false it does. The debug
\* blocks of other expectations are left to FailuresTold, too.
FirstFailureShown ==
    \A i \in Compiled : LET f == funcs[i] IN
        Strays(f) = {} => \A agrees \in Futures(f) :
            LET first  == IF Failing(f, agrees) = {} THEN {} ELSE {Min(Failing(f, agrees))}
                blocks == {k \in first : f.items[k].debug}
                run    == Execute(f.code, agrees)
            IN /\ run.shown = first
               /\ {k \in blocks : f.items[k].kind = "false"} \subseteq run.debugged
               /\ run.debugged \subseteq blocks

\* What a test answers and reports is what its expectations and values say, and nothing
\* else in the program (program.c:518-622, 927-974).
TestsReport == ExpectationsDecide /\ ValueDecides /\ FirstFailureShown

\* The text defines no function twice: the entry and the generated main never meet, and
\* two tests share a name only when one function has two (tests ...) sections, because
\* the number in the name starts again (program.c:841-894).
NamesOnce ==
    \A i, j \in 1..Len(defined) : i # j /\ defined[i] = defined[j] =>
        \E f, g \in 1..Len(funcs) :
            /\ funcs[f].name = defined[i] /\ funcs[g].name = defined[j]
            /\ funcs[f].pos.section # funcs[g].pos.section

\* When main is complete it calls every test the selection asks for once, in the order of
\* the program, and no other, whatever else the sections hold (program.c:846-891, 1009-1046).
EachTestOnce ==
    stage = "done" /\ runTests =>
        /\ calls = [i \in 1..Len(funcs) |-> funcs[i].name]
        /\ {funcs[i].pos : i \in 1..Len(funcs)} = wanted
        /\ \A i, j \in 1..Len(funcs) : i < j =>
              \/ funcs[i].pos.form < funcs[j].pos.form
              \/ /\ funcs[i].pos.form = funcs[j].pos.form
                 /\ \/ funcs[i].pos.section < funcs[j].pos.section
                    \/ /\ funcs[i].pos.section = funcs[j].pos.section
                       /\ funcs[i].pos.item < funcs[j].pos.item

\* Each selected test is one function, and is called once (program.c:483-514, 841-1058).
RunsEachTest == NamesOnce /\ EachTestOnce

-----------------------------------------------------------------------------
(* What docs/weave_embedded_testing_memo.md says of a test, and the code   *)
(* does not do.                                                            *)

\* "If the condition holds, continue (or return success if it is the last expectation)":
\* a test whose expectations hold and which does not return of itself ends with 0.
HoldingPasses ==
    \A i \in 1..Len(funcs) : LET f == funcs[i] IN
        Expects(f) # {} /\ ReturnsAt(f) = {} =>
            Accepted(f.code) /\ Execute(f.code, [k \in 1..Len(f.items) |-> TRUE]).zero

\* "If the condition fails: Print a standardised failure message", "Return a non-zero status
\* code for the test", "no test ever fails silently", and a debug block "is executed":
\* wherever the memo lets an expectation stand. The code reads no expectation beside the
\* blocks, and of debug blocks only those of expect-false.
FailuresTold ==
    \A i \in Compiled : LET f == funcs[i] IN
        ReturnsAt(f) = {} => \A agrees \in Futures(f) :
            LET failing == {k \in Expects(f) \cup Strays(f) : ~agrees[k]}
                run     == Execute(f.code, agrees)
            IN failing # {} => /\ ~run.zero
                               /\ \E k \in failing : k \in run.shown /\ (f.items[k].debug => k \in run.debugged)

=============================================================================
