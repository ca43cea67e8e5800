# weave-bootstrap in TLA+

Specifications of the Weave bootstrap compiler kept beside its source: TLA+
modules, TLC configurations that check them on small instances, and theorems
checked by the TLA+ proof system. Paths below are relative to the repository.

## 1. The system

Weave is a small Lisp-like language that is compiled to textual LLVM IR. The
repository bootstraps its compiler in stages.

* **stage0** (`stage0/`, C, about 5800 lines) is the seed compiler `weavec0`.
* **stage1** (`stage1/`, Weave, about 14000 lines) is the compiler written in
  its own language and compiled by `weavec0`.
* **stage2** (`stage2/`) compiles stage1 with itself and compares.

A compilation is one sequential process. What makes it hard is not concurrency
but depth: functions that recurse over the program while they append to one
output text, draw numbers from shared counters and hold half-finished values.

### Inventory

| component | state | operations | what makes it correct |
|---|---|---|---|
| driver, `main.c` | options, paths, temporary files | parse options, read, merge, compile, hand to LLVM or clang | one output per mode; temporary files removed on every exit |
| include merging, `fs.c` | syntax tree being extended in place, list of canonical file names | `merge_includes`, `merge_file_into`, `resolve_include_path` | each file merged once, every include resolved against its own file's directory, termination on cycles |
| lexer and parser, `lexer.c`, `sexpr.c` | position, line, column; tree of nodes | `lexer_next`, `parse_top` | every token belongs to one node, locations are right |
| buffers, `common.c` | capacity, length, data | `sb_append`, `sl_push` | length below capacity, old contents kept |
| types, `types.c`, `type_env.c` | aliases, structs | `type_env_add_alias`, `type_env_add_struct`, `parse_type_node` | a name means the same type wherever it is used |
| functions, `fn_table.c`, `program.c` | signatures | `collect_signatures`, `fn_table_add` | a call is compiled against the callee's real signature |
| environment, `env.c` | names, types, register names, oldest first | `env_add`, `env_find` | newest entry wins, every entry has its own register |
| counters and text, `ir.c`, `value.c` | `temp`, `label`, output text | `ir_fresh_temp`, `ir_fresh_label`, emit | no number handed out twice |
| statements, `stmt.c` | C activations: labels, flags | `cg_stmt` | well-formed control flow, honest return flag |
| expressions, `expr.c`, `builtins.c`, `cgutils.c` | C activations: operands held in temporaries | `cg_expr`, `ensure_type_ctx_at` | operands valid where used, conversions counted |
| functions and tests, `program.c` | last value, did-return flag, list of test functions | `compile_fn_form`, `emit_tests_for_fn`, `emit_tests_main` | every function ends, every test is run and can fail |
| LLVM back end, `llvm_compile.c`, `llvm_jit*` | LLVM module, target machine | parse IR, run passes, emit, link | every LLVM object disposed once |
| stage1 include expansion | visited list, output text | `include_expand.weave` | as stage0, on text |
| stage1 tokenizer, parser, type checker, lowering, IR | arena, arrays, string tables | `stage1/src/**` | as stage0, checked types |

### How the parts interact

`main` reads the input, `parse_top` builds the tree, `merge_includes` appends
the forms of included files to it. `compile_to_llvm_ir` walks the tree several
times: types, signatures, structs, functions, tests. `compile_fn_form` fills a
fresh environment with the parameters and calls `cg_stmt` for each item of the
body; `cg_stmt` and `cg_expr` call each other, all of them append to `ir->out`
and take numbers from `ir->temp` and `ir->label`. A statement reports back
whether it returned (its C result) and the value it left (`out_last`); callers
decide from the flag what to emit next.

### Hard behaviours

* The return flag is passed up through blocks, branches, loops and lists, and
  each of them treats it differently (`stmt.c:185-283`, `expr.c:717-741`,
  `program.c:256-283`).
* Statements occur inside expressions (`block`), so a `ret` may be emitted while
  operands, conditions and arguments are half evaluated.
* The environment is shared and never shrinks, and a name may be registered again.
* Counters are taken before, between and after nested compilation.
* `merge_includes_in_list` iterates over a list that the merge is extending.

* A parallel build or `ctest -j` runs several compilers at once (each of the hundreds
  of tests starts one), which share `/tmp` and name their temporary files after process
  numbers that are used again.

There are no threads and no crash recovery: a diagnostic exits the process.

## 2. Modules

| module | models | role |
|---|---|---|
| `IRText` | the emitted text | a line is the registers it defines and reads and the labels it names; LLVM's rules on such a text |
| `Codegen` | `stmt.c`, `expr.c`, `compile_fn_form`, `env.c`, `ir.c` | one function compiled, one action per step of the recursion |
| `IncludeMerge` | `fs.c` 97-225 | the walk that merges included files |
| `IncludeClosure` | | what that walk promises |
| `IncludeExpand` | `stage1/src/include_expand.weave` | weavec1's walk, which copies and knows files by their spelling |
| `MCIncludes` | | files and texts for TLC, for the two walks one after the other |
| `Program` | `program.c` 1-470, 1060-1246, `types.c`, `type_env.c`, `fn_table.c`, `expr.c`, `stmt.c` | the passes over the declarations, and the forms that depend on the tables they fill |
| `MCProgram` | | programs and forms for TLC, and programs with tests for `EmbeddedTests` |
| `Buffers` | `common.c`, the array in `sexpr.c` | capacities of finite width, in a size_t and in an int |
| `Reader` | `lexer.c`, `sexpr.c` | text to tree, one character at a step |
| `MCReader` | | the texts for TLC |
| `Options` | `main.c` 23-224 | the command line, read by four loops |
| `EmbeddedTests` | `program.c` 469-1058 | `-generate-tests`: tests become functions, expectations branches, and main calls them |
| `Driver` | `main.c` 190-420 | several compilations of a parallel build: output, temporary file, child, exit status |
| `Backend` | `llvm_compile*.c`, `llvm_jit*` | the calls into LLVM: who owns what, what the caller is told |
| `MCMain` | `main.c` as a whole | composes `Options`, `Driver` and `Backend` |
| `IRFlow` | nothing of the code | reachability and dominance on the finished text |
| `MCCodegen` | | instances for TLC |
| `CodegenProofs` | | theorems about `Codegen`: types, and the text: blocks, return flag, registers, dominance |
| `EmbeddedTestsProofs` | | theorems about `EmbeddedTests`: the functions' text, what they answer, which are called |
| `MainProofs` | | theorems about `Driver` and `Options`, the two parts of `main.c` |
| `BackendProofs` | | theorems about `Backend` |
| `IncludeMergeProofs`, `IncludeExpandProofs` | | theorems about the two walks, their refinement of `IncludeClosure` among them |
| `ProgramProofs` | | theorems about `Program`: the tables and the text of its passes |
| `ReaderProofs` | | theorems about `Reader` and `Buffers` |

A compilation goes through `Options`, `Reader` (in `Buffers`), `IncludeMerge`, `Program`
and `Codegen` or `EmbeddedTests`, then `Driver` and, in the build for LLVM, `Backend`.
`Reader` extends `Buffers`; both include walks are shown to implement `IncludeClosure`;
`Codegen` and `EmbeddedTests` share `IRText`. `MCMain` composes the three parts of
`main.c`: one process of `Driver` reads the words of `Options`, which decide what it is
asked for, and the process built for LLVM makes its object by the calls of `Backend`. The
other parts meet only through what one hands to the next, and there each module takes
whatever the one before may hand on: any tree, any mode, any text. `MCIncludes` and
`MCProgram` each put two such parts side by side, so that one run checks both; neither
part takes a step of the other's.

### Codegen

The C recursion is made explicit. A frame of `stack` is an activation of
`cg_stmt`, of `cg_expr` or of a loop over a list, `form` says where in its code
it waits, `lab`, `ret`, `vals` are its C locals (first label, `then_ret`,
evaluated operands or `nested_last`). `ctl` says what happens next: a call into
a statement (`stmt`), an expression (`expr`), a list known to be an expression
(`list`), the next item of a list (`items`, and `item` inside a block), or the
result of a call (`did` with the flag and `out_last`, `val` with the value),
or the end (`done`, or `fatal` for `diag_fatal`).

The syntax tree is not an input: it is chosen while it is compiled. Whenever the
code asks what the next node is, any form that fits may answer, so a behaviour is
the compilation of one program and TLC explores all programs up to `MaxNodes`
nodes and `MaxDepth` activations. Atoms and empty lists are always available, so
that every program can be completed. Texts of constants, opcodes and types are
left out of the lines; what is kept decides the properties: registers defined and
used, labels, terminators, types of values as far as conversions depend on them.

`set-field`, `make`, `ccall` and `llvm-jit` branch nowhere and are in `Program` only,
with the types they write and without registers. Not in either: the check that a function
has `(tests ...)`.

Two parameters of one name are a program the compiler takes: `env_ssa_name` answers for
both with the newest entry, so the header writes one alloca twice (`ParamSlot`).
`RegistersSound` excepts those two lines and nothing else.

### IncludeMerge

The syntax tree is a list of forms that `merge_includes_in_list` walks while
`merge_file_into` appends to it. `Files` and `Texts` (what each file may hold) are
constants chosen in `MCIncludes`: includes in every direction, a module, a
link to a file under another name, equal names in two directories. `stack` holds
the activations: for each the list it walks, the index it is at and the
directory (`cur_dir`) includes are resolved against. One action per outcome of
an iteration: not an include, a module, an include that is missing, known or
new; `EndFile` hands a merged file's forms on. Reading and parsing a file is one
step, which succeeds: that `main` also exits over a file that cannot be read or parsed,
and that a path unknown to `realpath` is kept as it is spelled, is not in the module.
`IncludeClosure` is the abstract specification: some include asked for
is merged, once, until none is left; `ImplementsClosure` says the walk does that.

Included files go by the canonical names `realpath` gives (`Files`), the input
by the path it was given (`Input`): its includes are resolved in the directory
of that path (`compute_base_dir`, `main.c:63`), which may be another than that of
its canonical name `Main`, and then the two copies of a file that includes
itself ask for different files.

Two things are easy to miss in the code: appended forms are visited again by the outer
walk, for the outer directory, which does no harm because a visited include was
blanked (`OwnDirectory`); and the input file is not in the list of included
files, so a file that includes the input merges it a second time.

### EmbeddedTests

The program is again chosen while it is compiled: first its top-level forms
(modules flattened), then, for every function, sections, items and blocks.
`test` is what `emit_tests_for_fn` has read of the test at hand, `code` its text,
`stage` the loop it is in. Lines know the item they stand for. A statement enters
by what `Codegen` shows of statements: it returns, leaves a value, or neither.
`Execute` runs a finished test under every choice of which expectations hold
and which values are zero, and the properties compare its outcome with what
the test says.

Two kinds of text are refused by LLVM (`Refused`): those with `expect-ne`, and
those whose inspect block does not return. `WellFormedText` says these are all. An
expectation beside the blocks (`Strays`) is read by nobody; `TestsReport` says nothing of
tests that have one, nor of debug blocks other than `expect-false`'s, `FailuresTold` says
what the memo says of them.
Not in the module: a block given twice (the last one counts), a debug block
that returns, expectations in a setup (compiled as calls of an unknown function).

### Driver

Every element of `Procs` is one `weavec0`. `pc` is where `main` is, `mode` what it
was asked for, `pid` its number, `child` the clang it forked, `status` how it ended,
`disk` what each output and each `/tmp/weavec_<pid>` holds: whose text, and whether
all of it. One action per step of `main`: compile or die, open and write the text
(two steps, since `fopen` empties the file), emit an object, fork, wait. `UseLLVM`
chooses between the two builds of the program, which differ in what goes through
the temporary file and in which exits remove it. Each step may fail as the code
lets it fail; `WriteText` may cut the text short without anybody noticing, because
the results of `fwrite` and `fclose` are not looked at.

External to the code: the child reads the temporary file and writes the output, any
process may be killed and leaves its child running, and the number of a process that
is gone may be given to a new one. `fault` is a record of the model alone: something
this compilation depends on failed. Not in the module: the options (`Options`), the
statistics, a temporary file that somebody else put there, and two compilations
given the same output, which nothing in the code prevents.

### Program

`phase` is the pass `compile_to_llvm_ir` is in and `at` the declaration it has come to:
`CollectType`, `CollectSignature` and `OpenFn` each take one. `aliases`, `structs` and
`fns` are the tables, overwritten when a name comes again. The program is a constant's
element (types before or after their use, declared twice); the forms of its bodies are
chosen while they are compiled. Each form is one step: operands, checks, lines, value.
Control flow and registers are left to `Codegen`: an operand is its type, and a line holds
the types it writes beside those its operands have, so that the properties can compare the
two. `it` is the value of the last form, which the next may take as an operand
(it is nested) or leave as a statement's value (`last`, what an implicit return takes).

Four things are states of the model because the code allows them: `fatal`
(`diag_fatal`), `crashed` (`strcmp` on the missing name of a struct, `stmt.c:82`), a
definition written twice, and the operands in `Unchecked`, which no code converts. The
compiler's own types have names in parentheses (`Bases`), which no atom of a program is.

### Reader and Buffers

One step reads one character; `mode` is the loop of the lexer (blanks, comment, atom,
string, after a backslash). The recursion of `parse_list` holds nothing but the lists that
are open, so `open` is its stack. Characters stand for their class. A node remembers the
positions it was read from, which only the properties use. `Buffers` gives a capacity
`Width` bits: doubling wraps at the end of the address space, where `sb_reserve` loops for
ever (`Hangs`). The array of a list counts its capacity in an int of `IntWidth` bits, asks
for that many pointers of `PointerBytes` bytes each and knows its `room`, the bytes it was
given. Doubling the int may overflow, which C leaves undefined: a compiler may wrap it and
pass the sign-extended product on, or compute the bytes from a value that never was an
int, and `Arrays` has both. Of a request, malloc may refuse any (`OutOfMemory`, `die`).
When an item is written beyond its array the reader stops in `Overrun`, since nothing is
known of what follows; there and in `sb_reserve` the limits are properties
(`OverrunsAtLimit`, `HangsAtLimit`). `BuffersAssumption` says how the widths fit: a size_t
holds the bytes of as many pointers as an unsigned int counts, true of every platform the
compiler is built for.

The node of the whole program has no position (`parse_top` sets none), so line and column
0, and is not among those of `PositionsRight`.

The properties say what the tree is without following the reader: a string's text by its
backslashes (`IsEscaped`, `Says`), a comment by a semicolon with no leaf or parenthesis
behind it on its line (`TextTiled`), nesting by the positions nodes span (`Around`), and
the accepted language by a scanner that knows nothing of tokens or trees (`Scan`).

### Options

`main` lets `get_arg_value` look for the input and the output over all words, then
decides word by word, then `parse_include_dirs` reads all words again; no
reading knows what another made of a word. `Separate`, `Attached`, `ModeWords`, `Flags`, `Positional` classify the words; two spellings of
one option stand for its others.

### Backend

`where` is how far a call is, `vars_` which variables of `llvm_compile_ir_to_object_asan` are
not NULL, `live` what LLVM holds, `twice` what was disposed of when it was not live. What a
call into LLVM takes over or frees on failure is external, modelled from LLVM's documented
ownership. `llvm_jit_compile_and_lookup` disposes of the session before it returns the
address it found; `JitCall` is the call through that address, which may crash then. That
the address is cut to 32 bits on its way to a program (`llvm_jit_helper.c:24`) is left out.

### MCMain

`Options` runs first, then `Build`: one process goes on with the mode its words have given,
the others may have read any. Where `Driver` emits an object the step is taken by the calls
of `Backend`, and their result decides between `EmitObject` and `EmitFails`. A Weave program
that calls the back end through `ccall` is a process of its own. `Followed` bounds which
command lines are followed past the reading: what happens then depends on the mode alone.

### IncludeExpand

As in `IncludeMerge` an activation is an element of a stack (`nest`); here it walks a file of its own
and copies into `out`. A path is a sequence of names, joined to the directory of the
including file and never made canonical, so `visited` holds spellings: a file
reached by two of them is expanded twice, and one that includes itself by a longer path
only ends because the system refuses long paths (`MaxPath`). An include of nothing is kept
as it is and remembered. A file without text is looked for in two more places, one of
comments only is found (`Readable`). `dirname` of a file in the root directory is empty,
and its includes stay as they are (`Dir`, `ResolvePath`). The refinement takes paths for
files.

## 3. Runs

Most properties are conjunctions of named parts, one part for each question; a part has a
mutation of its own, the `_Bug` operator that the property refutes.

| run | bounds | properties |
|---|---|---|
| `codegen` | 6 nodes, 4 activations; every form of statement and expression, two parameters of one name among the parameter lists | `TypeOK`, `BlocksWellFormed` (labels unique, branches land, no block runs on), `ReturnFlagSound`, `TempsDominate`, `NoTrap`, `RegistersSound` (each register assigned once, allocated before its use) |
| `codegen_get_field` | 5 nodes | counterexample, section 4 |
| `main` | all command lines of up to 4 of 13 words; then one compilation of each build, 2 process numbers; 4 calls of a Weave program, 2 levels | `AnswersDecided`, `TypeOK`, `OwnText`, `TempsRemoved`, `FailureHasCause`, `OwnershipSound`, `ResultTruthful`, `Ends` |
| `input_as_said` | command lines of up to 3 of 7 words | counterexample, section 4 |
| `backend_live` | 4 calls, 2 levels | counterexample, section 4 |
| `includes` | weavec0: 4 files with up to 2 items in a list; weavec1: 3 files under many spellings, paths of up to 6 names | `WalkSound` (includes resolved where they were written, no file entered twice), `FormsOnce`, `Terminates`, `ImplementsClosure`; `ExpansionSound`, `ExpandedOnce`, `ExpansionEnds`, `ExpandsClosure` |
| `include_duplicates` | as `includes` | counterexample, section 4 |
| `program` | up to three declarations, two forms out of 17; three shapes of program with tests: a test of three items, expectations beside its blocks among them; two tests of two items together; two functions, two sections, names and tags | `TypeOK`, `OperandsChecked`, `NamesDenote`, `DefinedOnce`, `CallsAgree`, `AssignmentsKept`; `TestsTypeOK`, `WellFormedText`, `TestsReport` (a test says what its expectations say), `RunsEachTest` (no name twice, every selected test once, in order) |
| `set_field_validated` | as `program` | counterexample, section 4 |
| `embedded_not_equal` | 1 test, 2 items | counterexample, section 4 |
| `embedded_failures` | 1 test, 2 items | counterexample, section 4 |
| `reader` | all texts of up to 5 characters, a string of 17, a list of 6 items; a size_t of 5 bits, an int of 3, a pointer of 2 bytes, first capacities 1 | `TypeOK`, `PositionsRight`, `TreeOfText`, `AcceptsBalanced`, `CapacityKept`, `Terminates` |

Why the bounds are enough.

* `Codegen`: six nodes hold two nested branching statements with a return in any of their
  branches and a statement after them; the properties relate at most two nested
  statements and what follows. Registers need depth less than they need forms.
* `EmbeddedTests`: a leak from one test into the next needs an expectation in the
  first and a value in the second; a value that competes with an expectation needs two
  items, three with a setup. `expect-eq` and `expect-true` write the same branch and
  stand for each other.
* The include walks: four files give a cycle of two, a file with two names, and equal
  names in two directories. For weavec1, one file that only the search in `stdlib` finds
  and one that is nowhere; spellings that grow by two names reach the bound on paths.
* `Driver`: two compilations on two numbers collide on every file they could share,
  one of each build so that both temporary files occur; the theorems of section 5 hold for
  any number.
* `Program`: a name used before it is declared, or declared twice, takes two declarations
  beside the function that uses it; two forms make one nested in, or after, the other, which is
  the only way a form sees another (a declared ccall, a variable, a value).
* `Reader`: five characters are an escape within a string, a comment within a list or a list
  within a list. Of the buffers, the string of 17 characters wraps the capacity of a
  five-bit size_t, which starts at one, and the list of six items that of a three-bit int:
  the endless loop and the write beyond an array both occur.
* `Options`: an option, its value and a word before and after it.
* `Backend`: nothing outlives a call but the targets' initialisation and a function that
  was found; four calls are two of each kind. A compilation makes one.

Deadlock is not checked where a finished state has no next one and the module does not
loop there: compilations that have ended, a line that asks for the usage, or the last call
(`main`), a program done or refused and the texts of its tests (`program`), a text read
(`reader`), both walks over (`includes`). In `codegen` it is.

Liveness. `IncludeMerge`, `IncludeExpand` and `Reader` assume weak fairness of `Next`: one
thread that never waits takes its next step as long as it has one, and `Terminates` is
about whether the steps run out. (`Reader` counts the endless loop of `sb_reserve` as an
end of its own, `hung`, and so does the write beyond an array; `CapacityKept` says which
texts get there.) `IncludeClosure` is a
safety specification; that a walk ends is each walk's own property. `Driver`, and `MCMain`
with it, assumes weak fairness of each process and of each child: the operating system runs a process that
can run, and clang comes to an end; a process that is never started, or killed, is not
asked for anything. `Codegen`, `Program` and `EmbeddedTests` end when the program ends,
which their environment chooses, and nothing is claimed of that; `Options` and the calls a
Weave program makes are loops over finite input.

## 4. Findings

Where a document or a comment of the repository says one thing and the code does another,
a run checks what it says and TLC shows how the code departs from it.

| run | property | what is said | what the code does |
|---|---|---|---|
| `codegen_get_field` | `GetFieldReads` | get-field emits a GEP and a load (`docs/coding_guidelines/syntax.md:236`) | it compiles to the constant 0: `cg_builtin` has a case for it (`builtins.c:153-155`) that returns a Value with a type, so `cg_expr` returns at `expr.c:781` and `cg_get_field` is unreachable |
| `set_field_validated` | `FieldsValidated` | set-field emits a GEP and a store, field names are validated at compile time (`syntax.md:237-238`) | an assignment to a field the struct does not have is dropped without a word (`stmt.c:84`) |
| `embedded_not_equal` | `HoldingPasses` | a test whose expectations hold succeeds (`docs/weave_embedded_testing_memo.md:69`) | `expect-ne` defines a label twice and jumps to one it never defines (`program.c:681-713`); an inspect block that ends with an expectation leaves the function without an end (`program.c:910-929`) |
| `embedded_failures` | `FailuresTold` | a failure is printed, makes the test return non-zero, is never silent, and its debug block is run (memo, 31, 64-78, 96) | an expectation beside the blocks, the memo's own example, is dropped (`program.c:866-886`); only `expect-false` compiles its debug block |
| `input_as_said` | `InputAsSaid` | "we accept -I dir ... and positional input" (`main.c:128`; `README.md:92` uses it) | the directory behind a separated `-I` is taken for the input as well, unless a later word gives one (`main.c:181`) |
| `backend_live` | `LiveWhenUsed` | `llvm_jit_compile_and_lookup` returns a function pointer (`llvm_compile.h:71-75`); the buffer is disposed of only when there is no module (`llvm_compile.c:248`) | the session that owns the code is disposed of before the function is called (`llvm_jit.cpp:136`, `llvm_jit_helper.c:51`); when the text does not parse, LLVM has freed the buffer that is disposed of then |
| `include_duplicates` | `NoDuplicates` | "visited guards duplicates" (`include_expand.weave:277`) | a file reached under two spellings is spliced in twice (`include_expand.weave:329`), where weavec0, which makes names canonical, merges it once |

The passing properties are silent on exactly these cases, and say so where they are.

In other places the code does what a reader may not expect, but no text of the repository
says otherwise. There the property that would be too strong names the exception:

* `Driver`: the build for clang leaves its temporary file behind when the fork fails, the
  build for LLVM when the object is opened and cannot be written (`TempsRemoved`), and a
  text cut short by a full disk is reported as a success (`OwnText`).
* `IncludeMerge`: an input that is included holds its forms twice (`FormsOnce`).
* `Codegen`: two parameters of one name have their alloca written twice (`RegistersSound`).
* `Program`: what `let`, `set`, `return` and `make` store, and the address that `load`,
  `store`, `ptr-add` and `set-field` go through, are written with the type the form names
  whatever the operand has, `make` among them for a field the struct does not have
  (`OperandsChecked`); an alias used before it is declared is taken for a struct
  (`NamesDenote`); a callee with an empty parameter has a signature that counts it and a
  header that does not (`CallsAgree`); a function the program calls through `ccall`
  as well, or that has the name of one of the run time's (`malloc`), is declared and
  defined, and so is the built-in `arena-create` after a `ccall` of it (`DefinedOnce`).
* `EmbeddedTests`: two sections of one function number their tests alike (`RunsEachTest`).
* `Reader`: `sb_reserve` does not end for a text that half the address space cannot hold,
  and a list of more than a quarter of the ints is written beyond its array
  (`CapacityKept`).
* `Backend`: `llvm_link_objects` has two definitions under `USE_LLVM_API`
  (`llvm_compile.c:263` and 450), so that build does not compile as it stands; the bodies
  are the same and are modelled once.

## 5. Proofs

Every theorem holds for all values of the constants that satisfy the named
assumptions of its component. The assumptions say what kind of thing a constant is
(a set of texts, a table from names to files), and five say more: a text as `parse_top`
makes it is a tree (`TextsAssumption`), no word is a null pointer (`OptionsAssumption`),
the bound on a function's sections of tests is at least one (`ShapesAssumption`), a form
has the operands its syntax has and no declaration a name in parentheses
(`ProgramAssumption`), and a size_t is wide enough for the bytes of as many pointers as an
unsigned int counts, the first capacities fit (`BuffersAssumption`, which also spells out
that a power of two is twice its half: the provers know nothing of powers).

| module | theorems |
|---|---|
| `CodegenProofs` | `TypeCorrect` (`[]TypeOK`), `WellFormedBlocks` (`[]BlocksWellFormed`), `ReturnsTold` (`[]ReturnFlagSound`), `RegistersAssigned` (`[]RegistersSound`), `TempsAssigned` (`[]TempsDominate`), `ReturnsReached` (`[]NoTrap`) |
| `MainProofs` | `DriverTyped`, `SuccessIsOwn`, `NoFalseFailure`, `NothingLeft`; `WordsAnswered` (`[]AnswersDecided`) |
| `BackendProofs` | `Owned` (`[]OwnershipSound`), `Truthful` (`[]ResultTruthful`) |
| `IncludeMergeProofs` | `Walks` (`[]WalkSound`), `Implements` (`ImplementsClosure`), `MergesOnce` (`[]FormsOnce`) |
| `IncludeExpandProofs` | `Expands` (`[]ExpansionSound`), `Implements` (`ExpandsClosure`), `Expanded` (`[]ExpandedOnce`) |
| `ProgramProofs` | `Passes` (`[]TypeOK`), `OperandsFit` (`[]OperandsChecked`), `NamesMean` (`[]NamesDenote`), `NothingTwice` (`[]DefinedOnce`), `CalleesAgree` (`[]CallsAgree`), `AssignmentsWritten` (`[]AssignmentsKept`) |
| `EmbeddedTestsProofs` | `TypesRight` (`[]TestsTypeOK`), `TextWellFormed` (`[]WellFormedText`), `ReportsRight` (`[]TestsReport`), `TestsRunOnce` (`[]RunsEachTest`) |
| `ReaderProofs` | `TypeCorrect` (`[]TypeOK`), `PositionsKnown` (`[]PositionsRight`), `TreeIsOfText` (`[]TreeOfText`), `BalancedAccepted` (`[]AcceptsBalanced`), `CapacitySuffices` (`[]CapacityKept`) |

**Codegen.** `TypeOK` is not inductive alone: the types of an operand's record depend on
the activation on top waiting for it, and labels in lines on the labels the activations
hold. `IInv` adds `StackDiscipline` (which activation waits for which result: in C the
call stack and the types see to that, here it is a lemma) and `LabelsHeld` (labels
of an activation were handed out). There is one lemma per action; the lemmas
below them say how each way of changing the stack (push, replace, pop) keeps
`StackDiscipline`, and that values, lines and frames stay typed when the counters grow.

The text is argued about in pieces: each step appends one, and `JoinedPieces` says when two
well-formed pieces make one. What ties the text to the recursion is `TextInv`: a label
that is branched to and not yet defined is owed by exactly one activation (`LandingHeld`,
`DuesHeld`), and what an activation was told about returning is what the end of the text
shows (`ReturnFlagSound`). For registers, `RegInv` adds that the slot of every name in
the environment is in the text (`EnvReady`), so that a line of any form reads
only what is there; the header is the one place that may write a register twice.

That every way to a read passes the definer is a property of the whole text, and what is
written later may still branch into it. `FlowInv` says of a temporary that an activation
holds, or that is the result in hand, that it is live (`Live`): it has a definer after
which no label stands that a line at or before the definer branches to, or that a later
line may yet branch to, and no line up to the definer branches to a label still to come
from that activation or one above it. Which labels those are, the stack says: the heads of
the open loops below (`Under`) and what the activations above owe (`Owed`). So a value
held while an `if` or a loop is compiled stays live, because their labels are new, and a
value that only a branch computed is not held by anyone. Of what has been read already,
`UsesSound` says that the lines between definer and read are entered through the definer
alone (`Guarded`). `Reachable` says what `Reach` computes, the least set of lines that
control entering at the first ones does not leave; all lines but those from the definer
to the read are such a set (`ReadsDominated`).

That control can still return from everywhere is shown without a measure on the text. `TrapInv` says
of each branch of the text that it has a target still to come or that control, from
there, comes to a `ret` or to a later line (`LeadsOn`). A branch forward does so at once; the
only one that goes back is that of a loop's body to the loop's condition, and of an open
loop `TrapInv` adds (`LoopHeld`) that from its head control comes to the branch that leaves it.
`LoopLeft` shows this when the condition is complete: all branches since the
head go to labels that are there, so they lead on, and the last line that control reaches before the
condition's own branch would have nowhere to go. Both are said of sets of lines that control
does not leave (`Closed`), which stay what they are when text is added (`ClosedPart`). In a
finished function the last line that can be reached from any line is therefore a
`ret` (`ReturnReached`).

**Driver.** `IInv` says that live processes have different numbers
(`LivePids`) and, of each process on its own (`Own`), what its temporary file and its
output hold while it is between writing and removing them. That is enough because a
live process writes only files that no other live process hands on
(`OthersUntouched`), so each action needs to be looked at only for the process that takes
it (`StepOfOne`). `TempsRemoved` speaks of processes that have ended, whose number may
belong to another by now; the proof adds `Leftovers`, what a file left behind
says of its owner.

**Options.** `WordsRight` is what the properties say of all words, said of those before
word `n`: the last word that gives a thing has decided (`Latest`), the lists have an entry
for each word that adds to them, in order (`Listed`), and the mode is the last mode word's
(`ModeDecided`). One lemma for each says how it gets from `n` to `n + 1`. What is not
local is whether a word is a value, which depends on all words to its left; `LineInv`
adds that the loop never stands on a value, which is why it may decide from the word alone.
(`Values` is a recursion over the words; `ValueRec` shows that it has its fixed point.)

**Backend.** `IInv` says of each value of `where` which variables are not NULL, what is
live, and what the answer will be. `CleanupHeld` is the point: at `cleanup` the variables
dispose of exactly what is live, but for the buffer of a text that did not parse.

**IncludeMerge.** `NoReentry` needs only that an activation's file is in the list of
included files. What is hard is that lists grow and are shared while they are
walked. `Cleaned` is the largest set of lists in which no include is left, nor in a list below
them, a definition without recursion; the walk is ahead of it (`WalkInv`: what is behind
an index is clean, what is not was written in the activation's own file), a module's list
lies behind the list that holds it (`TreeInv`), so activations' lists only go down, and
each waits at the item the next one is about (`WaitInv`). For the refinement the invariant
adds that an include of the tree is one of the text it was read from (`FromText`), that each
include of a text is in the tree or has been followed (`StandsInv`), and that no list with an
include in it is out of the walk's reach (`FoundInv`). `IncludeNew` then is `Merge`,
`IncludeMissing` is `Fail`, the end of the input's list is `Complete`, and every other step
changes nothing `IncludeClosure` sees.

`FormsOnce` is about the tree at its end; `StockInv` says of the walk which lists it will be
made of: there is a set of lists, in which every list but the input's and those of files that
are still to be appended (`Roots`) belongs to exactly one module (`Treed`), and whose forms of a
file match, one to one, the forms of the file's text (`Counted`). A file that is read adds its
lists and a root. A file that ends loses its root, the items of which are carried behind
those of the caller's list (`AppendsCarried`), each to one place; its own list keeps them
too, and is out of the set. When the walk is over there is one root left, and the set is what
lies below it: closed, and no smaller set is, since a module's list lies behind the list that
holds it (`TreeIs`).

**IncludeExpand.** The stack holds every path at most once, and the input's only at its
bottom (`StackInv`); an item behind an activation leads to a visited path
(`BehindInv`), and a path that was read is on the stack or walked to its end
(`WalkedInv`). An include of nothing changes nothing the closure sees, since it adds no
path that can be read. For `ExpandedOnce` the walk is counted: what an activation has
passed (`KeptTo`) is a set of places in its file, it has as many members as the new
program has nodes of that path (`SpliceInv`), a step past an item or a form adds at
most one member and then one node, and at the end of the file the set is `Kept`. No other
activation is of the same path, so none adds to the count. A path that led
nowhere has one include in the new program from the step that visited it (`LostInv`).

**Program.** Each property relates the text to the declarations, which were read by passes
that are over when the text is written; `IInv` carries from pass to pass what each
left in its table. `Walk` says where the passes are, and `TypesRead`, `SignaturesRead` and
`Opened` how many declarations each has done. A struct's entry is as its last declaration
so far has it, each field's type as its name is parsed now, unless the alias came later
(`TypesPass`, `StructFrom`); a signature is its last declaration's, parsed with
the finished tables (`SignaturesPass`). With that, `DefineLines` (each function opened has the
header its declaration gives it) and `DeclareLines` (`declared` is the set of names
with a `declare` line, each there once) meet in the properties of calls.
`TextGood` says of every line on its own that the types it writes and its operands have
are `Known` (the compiler's, a struct that will be defined, or a name taken for one), that
the operands fit but for the `Unchecked` ones, and that a call has a signature's types.
`AssignmentsKept` is shown beside `TypesPass`, because `asked` grows only in bodies, when
structs no longer change: as many lines are there as assignments whose field is declared.

The proof was what found two exceptions of `DefinedOnce` that no program of the instance
showed: a function declared under a name of the run time's, and a `ccall` of
`arena-create`. A program of the first kind is now in `MCProgram`. It also found that
a form may take an alias for a struct, as a declaration may (`TakenForStruct`).

**EmbeddedTests.** What a test's text does when it runs is `Execute`, a recursive function
over its lines. Every branch leads on to a later line (`Forward`), so that what a line does
depends on the lines after it only (`Downward`) and the recursion has its fixed point
(`Runs`). `Laid` says where in the text the lines of each item stand: an item passes on
to the next one or ends the test (`ItemRuns`), and what the test answers is found by
going from item to item up to the first one that ends it (`Answers`, `Reporting`). The
invariant has, of the test that is open, that its text is `Sound` below the labels already
taken unless it has an `expect-ne`, that it ends in a terminator exactly if the block
returned, and that `saw_expect` and `last_expr` say what its items are (`TestInv`); of each
function, that it was closed so (`FuncInv`). `CallsInv` orders the functions by their place
in the program, all before where the walk is; `NamesInv` says of every name in the
text which form or function it is of. That a stray expectation or an earlier test changes
nothing is no step of its own: neither is in `TestInv`.

**Reader.** The invariant says at every character what the properties say at the end.
`TokenRead` is what the lexer's loop has made of the token so far: an atom's buffer is the
text from where it began, a string's has one character for each that the text says, and a
backslash just read has an even number before it. `Gaps` is `TextTiled` up to `pos`.
`OpenLists` and `Behind` say that the lists on the stack nest, are open and begin before
all that is read after them, so that an item is pushed into the innermost list around it
(`TreeNests`) although only the top of the stack is looked at. `InStep` is that the scanner
that defines the language is, after the characters read, where the reader is: as deep as
there are open lists, in a string when the reader is; a step reads one character on both
sides. `Whole` says an accepted text was read to its end. For the buffers, `DoubledFits`
follows the loop of `sb_reserve` through as many rounds as there are capacities: one that
never meets a need of at most half of them would have grown in each round.
For the arrays, `Room` says that the items of a list fit its capacity and the capacity
its room, until the list is longer than a quarter of the ints: as long as doubling stays an
int the request is the capacity times the size of a pointer, whichever way it is computed.

The proof wants a place for what a loop leaves behind: the positions a node was read
from, which `Node` records and no code reads.

Only model-checked:

* Liveness (`Terminates`, `ExpansionEnds`, `Ends`), which the prover does not do.
* Each inductive invariant was checked by TLC on its run's instance before it was proved;
  the runs keep the properties only.

## 6. Not modelled

* Diagnostics, statistics, `--list-tests`: nothing reads them back. A diagnostic is an end
  of the compilation in every module.
* `cg_get_field` and `llvm_link_objects`' second definition: nothing reaches them.
* The texts of constants, opcodes and mangled names, and names of files in nodes.
* stage1 but for its includes (tokenizer, parser, type checker, lowering, code
  generation, arena, command line): stage0 written anew in Weave, with a
  lowering pass and a type checker before the generation. It is several times
  stage0's size; the modules here cover the same stages of `weavec0` only.
* stage2, build files and the test harness: no state of their own.
* Hazards without a property of their own: the environment keeps a variable that was declared
  within a branch, whose slot is in scope of the name but may not dominate a later use
  (`stmt.c:122`); the exit status of the generated main counts failures and keeps eight
  bits (`program.c:1050`); `current_fn` is left pointing into a buffer that is gone
  (`program.c:892`); a file that changes while it is read twice; a pointer to compiled code
  that is cut to an int (`llvm_jit_helper.c:24`); `make` with a field the struct does not
  have (`expr.c:228`); an input that includes itself (`main.c:221`), of which nothing says
  what it should hold.

## 7. Plan

Every property that the passing runs check is proved but liveness. What is left is outside
these modules: stage1's own tokenizer, type checker and lowering, and the parts of stage0
that section 6 names.
