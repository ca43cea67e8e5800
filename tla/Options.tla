------------------------------- MODULE Options -------------------------------
(***************************************************************************)
(* How weavec0 reads its command line (main.c). The words are read four    *)
(* times: get_arg_value looks for --input and for --output, the loop of    *)
(* main decides what each word means, and parse_include_dirs looks for     *)
(* directories. No reading knows what another has made of a word. What     *)
(* main does next is in Driver, which may be extended beside this module.  *)
(***************************************************************************)
EXTENDS Naturals, SequencesExt

CONSTANTS
    Words,    \* words of a command line
    MaxWords  \* bound: how many

VARIABLES
    argv,
    phase,    \* the reading, or how main went on
    i,        \* the word it is at
    given,    \* what main has in its variables
    dirs      \* include_dirs

lineVars == <<argv, phase, i, given, dirs>>

-----------------------------------------------------------------------------
(* What a word is.                                                         *)

\* Options that take the next word, and options with their value in the same word.
Separate ==
    [w \in {"-o", "--output", "--input", "--runtime", "-test", "-tag"} |->
        CASE w \in {"-o", "--output"} -> "output" [] w = "--input" -> "input" [] w = "--runtime" -> "runtime"
          [] w = "-test" -> "tests" [] w = "-tag" -> "tags"]
Attached ==
    [w \in {"-oa", "--output=a", "--input=f", "--input=", "--runtime=r", "-test=t", "-tag=t"} |->
        CASE w \in {"-oa", "--output=a"} -> [to |-> "output", value |-> "a"]
          [] w = "--input=f"             -> [to |-> "input", value |-> "f"]
          [] w = "--input="              -> [to |-> "input", value |-> ""]
          [] w = "--runtime=r"           -> [to |-> "runtime", value |-> "r"]
          [] w = "-test=t"               -> [to |-> "tests", value |-> "t"]
          [] w = "-tag=t"                -> [to |-> "tags", value |-> "t"]]
Flags     == {"--static", "-O", "--list-tests", "--stats"}
ModeWords == [w \in {"-S", "--emit-llvm", "-c"} |-> IF w = "-c" THEN "object" ELSE "llvm"]
Positional == {"f", "g"}

\* Two of the four readings look for words of their own.
Searched ==
    [w \in {"--input", "--input=f", "--output", "--output=a"} |->
        IF w \in {"--input", "--input=f"} THEN "input" ELSE "output"]
DirNext  == {"-I", "--include-dir"}
DirHere  == {"-Id", "--include-dir=d"}

Argc == Len(argv)
Nothing == "NULL"

\* No word is a null pointer.
ASSUME OptionsAssumption == MaxWords \in Nat /\ Nothing \notin Words

LineInit ==
    /\ argv \in BoundedSeq(Words, MaxWords)
    /\ phase = "search" /\ i = 1 /\ dirs = <<>>
    /\ \E env \in {Nothing, "env"} :    \* WEAVE_RUNTIME
          given = [input |-> Nothing, output |-> Nothing, runtime |-> env, mode |-> "executable",
                   tests |-> <<>>, tags |-> <<>>, flags |-> {}, generate |-> FALSE]

-----------------------------------------------------------------------------
(* get_arg_value, for the input and for the output: the first word that    *)
(* has a value, wherever it stands.                                        *)

Answers(k, name) ==
    /\ argv[k] \in DOMAIN Searched /\ Searched[argv[k]] = name
    /\ argv[k] \in DOMAIN Separate => k < Argc
Found(name) == {k \in 1..Argc : Answers(k, name)}
First(S)   == CHOOSE k \in S : \A j \in S : k <= j
ValueAt(k) == IF argv[k] \in DOMAIN Attached THEN Attached[argv[k]].value ELSE argv[k + 1]
GetArgValue_Bug(name) == Nothing
GetArgValue(name) == IF Found(name) = {} THEN Nothing ELSE ValueAt(First(Found(name)))

Search ==
    /\ phase = "search"
    /\ given' = [given EXCEPT !.input = GetArgValue("input"), !.output = GetArgValue("output")]
    /\ phase' = "words"
    /\ UNCHANGED <<argv, i, dirs>>

-----------------------------------------------------------------------------
(* The loop of main.                                                       *)

Give(to, value) ==
    given' = [given EXCEPT ![to] = IF to \in {"tests", "tags"} THEN Append(@, value) ELSE value]
Reads(n) == i' = i + n /\ UNCHANGED <<argv, phase, dirs>>

At == phase = "words" /\ i <= Argc

SeparateValue ==
    /\ At /\ argv[i] \in DOMAIN Separate /\ i < Argc
    /\ Give(Separate[argv[i]], argv[i + 1])
    /\ Reads(2)

AttachedValue ==
    /\ At /\ argv[i] \in DOMAIN Attached
    /\ Give(Attached[argv[i]].to, Attached[argv[i]].value)
    /\ Reads(1)

\* -S, -c and the flags; the tests want an executable, unless a later word wants less.
SetMode ==
    /\ At /\ argv[i] \in DOMAIN ModeWords
    /\ given' = [given EXCEPT !.mode = ModeWords[argv[i]]]
    /\ Reads(1)
RunTests_Bug ==
    /\ At /\ argv[i] = "--run-tests"
    /\ given' = [given EXCEPT !.generate = TRUE]
    /\ Reads(1)
RunTests ==
    /\ At /\ argv[i] = "--run-tests"
    /\ given' = [given EXCEPT !.generate = TRUE, !.mode = "executable"]
    /\ Reads(1)
SetFlag ==
    /\ At /\ argv[i] \in Flags
    /\ given' = [given EXCEPT !.flags = @ \cup {argv[i]}]
    /\ Reads(1)

PositionalInput ==
    /\ At /\ argv[i] \in Positional
    /\ given' = [given EXCEPT !.input = argv[i]]
    /\ Reads(1)

\* What is left begins with a dash: the options about directories, an option without its
\* word, and any other, without a complaint.
Ignored ==
    /\ At /\ argv[i] \notin DOMAIN Attached \cup DOMAIN ModeWords \cup Flags \cup Positional \cup {"--run-tests"}
    /\ argv[i] \in DOMAIN Separate => i = Argc
    /\ UNCHANGED given /\ Reads(1)

HasInput_Bug == TRUE
HasInput == given.input # Nothing

\* Without an input, the usage and exit status 2; a.out stands for no output.
AfterWords ==
    /\ phase = "words" /\ i > Argc
    /\ phase' = IF HasInput THEN "dirs" ELSE "usage"
    /\ given' = [given EXCEPT !.output = IF HasInput /\ @ = Nothing THEN "a.out" ELSE @]
    /\ i' = 1
    /\ UNCHANGED <<argv, dirs>>

-----------------------------------------------------------------------------
(* parse_include_dirs, once the input is read and parsed.                  *)

ReadDir ==
    /\ phase = "dirs" /\ i <= Argc
    /\ \/ /\ argv[i] \in DirNext /\ i < Argc
          /\ dirs' = Append(dirs, argv[i + 1])
       \/ /\ argv[i] \in DirHere
          /\ dirs' = Append(dirs, "d")
       \/ /\ argv[i] \notin DirHere
          /\ argv[i] \in DirNext => i = Argc
          /\ UNCHANGED dirs
    /\ i' = i + 1
    /\ UNCHANGED <<argv, phase, given>>

DefaultDir_Bug(ds) == <<".">> \o ds
DefaultDir(ds) == IF ds = <<>> THEN <<".">> ELSE ds

DirsRead ==
    /\ phase = "dirs" /\ i > Argc
    /\ dirs' = DefaultDir(dirs)
    /\ phase' = "compile"
    /\ UNCHANGED <<argv, i, given>>

LineNext ==
    \/ Search
    \/ SeparateValue \/ AttachedValue \/ SetMode \/ RunTests \/ SetFlag \/ PositionalInput \/ Ignored
    \/ AfterWords \/ ReadDir \/ DirsRead

LineSpec == LineInit /\ [][LineNext]_lineVars

-----------------------------------------------------------------------------
(* Properties.                                                             *)

Ended == phase \in {"usage", "compile"}

\* Every variable is in its range; a compilation has an input, an output and somewhere
\* to look for includes.
LineTypeOK ==
    /\ argv \in Seq(Words) /\ i \in 1..Argc + 1
    /\ phase \in {"search", "words", "dirs", "usage", "compile"}
    /\ given.mode \in {"executable", "llvm", "object"}
    /\ phase = "compile" => given.input # Nothing /\ given.output # Nothing /\ dirs # <<>>

\* Whether a word is the value of the option before it, from left to right.
Values(words) ==
    LET value[k \in 0..Len(words)] == k > 1 /\ ~value[k - 1] /\ words[k - 1] \in DOMAIN Separate
    IN value
IsValue == Values(argv)
Gives(to) ==
    {k \in 1..Argc : /\ ~IsValue[k]
                     /\ \/ argv[k] \in DOMAIN Separate /\ k < Argc /\ Separate[argv[k]] = to
                        \/ argv[k] \in DOMAIN Attached /\ Attached[argv[k]].to = to
                        \/ argv[k] \in Positional /\ to = "input"}
Given(k) == IF argv[k] \in Positional THEN argv[k] ELSE ValueAt(k)
LastOf(S) == CHOOSE k \in S : \A j \in S : j <= k
\* The word after a separated -I or --include-dir.
AfterDir(k) == k > 1 /\ ~IsValue[k - 1] /\ argv[k - 1] \in DirNext
\* What the words at S give, from left to right: the nth is what the word at ks[n] gives.
Ordered(ks, S) ==
    /\ S = {ks[n] : n \in DOMAIN ks}
    /\ \A m, n \in DOMAIN ks : m < n => ks[m] < ks[n]

\* The last word that gives the input, the output or the run time decides, an option and
\* a positional word being equal; only when there is none does the first reading count,
\* and it has a value only if a word in the place of another option's looks like one.
\* Names and tags of tests are kept in order. When the last word that gives the input is
\* one after -I, nothing is said of the input here: see InputAsSaid.
LastWordDecides ==
    Ended =>
        /\ \A to \in {"input", "output"} :
              IF Gives(to) # {} THEN (to = "input" => ~AfterDir(LastOf(Gives(to)))) => given[to] = Given(LastOf(Gives(to)))
              ELSE IF Found(to) # {} THEN /\ given[to] = ValueAt(First(Found(to)))
                                          /\ \E k \in Found(to) : IsValue[k]
              ELSE given[to] = IF to = "output" /\ phase = "compile" THEN "a.out" ELSE Nothing
        /\ Gives("runtime") # {} => given.runtime = Given(LastOf(Gives("runtime")))
        /\ \A to \in {"tests", "tags"} : \E ks \in [DOMAIN given[to] -> Gives(to)] :
              Ordered(ks, Gives(to)) /\ \A n \in DOMAIN ks : given[to][n] = Given(ks[n])

\* The last of -S, -c and -run-tests decides what is written, so that -S -run-tests
\* builds an executable and -run-tests -S does not.
LastModeWins ==
    Ended =>
        LET ks == {k \in 1..Argc : ~IsValue[k] /\ argv[k] \in DOMAIN ModeWords \cup {"--run-tests"}} IN
        /\ given.mode = IF ks = {} \/ argv[LastOf(ks)] = "--run-tests" THEN "executable"
                        ELSE ModeWords[argv[LastOf(ks)]]
        /\ given.generate <=> \E k \in ks : argv[k] = "--run-tests"

\* Includes are looked for in the directories given, in their order, or else in ".".
DirsInOrder ==
    phase = "compile" =>
        LET S == {k \in 1..Argc : argv[k] \in DirHere \/ (argv[k] \in DirNext /\ k < Argc)} IN
        IF S = {} THEN dirs = <<".">>
        ELSE \E ks \in [DOMAIN dirs -> S] :
                Ordered(ks, S) /\ \A n \in DOMAIN ks : dirs[n] = IF argv[ks[n]] \in DirHere THEN "d" ELSE argv[ks[n] + 1]

\* Whatever order the words are in, what main goes on with is what they say, read by the
\* four loops together (main.c:23-61, 110-224).
AnswersDecided == LineTypeOK /\ LastWordDecides /\ LastModeWins /\ DirsInOrder

\* "We accept -I dir, -Idir, -o outfile, and positional input" (main.c:128; README.md:92
\* gives -I its directory that way): the word after -I is a directory, and some other
\* word is the input.
InputAsSaid ==
    phase = "compile" /\ Found("input") = {} =>
        \E k \in Gives("input") : given.input = Given(k) /\ ~AfterDir(k)

=============================================================================
