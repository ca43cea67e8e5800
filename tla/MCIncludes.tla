----------------------------- MODULE MCIncludes -----------------------------
(***************************************************************************)
(* Instances of IncludeMerge and IncludeExpand, the walks of the two        *)
(* compilers, one after the other; one of the two has nothing to do.        *)
(*                                                                         *)
(* weavec0: the input and another file in the library, with links to both  *)
(* in src, where the input is read from, two files with the same name in   *)
(* both directories, and texts that include each other in every direction. *)
(*                                                                         *)
(* weavec1: a root and a file beside it that include each other under      *)
(* several spellings, one of them longer each time, a file that only the   *)
(* search in stdlib finds, a link to one in the root directory, one that   *)
(* is nowhere; files that are empty, and files of comments.                *)
(***************************************************************************)
EXTENDS IncludeMerge, IncludeExpand, TLC

\* Lists of up to n items out of a set.
Lists(items, n) == UNION {[1..k -> items] : k \in 0..n}

-----------------------------------------------------------------------------
MCDisk == <<"src", "main">> :> "main" @@ <<"lib", "main">> :> "main" @@ <<"src", "a">> :> "a" @@ <<"lib", "a">> :> "a"
          @@ <<"src", "b">> :> "b" @@ <<"lib", "b">> :> "lb"
MCDirOf == [input |-> "src", main |-> "lib", a |-> "lib", b |-> "src", lb |-> "lib"]
MCIncludeDirs == <<"lib">>

Rel(name)    == [rel |-> TRUE, name |-> name]
Search(name) == [rel |-> FALSE, name |-> name]
MCIncs == {Rel("a"), Rel("b"), Search("b"), Search("main"), Rel("main")}

Plain       == [kind |-> "form", inc |-> Rel("a"), list |-> 0]
Asks(inc)   == [kind |-> "include", inc |-> inc, list |-> 0]
Module      == [kind |-> "module", inc |-> Rel("a"), list |-> 2]

Flat(items, n) == {<<top>> : top \in Lists(items, n)}
\* A file with one module, alone or beside another item.
Modular(items, n) ==
    {<<top, body>> : top \in {<<Module>>} \cup {<<Module, x>> : x \in items} \cup {<<x, Module>> : x \in items},
                     body \in Lists(items, n)}

Includes(incs) == {Plain} \cup {Asks(inc) : inc \in incs}

\* Two files that include each other and themselves, in their lists and in modules.
MCTexts ==
    [main |-> Flat(Includes({Rel("a"), Search("b")}), 2) \cup Modular({Asks(Rel("a")), Asks(Rel("b"))}, 1),
     a    |-> Flat(Includes({Rel("b"), Rel("main")}), 2) \cup Flat({Asks(Rel("a"))}, 1)
              \cup Modular({Plain, Asks(Search("main"))}, 1),
     b    |-> Flat(Includes({Rel("a")}), 1),
     lb   |-> Flat(Includes({Rel("a")}), 1)]

-----------------------------------------------------------------------------
MCRoot == <<"src", "main">>
MCPathDisk == <<"src", "main">> :> "main" @@ <<"src", "a">> :> "a" @@ <<"/", "a">> :> "a" @@ <<"stdlib", "src", "b">> :> "b"

Thing(kind) == [kind |-> kind, path |-> <<>>]
Path(path)  == [kind |-> "include", path |-> path]

BesideA    == Path(<<".", "a">>)
AroundA    == Path(<<"..", "src", "a">>)
AroundRoot == Path(<<"..", "src", "main">>)
AboveAll   == Path(<<"/", "a">>)
InStdlib   == Path(<<".", "b">>)
NowhereA   == Path(<<".", "gone">>)
FromTop    == Path(<<"stdlib", "src", "b">>)
Bare       == Path(<<"a">>)

Modules(items, n) == {[module |-> TRUE, items |-> l] : l \in Lists(items, n)}
Others(items, n)  == {[module |-> FALSE, items |-> l] : l \in Lists(items, n)}

Basic == {Thing("empty"), Thing("malformed"), Thing("error"), Bare, FromTop, AboveAll}
RootItems == {Thing("other"), BesideA, AroundA, NowhereA}

\* Without a text a file is empty.
Comments == <<>>
Empty    == <<>>
Text(forms) == <<forms>>
Inputs ==
    [main : {Empty, Text(Comments)}
              \cup {Text(<<m>>) : m \in Modules(RootItems, 2) \cup Modules(Basic, 1) \cup Others({BesideA}, 2)}
              \cup {Text(<<m, n>>) : m \in Modules({BesideA}, 1), n \in Modules({InStdlib}, 1)},
     a    : {Empty, Text(Comments)}
              \cup {Text(<<m>>) : m \in Modules({Thing("other"), AroundA, InStdlib}, 2)
                                       \cup Modules({Thing("error"), BesideA, AroundRoot, NowhereA}, 1)}
              \cup {Text(<<o, m>>) : o \in Others({BesideA}, 1), m \in Modules({InStdlib}, 1)},
     b    : {Empty, Text(Comments), Text(<<[module |-> TRUE, items |-> <<Thing("other"), BesideA>>]>>)}]
MCSourceTexts == {[f \in {g \in DOMAIN c : c[g] # Empty} |-> c[f][1]] : c \in Inputs}

-----------------------------------------------------------------------------
MCInit ==
    \/ Init /\ source = <<>> /\ ExpandInit
    \/ Init /\ text[Input] = <<<<>>>> /\ ExpandInit
MCNext ==
    \/ Next /\ UNCHANGED expandVars
    \/ status # "walking" /\ ExpandNext /\ UNCHANGED vars
MCSpec == MCInit /\ [][MCNext]_<<vars, expandVars>> /\ WF_<<vars, expandVars>>(MCNext)

=============================================================================
