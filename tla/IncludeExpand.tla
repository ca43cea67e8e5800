---------------------------- MODULE IncludeExpand ----------------------------
(***************************************************************************)
(* How weavec1 expands the includes of a program (include_expand.weave).   *)
(* Where weavec0 merges files into the tree it walks, weavec1 copies the   *)
(* nodes of each file into the list of one new module, and remembers a     *)
(* file by the path it was spelled with, joined to the directory of the    *)
(* file that includes it: no name is made canonical.                       *)
(*                                                                         *)
(* A path is a sequence of names, ".." and "." among them. Definitions     *)
(* that end in _Bug are only used by the mutation runs.                    *)
(***************************************************************************)
EXTENDS Naturals, SequencesExt, FiniteSets, Functions

CONSTANTS
    Names,    \* the names paths are made of
    Sources,  \* the files there are
    PathDisk, \* path without "." and ".." |-> file
    Root,     \* the path weavec1 is given
    SourceTexts,  \* what the files that are not empty may contain together
    MaxPath   \* names a path may have before the system refuses it

\* A file is a sequence of forms, none where there are only comments; a module has items,
\* another form is copied whole, whatever it holds. An item is a list without items, the include
\* of a path, an include that is malformed so that it is copied or so that it is an
\* error, or anything else.
ItemKinds == {"empty", "include", "malformed", "error", "other"}

\* Where a path starts that is not relative to the including file.
Known == {"stage0", "stage1", "stdlib", "/"}

Items == [kind : ItemKinds, path : Seq(Names)]
Forms == [module : BOOLEAN, items : Seq(Items)]

ASSUME ExpandAssumption ==
    /\ Range(PathDisk) \subseteq Sources
    /\ Known \cup {".", "..", "bootstrap"} \subseteq Names
    /\ DOMAIN PathDisk \subseteq Seq(Names) /\ Root \in Seq(Names)
    /\ \A t \in SourceTexts : DOMAIN t \subseteq Sources /\ t \in [DOMAIN t -> Seq(Forms)]

VARIABLES
    source,   \* what the files that are not empty contain
    nest,     \* activations of expand-children, with the loop over the forms of the file around each
    visited,  \* the paths that were followed
    out,      \* the items of the new root
    stage    \* "starting", "walking", "done" or "failed"

expandVars == <<source, nest, visited, out, stage>>

-----------------------------------------------------------------------------
(* Paths.                                                                  *)

\* resolve-path: an include stays as it is, too, when the including file is in no directory.
ResolvePath(inc, dir) ==
    IF inc[1] \in Known \/ dir = <<>> THEN inc
    ELSE dir \o (IF inc[1] = "." THEN Tail(inc) ELSE inc)

\* is-printable-path asks for a slash.
Printable(inc) == Len(inc) > 1

\* dirname: before the only slash of a file in the root directory there is nothing.
Dir(path) == IF Len(path) = 2 /\ path[1] = "/" THEN <<>> ELSE Front(path)

\* The file system: what a path leads to, unless it is too long.
Walked[at \in Seq(Names), name \in Names] ==
    CASE name = "." \/ (name = ".." /\ at = <<"/">>)        -> at
      [] name = ".." /\ at \notin {<<>>, <<"/">>} /\ Last(at) # ".." -> Front(at)
      [] OTHER                                              -> Append(at, name)
Place[path \in Seq(Names)] == IF path = <<>> THEN <<>> ELSE Walked[Place[Front(path)], Last(path)]

Missing == "missing"
Opened(path) ==
    LET place == Place[path] IN IF Len(path) <= MaxPath /\ place \in DOMAIN PathDisk THEN PathDisk[place] ELSE Missing

\* parse-file-into: a file that is missing or empty is looked for in two more places. It
\* asks for the length of the text: a file of comments only has been found.
Readable(f) == f # Missing /\ f \in DOMAIN source
Found(path) == Readable(Opened(path))
File[path \in Seq(Names)] ==
    CASE Found(path) -> Opened(path)
      [] ~Found(path) /\ Found(<<"bootstrap">> \o path) -> Opened(<<"bootstrap">> \o path)
      [] ~Found(path) /\ ~Found(<<"bootstrap">> \o path) /\ Found(<<"stdlib">> \o path) -> Opened(<<"stdlib">> \o path)
      [] OTHER -> Missing

-----------------------------------------------------------------------------
(* The expansion.                                                          *)

\* The forms the walk goes through under a path. Of the root it is only the first one, and
\* when there is none the list parse-top put the forms in, which holds its head alone.
Headed == [module |-> FALSE, items |-> <<[kind |-> "other", path |-> <<>>]>>]
FormsOf(path) ==
    LET forms == source[File[path]] IN
    IF path # Root THEN forms ELSE IF forms = <<>> THEN <<Headed>> ELSE <<forms[1]>>

\* An activation: the file, its form, the item of that, and the directory includes are
\* relative to.
Expansion(path) == [path |-> path, file |-> File[path], form |-> 1, at |-> 1, dir |-> Dir(path)]
Innermost     == Last(nest)
InFile  == Innermost.form \in DOMAIN FormsOf(Innermost.path)
Form    == FormsOf(Innermost.path)[Innermost.form]
\* The root is walked whatever its form is; of an included file only modules are.
InForm  == InFile /\ (Form.module \/ Innermost.path = Root)
InItems == InForm /\ Innermost.at <= Len(Form.items)
Child    == Form.items[Innermost.at]

Walking == stage = "walking"
Moves(frames) == nest' = frames
Stepped(frames) == [frames EXCEPT ![Len(frames)].at = @ + 1]
NextForm_Bug == [nest EXCEPT ![Len(nest)].form = Len(FormsOf(Innermost.path)) + 1]
NextForm == [nest EXCEPT ![Len(nest)].form = @ + 1, ![Len(nest)].at = 1]
Copied(what) == out' = Append(out, [what |-> what, path |-> Innermost.path, file |-> Innermost.file])

ExpandInit ==
    /\ source \in SourceTexts
    /\ nest = <<>>
    /\ visited = {}
    /\ out = <<>>
    /\ stage = "starting"

\* expand-root: the root is a visited path, too.
Begin ==
    /\ stage = "starting"
    /\ IF File[Root] = Missing THEN stage' = "failed" /\ UNCHANGED <<nest, visited>>
       ELSE stage' = "walking" /\ nest' = <<Expansion(Root)>> /\ visited' = {Root}
    /\ UNCHANGED <<source, out>>

\* copy-subtree and append-child. A list without items has no head and is left out.
CopyItem ==
    /\ Walking /\ InItems
    /\ Child.kind \in {"other", "malformed"} \/ (Child.kind = "include" /\ ~Printable(Child.path))
    /\ Copied(Child) /\ Moves(Stepped(nest))
    /\ UNCHANGED <<source, visited, stage>>

SkipEmpty ==
    /\ Walking /\ InItems /\ Child.kind = "empty"
    /\ Moves(Stepped(nest))
    /\ UNCHANGED <<source, visited, out, stage>>

IncludeError ==
    /\ Walking /\ InItems /\ Child.kind = "error"
    /\ stage' = "failed"
    /\ UNCHANGED <<source, nest, visited, out>>

Follows  == Walking /\ InItems /\ Child.kind = "include" /\ Printable(Child.path)
Followed == ResolvePath(Child.path, Innermost.dir)

IncludeAgain_Bug ==
    /\ Follows /\ Followed \in visited
    /\ UNCHANGED expandVars
IncludeAgain ==
    /\ Follows /\ Followed \in visited
    /\ Moves(Stepped(nest))
    /\ UNCHANGED <<source, visited, out, stage>>

\* The path is remembered before the file is read, and whether or not it can be.
Visited_Bug(path) == visited
Visited(path) == visited \cup {path}

IncludeLost_Bug ==
    /\ Follows /\ Followed \notin visited /\ File[Followed] = Missing
    /\ visited' = Visited(Followed)
    /\ Moves(Stepped(nest))
    /\ UNCHANGED <<source, out, stage>>
IncludeLost ==
    /\ Follows /\ Followed \notin visited /\ File[Followed] = Missing
    /\ visited' = Visited(Followed)
    /\ Copied(Child) /\ Moves(Stepped(nest))
    /\ UNCHANGED <<source, stage>>

IncludeFollowed ==
    /\ Follows /\ Followed \notin visited /\ File[Followed] # Missing
    /\ visited' = Visited(Followed)
    /\ Moves(Append(nest, Expansion(Followed)))
    /\ UNCHANGED <<source, out, stage>>

\* The forms of an included file: a module has been walked, another form is copied whole.
EndForm ==
    /\ Walking /\ InForm /\ ~InItems
    /\ Moves(NextForm)
    /\ UNCHANGED <<source, visited, out, stage>>

CopyForm_Bug ==
    /\ Walking /\ InFile /\ ~InForm
    /\ Moves(NextForm)
    /\ UNCHANGED <<source, visited, out, stage>>
CopyForm ==
    /\ Walking /\ InFile /\ ~InForm
    /\ Copied(Form) /\ Moves(NextForm)
    /\ UNCHANGED <<source, visited, stage>>

EndForms ==
    /\ Walking /\ ~InFile
    /\ IF Len(nest) = 1 THEN stage' = "done" /\ UNCHANGED nest
       ELSE Moves(Stepped(Front(nest))) /\ UNCHANGED stage
    /\ UNCHANGED <<source, visited, out>>

ExpandNext ==
    \/ Begin \/ CopyItem \/ SkipEmpty \/ IncludeError
    \/ IncludeAgain \/ IncludeLost \/ IncludeFollowed
    \/ EndForm \/ CopyForm \/ EndForms

\* One process runs until the walk ends.
ExpandSpec == ExpandInit /\ [][ExpandNext]_expandVars /\ WF_expandVars(ExpandNext)

-----------------------------------------------------------------------------
(* Properties.                                                             *)

Read == {p \in visited : File[p] # Missing}

\* Every variable is in its range: each activation is of a file that was followed, and
\* waits at the include of the next one.
ExpandTypeOK ==
    /\ stage \in {"starting", "walking", "done", "failed"}
    /\ stage \in {"walking", "done"} => Root \in visited
    /\ \A i \in DOMAIN nest :
          /\ nest[i].path \in Read /\ nest[i].dir = Dir(nest[i].path)
          /\ nest[i].form \in 1..Len(FormsOf(nest[i].path)) + 1
    /\ \A i \in 2..Len(nest) : LET f == nest[i - 1] IN
          ResolvePath(FormsOf(f.path)[f.form].items[f.at].path, f.dir) = nest[i].path
    /\ {out[i].path : i \in DOMAIN out} \subseteq Read

\* No file is being expanded inside itself under the same path.
NoPathTwice == \A i, j \in DOMAIN nest : nest[i].path = nest[j].path => i = j

\* The walk is where it should be: each activation at the include of the next, and in no
\* path a second time (include_expand.weave:329-374).
ExpansionSound == ExpandTypeOK /\ NoPathTwice

\* What of a file, under one path, is copied rather than followed: items of a form, or the
\* form as a whole.
KeptIn(p, i) ==
    LET form == FormsOf(p)[i] IN
    IF form.module \/ p = Root THEN {k \in DOMAIN form.items : form.items[k].kind = "other"} ELSE {0}
Kept(p) == UNION {{i} \X KeptIn(p, i) : i \in DOMAIN FormsOf(p)}
CopiedOf(p) == {i \in DOMAIN out : out[i].path = p
                    /\ ("module" \in DOMAIN out[i].what \/ out[i].what.kind = "other")}

\* When the walk is over, a file that was followed under one path has given what it has,
\* once: of the root the first form, of another file every form. Files under several
\* paths are left to NoDuplicates.
OnePath(p) == \A q \in Read : File[q] = File[p] => q = p
SplicedOnce ==
    stage = "done" => \A p \in Read : OnePath(p) => Cardinality(CopiedOf(p)) = Cardinality(Kept(p))

\* What the docstring of expand-children says, "visited guards duplicates": nothing of a
\* file is spliced again because it is included again. It is, under a second spelling
\* of its path, since visited compares the strings (include_expand.weave:329).
NoDuplicates == \A i, j \in DOMAIN out : out[i].file = out[j].file => out[i].path = out[j].path

\* An include that leads nowhere is still in the program, once, for whoever is to report
\* it; asked for again it is left out.
MissingKept ==
    stage = "done" =>
        \A p \in visited \ Read :
            Cardinality({i \in DOMAIN out :
                /\ "kind" \in DOMAIN out[i].what /\ out[i].what.kind = "include" /\ Printable(out[i].what.path)
                /\ ResolvePath(out[i].what.path, Dir(out[i].path)) = p}) = 1

\* What is in the new program: a file's own items once, each missing one's include once.
ExpandedOnce == SplicedOnce /\ MissingKept

\* The walk ends, although a file that includes itself by a longer path is a new file
\* each time: the system refuses the path in the end.
ExpansionEnds == <>(stage \in {"done", "failed"})

NotAPath == <<>>
\* The paths the includes of a file lead to, those of no file left out and the root's,
\* which is walked from the start; a malformed include leads to no path.
PathsAsked(p) ==
    IF File[p] = Missing THEN {NotAPath} ELSE
    LET t == FormsOf(p)
        items == UNION {Range(t[i].items) : i \in {j \in DOMAIN FormsOf(p) : t[j].module \/ p = Root}}
        paths == {ResolvePath(x.path, Dir(p)) : x \in {y \in items : y.kind = "include" /\ Printable(y.path)}}
    IN ({q \in paths : File[q] # Missing} \ {Root})
       \cup {NotAPath : x \in {y \in items : y.kind = "error"}}

\* It implements the same closure as weavec0's walk, with paths in the place of files,
\* but fails over the root and malformed includes only, never over a missing file.
PathClosure == INSTANCE IncludeClosure WITH
    Files    <- Seq(Names) \ {NotAPath},
    NotFound <- NotAPath,
    merged   <- Read \ {Root},
    asks     <- [p \in Read \cup {Root} |-> PathsAsked(p)],
    outcome  <- CASE stage \in {"starting", "walking"} -> "open"
                  [] stage = "done"    -> "merged"
                  [] stage = "failed"  -> "failed"

ExpandsClosure == PathClosure!Spec

=============================================================================
