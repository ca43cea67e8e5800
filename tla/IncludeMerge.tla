---------------------------- MODULE IncludeMerge ----------------------------
(***************************************************************************)
(* How weavec0 merges the files a program includes (fs.c): the syntax tree *)
(* of the input is walked, the forms of an included file are appended to   *)
(* the list that holds the include, and that list is still being walked.   *)
(*                                                                         *)
(* Lists are heap objects, as in the code: a module that was parsed as part *)
(* of a file is shared by the file's own list and by every list its items   *)
(* were appended to. What a file contains is chosen when it is read first.  *)
(*                                                                         *)
(* A definition whose name ends in _Bug is a mistake the code could have    *)
(* made; only the mutation runs use it, in place of the one after it.       *)
(***************************************************************************)
EXTENDS Naturals, Sequences, FiniteSets

CONSTANTS
    Files,        \* files, by the canonical names realpath gives
    Main,         \* the canonical name of the input file
    Input,        \* the input's path as it was given, the name it is parsed under
    Dirs,         \* directories
    Disk,         \* existing paths <<directory, name>> with the file each denotes
    DirOf,        \* directory of a canonical name or of the input (dir_name, compute_base_dir)
    IncludeDirs,  \* the -I directories in order, or the default
    CWD,          \* current directory
    Incs,         \* what an include may say: [rel, name], rel for ./ and ../
    Texts,        \* what a file may contain: file |-> set of texts
    NotFound      \* not a file

\* A text is a sequence of lists, the first one the top of the file; an item is a
\* form, an include, or a module (or program) whose items are another list.
Positions(ls)   == UNION {{i} \X DOMAIN ls[i] : i \in DOMAIN ls}
Where(ls, kind) == {p \in Positions(ls) : ls[p[1]][p[2]].kind = kind}

ASSUME FilesAssumption == Main \in Files /\ NotFound \notin Files /\ Input \notin Files
ASSUME DiskAssumption ==
    /\ Disk \in [DOMAIN Disk -> Files]
    /\ DirOf \in [Files \cup {Input} -> Dirs]
    /\ IncludeDirs \in Seq(Dirs) /\ CWD \in Dirs
ASSUME TextsAssumption ==
    /\ DOMAIN Texts = Files
    /\ \A f \in Files : \A t \in Texts[f] :
          /\ t \in Seq(Seq([kind : {"form", "include", "module"}, inc : Incs, list : Nat]))
          /\ t # <<>>
          /\ \A p \in Where(t, "module") : t[p[1]][p[2]].list \in p[1] + 1..Len(t)
          /\ \A i \in 2..Len(t) : Cardinality({p \in Where(t, "module") : t[p[1]][p[2]].list = i}) = 1

VARIABLES
    text,      \* contents of the files read so far
    lists,     \* the lists of the syntax trees
    stack,     \* activations of merge_includes_in_list, innermost last
    included,  \* the canonical names in included_files
    status     \* "walking", "done" or "failed"

vars == <<text, lists, stack, included, status>>

-----------------------------------------------------------------------------
\* resolve_include_path: a relative include is looked for in the directory of the
\* file alone, any other in the include directories and then in the current one.
Places(inc, dir) == IF inc.rel THEN <<dir>> ELSE Append(IncludeDirs, CWD)

Resolve(inc, dir) ==
    LET places == Places(inc, dir)
        hits   == {i \in DOMAIN places : <<places[i], inc.name>> \in DOMAIN Disk}
    IN IF hits = {} THEN NotFound
       ELSE Disk[<<places[CHOOSE i \in hits : \A j \in hits : i <= j], inc.name>>]

\* parse_top: the nodes of a file, in lists of their own. Every node knows the
\* file it was read from.
Parsed(f, t, n) ==
    [i \in DOMAIN t |-> [j \in DOMAIN t[i] |->
        [kind |-> t[i][j].kind, inc |-> t[i][j].inc, list |-> n + t[i][j].list, home |-> f]]]

\* An activation: the list it walks, its index, the directory includes are
\* relative to, the file, and for a file the list its forms are appended to.
Frame(list, dir, file, into) ==
    [list |-> list, at |-> 1, dir |-> dir, file |-> file, into |-> into]

Top     == stack[Len(stack)]
Callers == SubSeq(stack, 1, Len(stack) - 1)
Caller  == Callers[Len(Callers)]
InList  == Top.at <= Len(lists[Top.list])
Item    == lists[Top.list][Top.at]

\* The loop goes on with the next item, also when it lies behind those the list
\* had when the walk began.
Advanced_Bug(frames) == frames
Advanced(frames) == [frames EXCEPT ![Len(frames)].at = @ + 1]

\* The head of an include that was followed is blanked: appended to another list,
\* it is no longer an include.
Blanked_Bug(list, i) == lists[list]
Blanked(list, i) == [lists[list] EXCEPT ![i].kind = "blank"]

Init ==
    /\ \E t \in Texts[Main] :
          /\ text = [f \in {Input} |-> t]
          /\ lists = Parsed(Input, t, 0)
    /\ stack = <<Frame(1, DirOf[Input], Input, 0)>>
    /\ included = {}
    /\ status = "walking"

-----------------------------------------------------------------------------
\* A form that is no include, a blanked include, an item without a head.
SkipItem ==
    /\ status = "walking" /\ InList
    /\ Item.kind \in {"form", "blank"}
    /\ stack' = Advanced(stack)
    /\ UNCHANGED <<text, lists, included, status>>

\* The items of a module are walked for the same file and directory.
ModuleDir_Bug == CWD
ModuleDir == Top.dir
EnterModule ==
    /\ status = "walking" /\ InList
    /\ Item.kind = "module"
    /\ stack' = Append(stack, Frame(Item.list, ModuleDir, Top.file, 0))
    /\ UNCHANGED <<text, lists, included, status>>

AtInclude(f) ==
    /\ status = "walking" /\ InList
    /\ Item.kind = "include"
    /\ f = Resolve(Item.inc, Top.dir)

\* exit(1)
IncludeMissing ==
    /\ AtInclude(NotFound)
    /\ status' = "failed"
    /\ UNCHANGED <<text, lists, stack, included>>

\* sl_contains compares canonical names, so no second path reaches a merged file.
IncludeKnown ==
    /\ \E f \in included : AtInclude(f)
    /\ lists' = [lists EXCEPT ![Top.list] = Blanked(Top.list, Top.at)]
    /\ stack' = Advanced(stack)
    /\ UNCHANGED <<text, included, status>>

\* The name is entered before the file is read and its own includes are merged.
Entered_Bug(f) == included
Entered(f) == included \cup {f}

\* The forms go behind those of the list that holds the include.
Target_Bug == 1
Target == Top.list

\* Nobody writes to the input between the two times it is read.
Contents(f) == IF f = Main THEN {text[Input]} ELSE Texts[f]

IncludeNew ==
    /\ \E f \in Files \ included :
          /\ AtInclude(f)
          /\ included' = Entered(f)
          /\ \E t \in Contents(f) :
                /\ text' = [g \in DOMAIN text \cup {f} |-> IF g = f THEN t ELSE text[g]]
                /\ lists' = lists \o Parsed(f, t, Len(lists))
          /\ stack' = Append(stack, Frame(Len(lists) + 1, DirOf[f], f, Target))
    /\ UNCHANGED status

\* merge_file_into appends what the file's list holds by then, the forms of its
\* own includes among it, and the caller blanks the include and goes on.
FileForms_Bug == SubSeq(lists[Top.list], 1, Len(text[Top.file][1]))
FileForms == lists[Top.list]

EndFile ==
    /\ status = "walking" /\ ~InList
    /\ Top.into # 0
    /\ lists' = [lists EXCEPT ![Top.into] = Blanked(Top.into, Caller.at) \o FileForms]
    /\ stack' = Advanced(Callers)
    /\ UNCHANGED <<text, included, status>>

EndModule ==
    /\ status = "walking" /\ ~InList
    /\ Top.into = 0 /\ Callers # <<>>
    /\ stack' = Advanced(Callers)
    /\ UNCHANGED <<text, lists, included, status>>

EndMain ==
    /\ status = "walking" /\ ~InList
    /\ Callers = <<>>
    /\ status' = "done"
    /\ UNCHANGED <<text, lists, stack, included>>

Finished == status # "walking" /\ UNCHANGED vars

Next == SkipItem \/ EnterModule \/ IncludeMissing \/ IncludeKnown \/ IncludeNew
        \/ EndFile \/ EndModule \/ EndMain \/ Finished

\* One process runs until the walk ends.
Spec == Init /\ [][Next]_vars /\ WF_vars(Next)

-----------------------------------------------------------------------------
(* Properties.                                                             *)

ItemSet  == [kind : {"form", "include", "module", "blank"}, inc : Incs, list : Nat,
             home : Files \cup {Input}]
FrameSet == [list : 1..Len(lists), at : Nat \ {0}, dir : Dirs, file : Files \cup {Input}, into : 0..Len(lists)]

\* The walk stays inside lists that exist: an index is at most one past the end,
\* the forms of a file go to the list of the activation below it, which waits at
\* the include, and every name in included belongs to a file that was read.
TypeOK ==
    /\ DOMAIN text = included \cup {Input} /\ included \subseteq Files
    /\ \A f \in DOMAIN text : text[f] \in Texts[IF f = Input THEN Main ELSE f]
    /\ lists \in Seq(Seq(ItemSet))
    /\ stack \in Seq(FrameSet)
    /\ \A k \in DOMAIN stack : stack[k].at <= Len(lists[stack[k].list]) + 1
    /\ \A k \in DOMAIN stack : stack[k].into # 0 => k > 1 /\ stack[k].into = stack[k - 1].list
    /\ status \in {"walking", "done", "failed"}

\* An include is only ever resolved against the directory of the file it was
\* written in, although its node ends up in the lists of other files, which are
\* walked for other directories (the blanking at fs.c:199-200).
OwnDirectory ==
    status = "walking" /\ InList /\ Item.kind = "include" => Top.dir = DirOf[Item.home]

\* A file that is being merged is not merged again inside itself, however the
\* files include each other (sl_push before merge_file_into, fs.c:193-195).
NoReentry ==
    \A i, j \in DOMAIN stack :
        stack[i].into # 0 /\ stack[j].into # 0 /\ stack[i].file = stack[j].file => i = j

\* The walk is where it should be: inside lists that exist, in the directory of what it
\* reads, and in no file a second time (fs.c:173-206).
WalkSound == TypeOK /\ OwnDirectory /\ NoReentry

\* The lists of the tree below a list: those in every set that has the list and, with the
\* list that holds a module, the module's.
Below(l) ==
    LET modules == Where(lists, "module")
        closed  == {S \in SUBSET DOMAIN lists :
                      l \in S /\ \A p \in modules : p[1] \in S => lists[p[1]][p[2]].list \in S}
    IN {i \in DOMAIN lists : \A S \in closed : i \in S}

FormsIn(t) == Where(t, "form")

\* When the walk is over, the tree holds each form of the input and of each included
\* file, in modules too, once, and every module at one place only. A program that
\* includes its own input holds its forms twice: the input is merged as a file then,
\* because its name is not in included_files (main.c:221-224).
FormsOnce ==
    status = "done" =>
        LET tree == Below(1)
            here(kind) == {p \in Where(lists, kind) : p[1] \in tree}
        IN /\ \A f \in DOMAIN text :
                 Cardinality({p \in here("form") : lists[p[1]][p[2]].home = f}) = Cardinality(FormsIn(text[f]))
           /\ Cardinality(here("module")) = Cardinality(tree) - 1

\* The walk ends, although the list it walks grows while it walks.
Terminates == <>(status # "walking")

\* What the includes of a file ask for, wherever in the file they are.
Asked(f) == {Resolve(text[f][p[1]][p[2]].inc, DirOf[f]) : p \in Where(text[f], "include")}

\* The walk implements the closure: every file is merged because a merged file
\* asks for it, none is left out, and of what is modelled only a missing file makes it
\* fail. (main also exits over a file that cannot be read or parsed, and a path that
\* realpath does not know is kept as it is spelled: neither is in this module.)
Closure == INSTANCE IncludeClosure WITH
    Root    <- Input,
    merged  <- included,
    asks    <- [f \in DOMAIN text |-> Asked(f)],
    outcome <- CASE status = "walking" -> "open"
                 [] status = "done"    -> "merged"
                 [] status = "failed"  -> "failed"

ImplementsClosure == Closure!Spec

=============================================================================
