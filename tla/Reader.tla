------------------------------- MODULE Reader --------------------------------
(***************************************************************************)
(* The lexer and the parser of weavec0 (lexer.c, sexpr.c): one step reads  *)
(* one character. lex_next is called from parse_node or from the innermost *)
(* parse_list, so what the call stack holds are the lists that are open.   *)
(*                                                                         *)
(* A character stands for its class: n for one an escape changes and an    *)
(* atom may have, a space for every blank but the newline. A node also     *)
(* remembers the characters it was read from, from start to end - 1, which *)
(* only the properties look at; a list that is open has end 0.             *)
(***************************************************************************)
EXTENDS Buffers, SequencesExt

CONSTANTS
    Sources   \* bound: the source texts

Quote == "\""
Chars == {"(", ")", Quote, ";", "\\", "\n", " ", "n"}

ASSUME ReaderAssumption == Sources \subseteq Seq(Chars)

VARIABLES
    src,      \* the text
    pos,      \* lx->pos, from 1
    line, col,
    mode,     \* the loop the lexer is in, or how parse_top ended
    token,    \* where the token being read begins
    buf,      \* its text
    nodes,    \* the nodes allocated, in that order; items are indices into it
    open      \* the lists being parsed, the top level first

vars == <<src, pos, line, col, mode, token, buf, nodes, open>>

EOF    == "EOF"
Spaces == {" ", "\n"}
AtomChar_Bug(ch) == ch \notin Spaces \cup {"(", ")", Quote, EOF}
AtomChar(ch)     == ch \notin Spaces \cup {"(", ")", Quote, ";", EOF}

Peek == IF pos > Len(src) THEN EOF ELSE src[pos]
Here == [start |-> pos, line |-> line, col |-> col]

\* lex_get.
Get_Bug == pos' = pos + 1 /\ line' = (IF Peek = "\n" THEN line + 1 ELSE line) /\ col' = col + 1
Get ==
    /\ pos' = pos + 1
    /\ IF Peek = "\n" THEN line' = line + 1 /\ col' = 1 ELSE line' = line /\ col' = col + 1
Stay == UNCHANGED <<pos, line, col>>

Node(kind, from, to, text) ==
    [kind |-> kind, start |-> from.start, line |-> from.line, col |-> from.col, end |-> to,
     text |-> text, items |-> <<>>, array |-> NoArray]

\* node_list_push, into the innermost of the lists; a is the array it then has.
Pushed(list, i, a) == [list EXCEPT !.items = Append(@, i), !.array = a]
PushInto_Bug(heap, lists, i, a) == [heap EXCEPT ![Head(lists)] = Pushed(@, i, a)]
PushInto(heap, lists, i, a) == [heap EXCEPT ![Last(lists)] = Pushed(@, i, a)]

\* The arrays list l may have for one more item.
ArraysOf(l) == Arrays(nodes[l].array, Len(nodes[l].items))
Outer == open[Len(open) - 1]
RoomIn(a, l) == a \in ArraysOf(l) /\ Fits(a, Len(nodes[l].items))

Init ==
    /\ src \in Sources
    /\ pos = 1 /\ line = 1 /\ col = 1
    /\ mode = "skip"
    /\ token = Here
    /\ buf = EmptyBuf
    /\ nodes = <<Node("list", [Here EXCEPT !.line = 0, !.col = 0], 0, <<>>)>>
    /\ open = <<1>>

\* lex_skip_ws_and_comments.
SkipSpace ==
    /\ mode = "skip" /\ Peek \in Spaces
    /\ Get /\ UNCHANGED <<src, mode, token, buf, nodes, open>>

StartComment ==
    /\ mode = "skip" /\ Peek = ";"
    /\ Get /\ mode' = "comment" /\ UNCHANGED <<src, token, buf, nodes, open>>

CommentChar_Bug ==
    /\ mode = "comment" /\ Peek # EOF
    /\ Get /\ mode' = IF Peek = "\n" THEN "skip" ELSE "comment"
    /\ UNCHANGED <<src, token, buf, nodes, open>>
CommentChar ==
    /\ mode = "comment"
    /\ IF Peek = EOF THEN Stay /\ mode' = "skip"
       ELSE Get /\ mode' = IF Peek = "\n" THEN "skip" ELSE "comment"
    /\ UNCHANGED <<src, token, buf, nodes, open>>

OpenList ==
    /\ mode = "skip" /\ Peek = "("
    /\ Get /\ token' = Here
    /\ nodes' = Append(nodes, Node("list", Here, 0, <<>>))
    /\ open' = Append(open, Len(nodes) + 1)
    /\ UNCHANGED <<src, mode, buf>>

\* A parenthesis too many at the top level is fatal.
CloseList ==
    /\ mode = "skip" /\ Peek = ")"
    /\ Get /\ token' = Here
    /\ IF Len(open) = 1 THEN mode' = "died" /\ UNCHANGED <<nodes, open>>
       ELSE \E a \in ArraysOf(Outer) :
              /\ RoomIn(a, Outer)
              /\ nodes' = PushInto([nodes EXCEPT ![Last(open)].end = pos + 1], Front(open), Last(open), a)
              /\ open' = Front(open) /\ UNCHANGED mode
    /\ UNCHANGED <<src, buf>>

\* The end of the text: of the program, or inside a list.
EndOfText_Bug ==
    /\ mode = "skip" /\ Peek = EOF
    /\ mode' = "done"
    /\ token' = Here /\ Stay /\ UNCHANGED <<src, buf, nodes, open>>
EndOfText ==
    /\ mode = "skip" /\ Peek = EOF
    /\ mode' = IF Len(open) = 1 THEN "done" ELSE "died"
    /\ token' = Here /\ Stay /\ UNCHANGED <<src, buf, nodes, open>>

StartAtom ==
    /\ mode = "skip" /\ AtomChar(Peek)
    /\ mode' = "atom" /\ token' = Here /\ buf' = EmptyBuf
    /\ Stay /\ UNCHANGED <<src, nodes, open>>

StartString ==
    /\ mode = "skip" /\ Peek = Quote
    /\ mode' = "string" /\ token' = Here /\ buf' = EmptyBuf
    /\ Get /\ UNCHANGED <<src, nodes, open>>

\* A character goes into the buffer; the loop of sb_reserve may not end.
Keep(ch, next) ==
    /\ Get
    /\ buf' = Append1(buf, ch)
    /\ mode' = IF buf'.cap = Hangs THEN "hung" ELSE next
    /\ UNCHANGED <<src, token, nodes, open>>

Leaf(kind, to) ==
    /\ \E a \in ArraysOf(Last(open)) :
          /\ RoomIn(a, Last(open))
          /\ nodes' = PushInto(Append(nodes, Node(kind, token, to, buf.text)), open, Len(nodes) + 1, a)
    /\ mode' = "skip" /\ UNCHANGED <<src, token, buf, open>>

\* lex_read_while(is_atom_char).
ReadAtom ==
    /\ mode = "atom"
    /\ IF AtomChar(Peek) THEN Keep(Peek, "atom") ELSE Leaf("atom", pos) /\ Stay

Dies == mode' = "died" /\ Stay /\ UNCHANGED <<src, token, buf, nodes, open>>

\* lex_read_string.
ReadString ==
    /\ mode = "string"
    /\ \/ Peek = EOF /\ Dies
       \/ Peek = Quote /\ Get /\ Leaf("string", pos + 1)
       \/ Peek = "\\" /\ Get /\ mode' = "escape" /\ UNCHANGED <<src, token, buf, nodes, open>>
       \/ Peek \notin {EOF, Quote, "\\"} /\ Keep(Peek, "string")

Escaped_Bug(ch) == ch
Escaped(ch) == IF ch = "n" THEN "\n" ELSE ch
ReadEscape_Bug == mode = "escape" /\ Keep(Escaped(Peek), "string")
ReadEscape ==
    /\ mode = "escape"
    /\ IF Peek = EOF THEN Dies ELSE Keep(Escaped(Peek), "string")

\* What allocates: a list that begins, a leaf or a list that ends, a character to keep.
LeafEnds == (mode = "atom" /\ ~AtomChar(Peek)) \/ (mode = "string" /\ Peek = Quote)
ListEnds == mode = "skip" /\ Peek = ")" /\ Len(open) # 1
CharKept ==
    \/ mode = "atom" /\ AtomChar(Peek)
    \/ mode = "string" /\ Peek \notin {EOF, Quote, "\\"}
    \/ mode = "escape" /\ Peek # EOF

Stops(how) ==
    /\ mode' = how /\ token' = IF mode = "skip" THEN Here ELSE token
    /\ Stay /\ UNCHANGED <<src, buf, nodes, open>>

\* xmalloc or xrealloc finds no memory.
OutOfMemory ==
    /\ \/ mode = "skip" /\ Peek = "("
       \/ LeafEnds
       \/ ListEnds /\ Full(nodes[Outer].array, Len(nodes[Outer].items))
       \/ CharKept /\ Append1(buf, Peek).cap \notin {buf.cap, Hangs}
    /\ Stops("exhausted")

\* An item is written beyond the array it belongs in; what follows is undefined.
Overrun ==
    /\ \E l \in DOMAIN nodes :
          /\ (LeafEnds /\ l = Last(open)) \/ (ListEnds /\ l = Outer)
          /\ \E a \in ArraysOf(l) : ~RoomIn(a, l)
    /\ Stops("overrun")

Next ==
    \/ SkipSpace \/ StartComment \/ CommentChar
    \/ OpenList \/ CloseList \/ EndOfText
    \/ StartAtom \/ ReadAtom \/ StartString \/ ReadString \/ ReadEscape
    \/ OutOfMemory \/ Overrun

\* One thread reads, and stops only when the text is parsed or found wrong.
Spec == Init /\ [][Next]_vars /\ WF_vars(Next)

-----------------------------------------------------------------------------
(* Properties.                                                             *)

Ended == {"done", "died", "hung", "exhausted", "overrun"}

\* Every variable is in its range; outside of a token the lists on the stack are all
\* that is being built.
TypeOK ==
    /\ src \in Seq(Chars) /\ pos \in 1..Len(src) + 1 /\ line \in 1..pos /\ col \in 1..pos
    /\ mode \in {"skip", "comment", "atom", "string", "escape"} \cup Ended
    /\ token.start \in 1..pos
    /\ buf.text \in Seq(Chars) /\ buf.cap \in 0..2^Width - 1
    /\ \A i \in DOMAIN nodes : nodes[i].end = 0 <=> i \in Range(open)
    /\ open[1] = 1 /\ \A i \in DOMAIN open : open[i] \in DOMAIN nodes /\ nodes[open[i]].kind = "list"

SameLine(k, i) == \A j \in k..i - 1 : src[j] # "\n"
At(i, n) == /\ n.line = 1 + Cardinality({k \in 1..i - 1 : src[k] = "\n"})
            /\ n.col = Cardinality({k \in 1..i : SameLine(k, i)})

\* The line and column of every node but the program itself, and of the token an error is
\* reported at, are those of its first character, whatever comments and strings lie
\* between (lex_get counts, lex_next copies after the blanks).
PositionsRight == At(token.start, token) /\ \A i \in DOMAIN nodes \ {1} : At(nodes[i].start, nodes[i])

Leaves == {i \in DOMAIN nodes : nodes[i].kind # "list"}
Lists  == DOMAIN nodes \ Leaves
Closed == {i \in DOMAIN nodes : nodes[i].end # 0}
Covered == (UNION {nodes[i].start..nodes[i].end - 1 : i \in Leaves})
           \cup {nodes[i].start : i \in Lists \ {1}} \cup {nodes[i].end - 1 : i \in Lists \cap Closed}

\* When parsing succeeds, every character is part of exactly one atom, string or
\* parenthesis, or is blank, or follows a semicolon that is part of none on its line;
\* no atom could have been longer.
TextTiled ==
    mode = "done" =>
        /\ \A i, j \in Leaves : i < j => nodes[i].end <= nodes[j].start
        /\ \A i \in Leaves : LET n == nodes[i] IN n.kind = "atom" =>
              /\ \A k \in n.start..n.end - 1 : src[k] \in {"n", "\\"}
              /\ n.start # 1 => src[n.start - 1] \notin {"n", "\\"}
              /\ n.end <= Len(src) => src[n.end] \notin {"n", "\\"}
        /\ \A i \in DOMAIN src \ Covered :
              \/ src[i] \in Spaces
              \/ \E k \in 1..i : src[k] = ";" /\ SameLine(k, i) /\ k..i \cap Covered = {}

\* List l is around node i.
Around(l, i) ==
    /\ l \in Lists /\ l # i
    /\ l = 1 \/ nodes[l].start < nodes[i].start
    /\ nodes[l].end = 0 \/ nodes[i].end \in 1..nodes[l].end - 1

\* The tree nests as the parentheses do: a list begins and ends with its own, its items
\* are what it is the innermost list around, one after the other, and nothing that was
\* read is left out.
TreeNests ==
    /\ \A l \in Lists \ {1} : src[nodes[l].start] = "("
    /\ \A l \in Lists \cap Closed : src[nodes[l].end - 1] = ")"
    /\ \A l \in DOMAIN nodes : LET items == nodes[l].items IN
          /\ \A k \in DOMAIN items :
                /\ items[k] \in Closed /\ Around(l, items[k])
                /\ \A m \in DOMAIN nodes : Around(m, items[k]) => m = l \/ Around(m, l)
          /\ \A k \in 2..Len(items) : nodes[items[k - 1]].end <= nodes[items[k]].start
    /\ \A i \in Closed : \E l \in DOMAIN nodes : i \in Range(nodes[l].items)

\* Whether character i of a string that begins at q comes after an odd number of backslashes.
Slashes(q, i)   == {k \in q + 1..i - 1 : \A j \in k..i - 1 : src[j] = "\\"}
IsEscaped(q, i) == Cardinality(Slashes(q, i)) % 2 = 1

\* The characters up to i that stand for one, and for which.
Spoken(q, i) == {k \in q + 1..i : src[k] = "\\" => IsEscaped(q, k)}
Says(q, k)   == IF IsEscaped(q, k) /\ src[k] = "n" THEN "\n" ELSE src[k]

\* What a leaf holds is what the text says between its ends, through however many
\* reallocations, and a string ends at its first quote that is not escaped.
TextKept ==
    \A i \in Leaves : LET n == nodes[i] IN
        \/ n.kind = "atom" /\ n.text = SubSeq(src, n.start, n.end - 1)
        \/ LET last == n.end - 1 IN
           /\ src[n.start] = Quote /\ src[last] = Quote
           /\ \A k \in n.start + 1..last : src[k] = Quote => (k = last <=> ~IsEscaped(n.start, k))
           /\ Len(n.text) = Cardinality(Spoken(n.start, last - 1))
           /\ \A k \in Spoken(n.start, last - 1) : n.text[Cardinality(Spoken(n.start, k))] = Says(n.start, k)

\* The tree is the tree of the text: it nests as the text does, and its leaves are what
\* the text says (sexpr.c:30-106, lexer.c:41-81).
TreeOfText == TextTiled /\ TreeNests /\ TextKept

\* The language of the texts it accepts, read left to right: what a character is in,
\* and how deep in lists; a depth of 0 is below the top level.
ScanCode(at, ch) ==
    CASE ch = ";"  -> [at EXCEPT !.in = "comment"]
      [] ch = Quote -> [at EXCEPT !.in = "string"]
      [] ch = "("  -> [at EXCEPT !.depth = @ + 1]
      [] ch = ")"  -> [at EXCEPT !.depth = @ - 1]
      [] OTHER     -> at
Scan(at, ch) ==
    IF at.depth = 0 THEN at
    ELSE CASE at.in = "code"    -> ScanCode(at, ch)
           [] at.in = "comment" -> IF ch = "\n" THEN [at EXCEPT !.in = "code"] ELSE at
           [] at.in = "escape"  -> [at EXCEPT !.in = "string"]
           [] at.in = "string"  -> IF ch = Quote THEN [at EXCEPT !.in = "code"]
                                   ELSE IF ch = "\\" THEN [at EXCEPT !.in = "escape"] ELSE at
Scans ==
    LET at[i \in 0..Len(src)] == IF i = 0 THEN [in |-> "code", depth |-> 1] ELSE Scan(at[i - 1], src[i])
    IN at
Scanned == Scans[Len(src)]

\* It accepts the balanced texts whose strings end, and no other.
AcceptsBalanced ==
    mode \in {"done", "died"} =>
        (mode = "done" <=> Scanned.depth = 1 /\ Scanned.in \in {"code", "comment"})

\* sb_reserve loops for ever only for a text that half the address space cannot hold
\* (common.c:46-50).
HangsAtLimit == mode = "hung" => Len(buf.text) + 1 > 2^(Width - 1)

\* An item is written beyond its array only in a list so long that doubling its capacity
\* overflows an int (sexpr.c:20-24).
OverrunsAtLimit == mode = "overrun" => \E i \in DOMAIN nodes : Len(nodes[i].items) > 2^(IntWidth - 2)

\* A buffer has room for its text and the terminator, and a list for its items, until the
\* capacities overflow (common.c:46-70, sexpr.c:19-28).
CapacityKept == (mode # "hung" => Holds(buf)) /\ HangsAtLimit /\ OverrunsAtLimit

\* Every text is read to its end, or refused; the loop of sb_reserve that never ends
\* counts as an end, and so does a write beyond an array: CapacityKept says when they
\* can happen.
Terminates == <>(mode \in Ended)

=============================================================================
