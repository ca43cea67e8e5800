------------------------------- MODULE Buffers -------------------------------
(***************************************************************************)
(* The growable buffers of the program: a StrBuf (common.c) keeps its      *)
(* characters, a terminator behind them and the capacity it has allocated, *)
(* a size_t of Width bits; the array of a list (sexpr.c) counts its        *)
(* capacity in pointers, in an int of IntWidth bits, and asks for bytes.   *)
(***************************************************************************)
EXTENDS Integers, Sequences

CONSTANTS
    Width,      \* bits of a size_t
    IntWidth,   \* bits of an int
    PointerBytes, \* sizeof(Node *)
    FirstChars, \* capacity of a StrBuf when it is allocated (256)
    FirstItems  \* capacity of a list's array when it is allocated (8)

\* A size_t says how many bytes the pointers take that an unsigned int can count. The last two
\* lines are true of all widths; the provers know nothing of powers.
ASSUME BuffersAssumption ==
    /\ Width \in Nat \ {0} /\ IntWidth \in Nat \ {0, 1} /\ PointerBytes \in Nat \ {0}
    /\ FirstChars \in 1..2^Width - 2 /\ FirstItems \in 1..2^(IntWidth - 1) - 1
    /\ 2^IntWidth * PointerBytes <= 2^Width
    /\ 2^Width \in Nat /\ 2^(Width - 1) \in Nat /\ 2^Width = 2 * 2^(Width - 1)
    /\ 2^(IntWidth - 2) \in Nat \ {0} /\ 2^(IntWidth - 1) = 2 * 2^(IntWidth - 2) /\ 2^IntWidth = 2 * 2^(IntWidth - 1)

Hangs == 0      \* stands for the capacity of a loop that never ends

\* The capacity after k rounds of the loop in sb_reserve, which wraps.
Rounds(from) ==
    LET after[k \in 0..2^Width] == IF k = 0 THEN from ELSE (2 * after[k - 1]) % 2^Width IN after

\* The loop ends when the need is met; with no more than 2^Width capacities there are, one
\* of those many rounds meets it or none does.
FirstOf(after, need) ==
    LET enough == {k \in DOMAIN after : after[k] >= need} IN
    IF enough = {} THEN Hangs ELSE after[CHOOSE k \in enough : \A j \in enough : k <= j]
Doubled_Bug(cap, need) == FirstOf(Rounds(cap), need)   \* not allocated yet: nothing to double
Doubled(cap, need) == FirstOf(Rounds(IF cap = 0 THEN FirstChars ELSE cap), need)

EmptyBuf == [text |-> <<>>, cap |-> 0]

\* sb_append_ch: room for the character and for the terminator behind it.
CharNeeds_Bug(b) == (Len(b.text) + 1) % 2^Width
CharNeeds(b) == (Len(b.text) + 2) % 2^Width
Append1(b, ch) ==
    [text |-> Append(b.text, ch),
     cap  |-> IF CharNeeds(b) <= b.cap THEN b.cap ELSE Doubled(b.cap, CharNeeds(b))]

\* An int that overflows wraps.
AsInt(n) == ((n + 2^(IntWidth - 1)) % 2^IntWidth) - 2^(IntWidth - 1)

\* What xrealloc asks for when it is to hold that many pointers.
Bytes_Bug(items) == items % 2^Width
Bytes(items) == LET n == (items * PointerBytes) % 2^Width IN IF n = 0 THEN 1 ELSE n

\* The array of a list that gets one more item doubles when it is full. The capacity is
\* an int; a compiler may compute the bytes from it or from what does not fit an int.
NoArray == [cap |-> 0, room |-> 0]
Grown(cap) == IF cap = 0 THEN FirstItems ELSE 2 * cap
Full(array, count) == count + 1 > array.cap
Arrays(array, count) ==
    IF ~Full(array, count) THEN {array}
    ELSE [cap : {AsInt(Grown(array.cap))}, room : {Bytes(Grown(array.cap)), Bytes(AsInt(Grown(array.cap)))}]

Fits(array, count) == (count + 1) * PointerBytes <= array.room
Holds(b) == b = EmptyBuf \/ Len(b.text) + 1 <= b.cap
=============================================================================
