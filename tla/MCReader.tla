------------------------------ MODULE MCReader -------------------------------
(* Every text of at most MaxLen characters, and texts long enough for the  *)
(* capacities of a buffer and of an array to overflow.                     *)
EXTENDS Reader

CONSTANTS MaxLen, LongText, LongList

Atoms(n) == [i \in 1..2 * n |-> IF i % 2 = 1 THEN "n" ELSE " "]
LongTexts ==
    {[i \in 1..LongText |-> "n"], Atoms(LongList),
     <<Quote>> \o [i \in 1..LongText |-> "n"] \o <<Quote>>,
     <<"(">> \o Atoms(LongList) \o <<")">>}
    \cup {[i \in 1..2 * LongList |-> IF i % 2 = 1 THEN "(" ELSE ")"]}

MCSources == BoundedSeq(Chars, MaxLen) \cup LongTexts
=============================================================================
