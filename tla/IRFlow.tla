------------------------------- MODULE IRFlow -------------------------------
(***************************************************************************)
(* Control flow of an emitted function: which line follows which, and the  *)
(* two rules of LLVM that depend on it. A line after a terminator that     *)
(* carries no label opens a block nobody jumps to, as LLVM reads it.       *)
(***************************************************************************)
EXTENDS IRText, FiniteSets

\* Lines control may reach next; a branch goes to the labels it names.
Successors(code, i) ==
    CASE code[i].op = "ret" -> {}
      [] code[i].op = "br"  -> {j \in DOMAIN code : code[j].op = "label" /\ code[j].to \subseteq code[i].to}
      [] OTHER              -> {i + 1} \cap DOMAIN code

\* Lines reachable from a set without passing through a line of avoid.
Reach(code, from, avoid) ==
    LET grow[S \in SUBSET DOMAIN code] ==
            LET T == S \cup ((UNION {Successors(code, i) : i \in S}) \ avoid)
            IN IF T = S THEN S ELSE grow[T]
    IN grow[from \ avoid]

Entry(code) == {1} \cap DOMAIN code

Definers(code, r) == {i \in DOMAIN code : r \in code[i].def}

\* A definition dominates a use when no path reaches the use around it.
Dominated(code, r) ==
    LET around == Reach(code, Entry(code), Definers(code, r))
    IN \A i \in DOMAIN code : r \in code[i].use => i \notin around

Used(code) == UNION {code[i].use : i \in DOMAIN code}

\* From every line the function can reach, it can still return.
CanReturn(code) ==
    \A i \in Reach(code, Entry(code), {}) :
        \E j \in Reach(code, {i}, {}) : code[j].op = "ret"

=============================================================================
