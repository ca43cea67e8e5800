------------------------------- MODULE IRText -------------------------------
(***************************************************************************)
(* The textual LLVM IR that weavec0 writes into its StrBuf, reduced to     *)
(* what decides whether the text is a well-formed function: which register *)
(* a line defines, which registers it reads, which labels it names and     *)
(* whether it ends a basic block (ir.c:34-48 spells temporaries and        *)
(* labels; env.c:61-80 spells the registers of named variables).           *)
(* The rules below are LLVM's, as the emitted text has to satisfy them.    *)
(***************************************************************************)
EXTENDS Naturals, Sequences

\* %t<n>: a temporary numbered by ir_fresh_temp.
Temp(n) == <<"t", n>>

\* %v_<name>_<i>: the alloca of the i-th name registered in the environment.
Slot_Bug(name, i) == <<"v", name, 0>>
Slot(name, i) == <<"v", name, i>>

\* One line of the function: the registers it defines and reads, the labels
\* it defines (a label line) or jumps to (a branch).
Line(op, def, use, to) == [op |-> op, def |-> def, use |-> use, to |-> to]

Inst(def, use) == Line("inst", def, use, {})
LabelDef(l)    == Line("label", {}, {}, {l})
Br(l)          == Line("br", {}, {}, {l})
CondBr(r, a, b) == Line("br", {}, {r}, {a, b})
Ret(use)       == Line("ret", {}, use, {})

IsTerminator(line) == line.op \in {"br", "ret"}

Labels(code) == UNION {code[i].to : i \in {j \in DOMAIN code : code[j].op = "label"}}
Targets(code) == UNION {code[i].to : i \in {j \in DOMAIN code : code[j].op = "br"}}

\* No label is defined by two lines.
UniqueLabels(code) ==
    \A i, j \in DOMAIN code :
        code[i].op = "label" /\ code[j].op = "label" /\ code[i].to = code[j].to => i = j

\* A label opens a basic block, so the line before it has to close one.
BlocksClosed(code) ==
    \A i \in DOMAIN code :
        code[i].op = "label" => i > 1 /\ IsTerminator(code[i - 1])

\* The text of a function that is complete ends in a terminator.
EndsInTerminator(code) == code # <<>> /\ IsTerminator(code[Len(code)])

=============================================================================
