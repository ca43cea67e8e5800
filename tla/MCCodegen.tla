----------------------------- MODULE MCCodegen ------------------------------
(***************************************************************************)
(* Instances of Codegen for TLC. One run compiles two families of programs, *)
(* as deep as each can be followed: control flow around a few expressions,  *)
(* and every form with operands in little control flow. A program whose     *)
(* family or return type makes more of every node spends its first ones on  *)
(* statements that write nothing, so that fewer are left for it.            *)
(***************************************************************************)
EXTENDS Codegen

VARIABLE family

MCParams == <<[name |-> "x", ty |-> "i32"], [name |-> "x", ty |-> "i8ptr"]>>
MCFns == [f |-> [params |-> <<"i32", "i8ptr">>, ret |-> "i32"],
          g |-> [params |-> <<>>, ret |-> "void"]]

\* Nodes of a program that are spent on nothing, and activations of one with operands.
Skipped == (IF family = "data" THEN 2 ELSE 0) + (IF retTy = "void" THEN 1 ELSE 0)
DataDepth == 4

ControlNext ==
    \/ StmtSkip \/ CallReturn \/ CallLet \/ CallDo \/ CallIf \/ CallWhile \/ CallExprStmt
    \/ ExprConst \/ ExprVar \/ ExprBlock \/ Operand
    \/ ExprOp /\ stack'[Len(stack')].form = "arith"
    \/ Results \/ Lists \/ Finished

DataNext ==
    \/ StmtSkip \/ CallReturn \/ CallStore \/ CallLet \/ CallSet \/ CallIf \/ CallExprStmt
    \/ ExprConst \/ ExprString \/ ExprAddr \/ ExprAddrOf \/ ExprGetField \/ ExprBlock
    \/ ExprOp \/ CallNoArgs \/ Operand
    \/ Results \/ Lists \/ Finished

MCInit ==
    /\ Init
    /\ family \in {"control", "data"}
    /\ retTy # IF family = "control" THEN "i8ptr" ELSE "i32"
MCNext ==
    /\ \/ nodes < Skipped /\ (NextItem \/ StmtSkip \/ ItemDone)
       \/ nodes >= Skipped /\ family = "control" /\ ControlNext
       \/ nodes >= Skipped /\ family = "data" /\ DataNext /\ Len(stack') <= DataDepth
    /\ UNCHANGED family
MCSpec == MCInit /\ [][MCNext]_<<vars, family>>

\* docs/coding_guidelines/syntax.md says that get-field emits a GEP and a load and
\* returns the loaded value: compiling one adds lines to the text. It does not:
\* cg_builtin answers for the name (builtins.c:153-155) before cg_get_field is
\* reached (expr.c:781-790).
GetFieldReads == [][ExprGetField => code' # code]_vars

=============================================================================
