----------------------------- MODULE UnionTable -----------------------------
(***************************************************************************)
(* The union table shared by the SymFit instrumentation and the FastGen    *)
(* core (interface.cc: __union_table, dfsan_label_info).  A label indexes  *)
(* one expression node; label 0 is the concrete constant and labels below  *)
(* CONST_OFFSET or equal to kInitializingLabel are invalid.  The table of  *)
(* one trace is a constant of the model: FastGen only reads it.            *)
(***************************************************************************)
EXTENDS Integers, FiniteSets

CONSTANTS
    MaxLabel,      \* highest label the trace allocates
    ConstOffset,   \* CONST_OFFSET of the dfsan runtime
    InitLabel,     \* kInitializingLabel, (dfsan_label)-1: above every label
    MaxDepth,      \* the depth above which a tree is rejected (500)
    Offsets,       \* input byte offsets
    Table          \* [1..MaxLabel -> Node]

\* dfsan operator classes as get_input_deps and serialize dispatch on them.
InputOp  == "input"                         \* op == 0: an input byte
LoadOp   == "load"                          \* DFSAN_LOAD: l2 bytes from base
ExtOps   == {"zext", "sext", "trunc", "extract"}  \* recurse into l1
NegOps   == {"not", "neg"}                  \* recurse into l2
BinOps   == {"icmp", "add", "and"}          \* common ops: l1 and l2 operands
Ops      == {InputOp, LoadOp} \cup ExtOps \cup NegOps \cup BinOps

\* dfsan_label_info with the fields the core reads: operands l1/l2, the
\* constants op1/op2 (op1 of an input node is its offset), op, the ICmp
\* predicate, the width, the tree size and the tree depth.
Node == [op : Ops, l1 : Nat, l2 : Nat, op1 : Nat, op2 : Nat,
         pred : {"eq", "ne", "ult"}, size : Nat, tsize : Nat, depth : Nat]

\* update_graph drops a branch whose tree has more than 50000 nodes.
MaxTreeSize == 50000

\* The label check at the top of get_input_deps and serialize.
ValidLabel(l) == l >= ConstOffset /\ l # InitLabel

\* info->depth > 500: the tree is rejected.
TooDeep(l) == Table[l].depth > MaxDepth

\* The offsets a DFSAN_LOAD node reads: op1 of its base, then l2 - 1 more.
LoadOffsets(n) ==
    {Table[n.l1].op1} \cup {Table[n.l1].op1 + i : i \in 1..(n.l2 - 1)}

=============================================================================
