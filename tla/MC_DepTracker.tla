---------------------------- MODULE MC_DepTracker ----------------------------
(***************************************************************************)
(* A union table of four input bytes.  The branches' deps overlap so that  *)
(* components grow, merge and chain: 8 reads bytes 1-2, 9 bytes 2-3        *)
(* through a two-byte load, 10 byte 2 through a NOT and 11 byte 3;        *)
(* get_input_deps throws for 13 (too deep) and 14 (uninitialized operand). *)
(***************************************************************************)
EXTENDS DepTracker, TLC

Leaf(off) == [op |-> "input", l1 |-> 0, l2 |-> 0, op1 |-> off, op2 |-> 0,
              pred |-> "eq", size |-> 8, tsize |-> 1, depth |-> 1]
Cmp(a, b, c, d) == [op |-> "icmp", l1 |-> a, l2 |-> b, op1 |-> 0, op2 |-> c,
                    pred |-> "eq", size |-> 1, tsize |-> 3, depth |-> d]

MCTable ==
  (1 :> Leaf(0) @@ 2 :> Leaf(1) @@ 3 :> Leaf(2) @@ 4 :> Leaf(3))
  @@ (5 :> [op |-> "load", l1 |-> 3, l2 |-> 2, op1 |-> 0, op2 |-> 0,
            pred |-> "eq", size |-> 16, tsize |-> 2, depth |-> 2])
  @@ (6 :> Cmp(1, 0, 7, 2) @@ 7 :> Cmp(3, 0, 1, 2))
  @@ (8 :> Cmp(2, 3, 0, 2) @@ 9 :> Cmp(5, 0, 1, 3)
      @@ 10 :> [op |-> "not", l1 |-> 0, l2 |-> 7, op1 |-> 0, op2 |-> 0,
                pred |-> "eq", size |-> 1, tsize |-> 4, depth |-> 3]
      @@ 11 :> Cmp(4, 0, 1, 2) @@ 12 :> Cmp(2, 5, 0, 3))
  @@ (13 :> Cmp(2, 0, 1, 501) @@ 14 :> Cmp(3, InitLabel, 0, 2))

MCOffsets == 0..3
MCBranchLabels == {8, 9, 10, 11, 13, 14}

\* Bound: at most MaxRecorded branches are recorded in one session.
MaxRecorded == 3
SessionBound == Cardinality(RecordedTuples) <= MaxRecorded
=============================================================================
