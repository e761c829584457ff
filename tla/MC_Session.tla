----------------------------- MODULE MC_Session -----------------------------
(***************************************************************************)
(* Three seeds over a four-byte input.  Seed 0 branches on byte 2 (label   *)
(* 8), then on bytes 1-2 (label 7), then concretely.  Seed 1 takes the     *)
(* first branch site the other way, meets a tree deeper than 500 (label 9) *)
(* and branches on byte 0 (label 6, made before label 8: dfsan_union       *)
(* returns the existing label of a repeated expression).  Seed 2, made by  *)
(* the first ENDNEW, branches on an expression that reads a label still    *)
(* being initialised (label 10).  MCTraceOf carries the max label field as *)
(* spec.md 6 defines it (the table's highest label so far).  BridgeTraceOf *)
(* carries what the SymFit bridge writes, the highest label of the current *)
(* compare only (0 when it is concrete), and seed 2 writes no event.       *)
(* Seeds 0 and 1 end with the same memory compare (two bytes at offset 1,  *)
(* order 1) and its payload line.  PayloadTraceOf gives seed 0's memory    *)
(* compare a nine-byte payload whose 8th byte is 1.                        *)
(***************************************************************************)
EXTENDS Session, TLC

Leaf(off) == [op |-> "input", l1 |-> 0, l2 |-> 0, op1 |-> off, op2 |-> 0,
              pred |-> "eq", size |-> 8, tsize |-> 1, depth |-> 1]
Cmp(a, b, c, d) == [op |-> "icmp", l1 |-> a, l2 |-> b, op1 |-> 0, op2 |-> c,
                    pred |-> "eq", size |-> 1, tsize |-> 3, depth |-> d]

MCTable ==
  (1 :> Leaf(0) @@ 2 :> Leaf(1) @@ 3 :> Leaf(2) @@ 4 :> Leaf(3))
  @@ (5 :> [op |-> "load", l1 |-> 3, l2 |-> 2, op1 |-> 0, op2 |-> 0,
            pred |-> "eq", size |-> 16, tsize |-> 2, depth |-> 2])
  @@ (6 :> Cmp(1, 0, 7, 2) @@ 7 :> Cmp(2, 3, 0, 2) @@ 8 :> Cmp(3, 0, 1, 2)
      @@ 9 :> Cmp(5, 0, 1, 501) @@ 10 :> Cmp(3, InitLabel, 0, 2))

Line(l, d, a, m, ct, o, p, bytes) ==
  [label |-> l, dir |-> d, addr |-> a, maxl |-> m, ct |-> ct, ord |-> o,
   payload |-> p, data |-> bytes]
Ev(l, d, a, m) == Line(l, d, a, m, 0, 1, FALSE, <<>>)
\* A memory compare of size bytes at input offset off; its payload follows.
Mem(size, off, a, o, m) == Line(size, off, a, m, 2, o, FALSE, <<>>)
Data(bytes) == Line(0, 0, 0, 0, 0, 0, TRUE, bytes)

MCTraceOf ==
  (0 :> << Ev(8, 0, 1, 8), Ev(7, 1, 3, 8), Ev(0, 1, 2, 8),
           Mem(2, 1, 6, 1, 8), Data(<<65, 66>>) >>)
  @@ (1 :> << Ev(8, 1, 1, 8), Ev(9, 0, 2, 9), Ev(6, 0, 4, 9),
              Mem(2, 1, 6, 1, 9), Data(<<65, 66>>) >>)
  @@ (2 :> << Ev(10, 0, 2, 10) >>)

PayloadTraceOf ==
  [MCTraceOf EXCEPT ![0] = << Ev(8, 0, 1, 8), Mem(2, 1, 6, 1, 8),
                              Data(<<0, 0, 0, 0, 0, 0, 0, 1, 8>>) >>]

BridgeTraceOf ==
  (0 :> << Ev(8, 0, 1, 8), Ev(7, 1, 3, 7), Ev(0, 1, 2, 0) >>)
  @@ (1 :> << Ev(8, 1, 1, 8), Ev(9, 0, 2, 9), Ev(6, 0, 4, 6) >>)
  @@ (2 :> << >>)
=============================================================================
