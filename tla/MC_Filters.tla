----------------------------- MODULE MC_Filters -----------------------------
(***************************************************************************)
(* Trace 1 is a loop: the branch at pc 1 is taken eight times in one       *)
(* context, the stride of the backoff.  Trace 2 takes the branches at pcs  *)
(* 1 and 2 in both directions, so edges, inverse marks and context pairs   *)
(* occur.  Four runs let the loop's count reach 24 = 3 * kStride.          *)
(***************************************************************************)
EXTENDS Filters

C(p, t) == [pc |-> p, taken |-> t, ctx |-> 0]

MCTraces ==
  << [i \in 1..8 |-> C(1, TRUE)],
     << C(1, TRUE), C(2, FALSE), C(1, FALSE), C(2, FALSE) >> >>
=============================================================================
