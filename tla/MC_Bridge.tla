----------------------------- MODULE MC_Bridge -----------------------------
(***************************************************************************)
(* Three seeds run one after the other.  Seed 1 makes a symbolic compare   *)
(* and then a concrete one, so its trace has a close and reopen between    *)
(* two lines; seed 2 makes a single concrete compare; seed 3 one symbolic  *)
(* compare.  StrandTraces gives seed 2 no compare at all.                  *)
(***************************************************************************)
EXTENDS Bridge

MCTraces == <<<<5, 0>>, <<0>>, <<7>>>>

StrandTraces == <<<<5, 0>>, <<>>, <<7>>>>
=============================================================================
