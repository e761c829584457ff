--------------------------- MODULE DepTrackerSpec ---------------------------
(***************************************************************************)
(* What the branch dependency tracker promises (spec.md section 4.3).      *)
(* Two branches are linked when their input deps share an offset.  The     *)
(* nested constraint set of a new branch is every recorded branch          *)
(* connected to it by a chain of links; the branch is recorded after the   *)
(* set is computed, and the end of a session forgets every record.         *)
(* A branch whose deps are empty or cannot be computed is not recorded.    *)
(***************************************************************************)
EXTENDS FiniteSets

CONSTANTS
    BranchLabels,   \* labels that reach the tracker
    DepsOf(_)       \* label -> its input offsets ({} if none or an error)

VARIABLES recorded, lastExtra

absVars == <<recorded, lastExtra>>

Linked(a, b) == DepsOf(a[1]) \cap DepsOf(b[1]) # {}

\* The branches of S reachable from the branches C by a chain of links:
\* the least set containing C and closed under Linked within S.
RECURSIVE Component(_, _)
Component(S, C) ==
  LET N == C \cup {r \in S : \E c \in C : Linked(r, c)}
  IN  IF N = C THEN C ELSE Component(S, N)

AbsInit == recorded = {} /\ lastExtra = {}

AbsRecord(l, d, m) ==
  LET t == <<l, d>>
  IN  IF DepsOf(l) = {}
      THEN lastExtra' = {} /\ UNCHANGED recorded
      ELSE /\ lastExtra' = IF m THEN Component(recorded, {t}) \cap recorded
                           ELSE {}
           /\ recorded' = recorded \cup {t}

AbsReset == recorded' = {} /\ UNCHANGED lastExtra

AbsNext ==
  \/ \E l \in BranchLabels, d \in {0, 1}, m \in BOOLEAN : AbsRecord(l, d, m)
  \/ AbsReset

AbsSpec == AbsInit /\ [][AbsNext]_absVars
=============================================================================
