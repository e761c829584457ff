------------------------------ MODULE Filters ------------------------------
(***************************************************************************)
(* isInterestingBranch over a series of traces: each trace is a sequence   *)
(* of calls, solve() resets virgin_map_ and prev_loc_ when it starts one,  *)
(* and the other maps of CoverageFilter carry over from trace to trace.    *)
(***************************************************************************)
EXTENDS CoverageFilter, Sequences

CONSTANTS
    Traces,     \* trace number -> the sequence of isInterestingBranch calls
    MaxRuns     \* bound on the number of traces run

Call == [pc : Pcs, taken : BOOLEAN, ctx : Ctxs]
TraceIds == 1..Len(Traces)

VARIABLES
    run,          \* the trace being read (0: none)
    pos,          \* calls of it made so far
    runs,         \* traces started
    seenSites,    \* ghost: bitmap_ keys called in the current trace
    firstPruned   \* ghost: keys pruned at their first call in the trace

vars == <<coverageVars, run, pos, runs, seenSites, firstPruned>>

\* One call of isInterestingBranch from solve()'s event loop.
Branch ==
  /\ run # 0
  /\ pos < Len(Traces[run])
  /\ LET c == Traces[run][pos + 1]
     IN  /\ FilterStep(c)
         /\ seenSites' = seenSites \cup {BbKey(c)}
         /\ firstPruned' = IF BbKey(c) \notin seenSites /\ ~Kept(c)
                           THEN firstPruned \cup {BbKey(c)}
                           ELSE firstPruned
  /\ pos' = pos + 1
  /\ UNCHANGED <<run, runs>>

\* run_solver calls solve() for the next trace.
StartTrace ==
  /\ run = 0
  /\ runs < MaxRuns
  /\ \E t \in TraceIds : run' = t
  /\ ResetPerTrace
  /\ pos' = 0
  /\ runs' = runs + 1
  /\ seenSites' = {} /\ firstPruned' = {}

\* The event stream reaches EOF and solve() returns.
EndTrace ==
  /\ run # 0
  /\ pos = Len(Traces[run])
  /\ run' = 0
  /\ UNCHANGED <<coverageVars, pos, runs, seenSites, firstPruned>>

Init ==
  /\ CoverageInit
  /\ run = 0 /\ pos = 0 /\ runs = 0
  /\ seenSites = {} /\ firstPruned = {}

Next == Branch \/ StartTrace \/ EndTrace

Spec == Init /\ [][Next]_vars

FiltersTypeOK ==
  /\ CoverageTypeOK
  /\ run \in {0} \cup TraceIds
  /\ runs \in 0..MaxRuns
  /\ seenSites \subseteq BbKeys /\ firstPruned \subseteq BbKeys

(***************************************************************************)
(* spec.md 3 and 5: the basic-block visitation bitmap is per-trace state,  *)
(* reset when a session starts, so a trace's first call at a (pc, ctx)     *)
(* site is judged on a zero count, like the first trace's, and is never    *)
(* pruned by updateBitmap.                                                 *)
(***************************************************************************)
FirstVisitJudgedFresh == firstPruned = {}
=============================================================================
