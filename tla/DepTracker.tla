----------------------------- MODULE DepTracker -----------------------------
(***************************************************************************)
(* The branch dependency tracker of the FastGen core (interface.cc:        *)
(* get_input_deps, get_extra_tuple, cleanup_deps).  __branch_deps holds,   *)
(* per input offset, a record of the offsets it is linked with and the     *)
(* (label, direction) tuples of the branches that touched it.  A call of   *)
(* get_extra_tuple computes the input deps of a branch, closes them under  *)
(* the records, returns the tuples found there (the nested constraint set) *)
(* and only then records the branch itself.  A null record and an empty    *)
(* one read the same, so records start empty.                              *)
(***************************************************************************)
EXTENDS UnionTable

CONSTANT BranchLabels   \* labels of the conditional events of a trace

VARIABLES
    branchDeps,        \* __branch_deps: offset -> [input_deps, label_tuples]
    maxLabelSession,   \* max_label_per_session
    extra              \* the tuples of the last get_extra_tuple result

depVars == <<branchDeps, maxLabelSession, extra>>

Dirs == {0, 1}
Tuples == (1..MaxLabel) \X Dirs
DepRecord == [input_deps : SUBSET Offsets, label_tuples : SUBSET Tuples]
EmptyRecord == [input_deps |-> {}, label_tuples |-> {}]

\* A finished recursion with no deps and the running max label.
NoDeps(m) == [ok |-> TRUE, deps |-> {}, max |-> m]

(***************************************************************************)
(* get_input_deps(label, deps): ok is FALSE where the code throws (an      *)
(* invalid label anywhere in the tree, or a tree deeper than MaxDepth);    *)
(* max is max_label_per_session after the call, raised for every label     *)
(* visited before the throw.                                               *)
(***************************************************************************)
\* Mutant: max_label_per_session raised before the label check, so an
\* invalid label (kInitializingLabel) becomes the session's max label.
RECURSIVE InputDepsMaxFirst(_, _)
InputDepsMaxFirst(l, m) ==
  LET m1 == IF l > m THEN l ELSE m
      n  == Table[l]
  IN
  IF ~ValidLabel(l) THEN [ok |-> FALSE, deps |-> {}, max |-> m1]
  ELSE IF TooDeep(l) THEN [ok |-> FALSE, deps |-> {}, max |-> m1]
  ELSE CASE n.op = InputOp  -> [ok |-> TRUE, deps |-> {n.op1}, max |-> m1]
         [] n.op = LoadOp   -> [ok |-> TRUE, deps |-> LoadOffsets(n), max |-> m1]
         [] n.op \in ExtOps -> InputDepsMaxFirst(n.l1, m1)
         [] n.op \in NegOps -> InputDepsMaxFirst(n.l2, m1)
         [] OTHER ->
            LET r1 == IF n.l1 >= ConstOffset THEN InputDepsMaxFirst(n.l1, m1) ELSE NoDeps(m1)
                r2 == IF n.l2 >= ConstOffset THEN InputDepsMaxFirst(n.l2, r1.max) ELSE NoDeps(r1.max)
            IN  IF ~r1.ok THEN r1
                ELSE [ok |-> r2.ok, deps |-> r1.deps \cup r2.deps, max |-> r2.max]

RECURSIVE InputDeps(_, _)
InputDeps(l, m) ==
  IF ~ValidLabel(l) THEN [ok |-> FALSE, deps |-> {}, max |-> m]
  ELSE
    LET m1 == IF l > m THEN l ELSE m
        n  == Table[l]
    IN
    IF TooDeep(l) THEN [ok |-> FALSE, deps |-> {}, max |-> m1]
    ELSE CASE n.op = InputOp  -> [ok |-> TRUE, deps |-> {n.op1}, max |-> m1]
           [] n.op = LoadOp   -> [ok |-> TRUE, deps |-> LoadOffsets(n), max |-> m1]
           [] n.op \in ExtOps -> InputDeps(n.l1, m1)
           [] n.op \in NegOps -> InputDeps(n.l2, m1)
           [] OTHER ->
              LET r1 == IF n.l1 >= ConstOffset THEN InputDeps(n.l1, m1) ELSE NoDeps(m1)
                  r2 == IF n.l2 >= ConstOffset THEN InputDeps(n.l2, r1.max) ELSE NoDeps(r1.max)
              IN  IF ~r1.ok THEN r1
                  ELSE [ok |-> r2.ok, deps |-> r1.deps \cup r2.deps, max |-> r2.max]

(***************************************************************************)
(* The worklist loop of get_extra_tuple: pop an offset and add the         *)
(* input_deps of its record, pushing each offset not seen before.          *)
(***************************************************************************)
RECURSIVE Worklist(_, _)
Worklist(inputs, wl) ==
  IF wl = {} THEN inputs
  ELSE LET off == CHOOSE o \in wl : TRUE
           new == branchDeps[off].input_deps \ inputs
       IN  Worklist(inputs \cup new, (wl \ {off}) \cup new)

\* The deduplicated label tuples of the records of the given offsets.
TuplesAt(inputs) == UNION {branchDeps[o].label_tuples : o \in inputs}

\* The update loop: every offset of inputs is linked with all of inputs and
\* gets the branch's tuple.
RecordBranch(inputs, t) ==
  [o \in Offsets |->
     IF o \in inputs
     THEN [input_deps   |-> branchDeps[o].input_deps \cup inputs,
           label_tuples |-> branchDeps[o].label_tuples \cup {t}]
     ELSE branchDeps[o]]

(***************************************************************************)
(* get_extra_tuple(label, tkdir, ifmemorize).  An exception returns the    *)
(* empty result and changes no record; so does an empty input set.         *)
(***************************************************************************)
\* Mutant: the branch records itself before the tuples are read, so its
\* own tuple comes back in its nested set.
GetExtraTupleUpdateFirst(label, tkdir, ifmemorize) ==
  LET r      == InputDeps(label, maxLabelSession)
      inputs == Worklist(r.deps, r.deps)
      after  == RecordBranch(inputs, <<label, tkdir>>)
  IN  /\ maxLabelSession' = r.max
      /\ IF ~r.ok \/ inputs = {}
         THEN /\ extra' = {}
              /\ UNCHANGED branchDeps
         ELSE /\ extra' = IF ifmemorize
                          THEN UNION {after[o].label_tuples : o \in inputs} ELSE {}
              /\ branchDeps' = after

\* Mutant: the update loop runs over the branch's own deps instead of the
\* closed input set.
GetExtraTupleDepsOnly(label, tkdir, ifmemorize) ==
  LET r      == InputDeps(label, maxLabelSession)
      inputs == Worklist(r.deps, r.deps)
  IN  /\ maxLabelSession' = r.max
      /\ IF ~r.ok \/ inputs = {}
         THEN /\ extra' = {}
              /\ UNCHANGED branchDeps
         ELSE /\ extra' = IF ifmemorize THEN TuplesAt(inputs) ELSE {}
              /\ branchDeps' =
                   [o \in Offsets |->
                      IF o \in r.deps
                      THEN [input_deps   |-> branchDeps[o].input_deps \cup inputs,
                            label_tuples |-> branchDeps[o].label_tuples \cup {<<label, tkdir>>}]
                      ELSE branchDeps[o]]

GetExtraTuple(label, tkdir, ifmemorize) ==
  LET r      == InputDeps(label, maxLabelSession)
      inputs == Worklist(r.deps, r.deps)
  IN  /\ maxLabelSession' = r.max
      /\ IF ~r.ok \/ inputs = {}
         THEN /\ extra' = {}
              /\ UNCHANGED branchDeps
         ELSE /\ extra' = IF ifmemorize THEN TuplesAt(inputs) ELSE {}
              /\ branchDeps' = RecordBranch(inputs, <<label, tkdir>>)

\* cleanup_deps: every record is deleted (the expression caches are not
\* modelled state).
CleanupDeps == branchDeps' = [o \in Offsets |-> EmptyRecord]

DepInit ==
  /\ branchDeps = [o \in Offsets |-> EmptyRecord]
  /\ maxLabelSession = 0
  /\ extra = {}

DepTypeOK ==
  /\ branchDeps \in [Offsets -> DepRecord]
  /\ maxLabelSession \in 0..MaxLabel
  /\ extra \subseteq Tuples

DepNext ==
  \/ \E l \in BranchLabels, d \in Dirs, m \in BOOLEAN : GetExtraTuple(l, d, m)
  \/ CleanupDeps /\ UNCHANGED <<maxLabelSession, extra>>

DepSpec == DepInit /\ [][DepNext]_depVars

(***************************************************************************)
(* Records are closed (spec.md 4.3: the tracker computes a fixed point):   *)
(* whenever an offset lists another as linked, both list exactly the same *)
(* linked offsets, so every record holds its whole connected component.    *)
(* get_extra_tuple writes the closure into every record it touches.        *)
(***************************************************************************)
RecordsClosed ==
  \A o \in Offsets : \A p \in branchDeps[o].input_deps :
      branchDeps[p].input_deps = branchDeps[o].input_deps

\* The deps the abstract tracker links branches by (a constant table).
BranchDepsTable ==
  [l \in 1..MaxLabel |-> LET r == InputDeps(l, 0) IN IF r.ok THEN r.deps ELSE {}]
BranchInputDeps(l) == BranchDepsTable[l]

RecordedTuples == UNION {branchDeps[o].label_tuples : o \in Offsets}

Abstract == INSTANCE DepTrackerSpec
              WITH DepsOf <- BranchInputDeps,
                   recorded <- RecordedTuples, lastExtra <- extra

(***************************************************************************)
(* get_extra_tuple implements the tracker: the tuples it returns for a     *)
(* branch are exactly the recorded branches connected to it through shared *)
(* input offsets, read before the branch records itself, and cleanup_deps  *)
(* forgets them all.                                                       *)
(***************************************************************************)
ImplementsDepTrackerSpec == Abstract!AbsSpec
=============================================================================
