------------------------------- MODULE Session -------------------------------
(***************************************************************************)
(* The FastGen session protocol (interface.cc: run_solver, solve,          *)
(* update_graph, generate_tree_dump, generate_next_tscs, gen_solve_pc,     *)
(* build_nested_set_old) with the scheduler at the other end of the        *)
(* FIFOs.  run_solver ingests one trace from /tmp/wp2, writes a record per *)
(* new branch and END to /tmp/pcpipe, dumps the union table as the trace's *)
(* snapshot, then answers solve requests from /tmp/myfifo with ENDDUP,     *)
(* ENDUNSAT or ENDNEW until one yields a new seed.                         *)
(*                                                                         *)
(* Abstractions: an XXH64 digest is the sequence of items rolled into it   *)
(* (no collisions); isInterestingBranch is CoverageFilter's, called with   *)
(* the context 0 the bridge writes; z3's verdicts are free choices; every  *)
(* trace shares the constant union table; the scheduler (outside this      *)
(* repository) is modelled from spec.md section 6.                         *)
(***************************************************************************)
EXTENDS DepTracker, CoverageFilter, Sequences

CONSTANTS
    Tids,          \* seed ids, 0 .. n-1, in the order seeds are made
    InitialSeeds,  \* the seeds of the initial corpus: 0 .. k-1
    SnapshotLoss,  \* whether tree files may be removed behind FastGen's back
                   \* or fail to be written
    TraceOf,       \* tid -> the lines of /tmp/wp2 for that seed: event
                   \* lines [label, dir, addr, maxl, ct, ord] (ct 0 or 2)
                   \* and payload lines (payload, data)
    BrcFlips,      \* values the driver passes as run_solver's brc_flip:
                   \* 0 qsym filter, 1 path-prefix filter
    MaxRequests,   \* bound: solve requests the scheduler sends
    ReconnectInWindow \* whether the scheduler may open /tmp/myfifo between
                   \* FastGen's EOF on it and FastGen's close

VARIABLES
    phase,      \* "idle": CE runs a seed; "ingest": solve(); "await": requests
    flip,       \* brc_flip of the current run_solver call
    cur, pos,   \* seed being ingested, events consumed
    pp,         \* path_prefix: the items rolled in
    seeded,     \* first_tid_for_pp set: the tid is rolled in
    skipRest,   \* skip_rest: the 30 s budget of the seed is spent
    brcMode,    \* BRC_MODE
    untaken,    \* untaken_update_ifsat
    ppMap,      \* pfx_pp_map: the marked digests
    flipped,    \* flipped_labels_session
    nodeMap,    \* node_map: per-trace visit counts of (addr, dir)
    maxLabel,   \* max_label_
    dumpId,     \* dump_tree_id_
    snapshots,  \* tree files: name -> [present, owner, size]
    pcpipe,     \* /tmp/pcpipe: records and tokens, in order
    fifo,       \* /tmp/myfifo: request lines not yet read
    queue,      \* seeds not yet run
    answers,    \* history: each request with the token it got
    rdr,        \* FastGen's end of /tmp/myfifo: "open", "eof" (getline failed,
                \* not yet closed), "closed" (closed, open not yet called),
                \* "opening" (blocked in open: the kernel counts it a reader)
    sched,      \* the scheduler's end: "open" or "closed"
    sent,       \* requests the scheduler has written
    loading,    \* gen_solve_pc has stat'ed the tree file, not yet opened it
    dedup,      \* fmemcmp_dedup: keys of the memory compares solved so far
    memOut      \* history: the solutions handle_fmemcmp handed out

sessVars == <<phase, flip, cur, pos, pp, seeded, skipRest, brcMode, untaken, ppMap,
              flipped, nodeMap, maxLabel, dumpId, snapshots, pcpipe, fifo,
              queue, answers>>
ctlVars == <<rdr, sched, sent, loading>>
memVars == <<dedup, memOut>>
vars == <<sessVars, ctlVars, memVars, depVars, coverageVars>>

\* The digest value 0 (untaken_update_ifsat reset, never rolled in).
ZeroDigest == <<>>
\* The path prefix without the tid rolled in on the first event.
StripTid(d) == IF d # <<>> /\ Len(d[1]) = 1 THEN Tail(d) ELSE d

Lines == UNION {{TraceOf[t][i] : i \in 1..Len(TraceOf[t])} : t \in Tids}
\* A conditional event line (cons_type 0).
IsCond(l) == ~l.payload /\ l.ct = 0
Events == {l \in Lines : IsCond(l)}
NextLine == TraceOf[cur][pos + 1]
Sites == {<<e.addr, d>> : e \in Events, d \in Dirs}
NoFile == [present |-> FALSE, owner |-> 0, size |-> 0]
\* isInterestingNode: the uint16 count after the increment is 0 or a power of 2.
Pow2OrZero(x) == x = 0 \/ \E k \in 0..15 : 2^k = x

\* isInterestingBranch(addr, direction, ctx): the bridge's ctx field is 0.
FilterCall(e) == [pc |-> e.addr, taken |-> e.dir # 0, ctx |-> 0]

\* A line of /tmp/pcpipe.  truth is the branch's untaken digest and seen
\* whether a trace already explored that path (ghost fields, not written).
Msg(kind, e, tid, uniq, ppv, ex, truth, seen) ==
  [kind |-> kind, label |-> e.label, dir |-> e.dir, addr |-> e.addr,
   tid |-> tid, uniq |-> uniq, pp |-> ppv, extra |-> ex, truth |-> truth,
   seen |-> seen]
NoEvent == [label |-> 0, dir |-> 0, addr |-> 0, maxl |-> 0]
Token(kind) == Msg(kind, NoEvent, 0, FALSE, ZeroDigest, {}, ZeroDigest, FALSE)

(***************************************************************************)
(* update_graph(label, pc, tkdir, try_solve, inputid, queueid, uniq_pcset, *)
(* ifmemorize): concrete and already-flipped labels return at once; a      *)
(* filtered branch gets a "none" record; an oversized or too deep tree     *)
(* returns without a record; otherwise get_extra_tuple runs and the full   *)
(* record carries uniq_pcset, untaken_update_ifsat and the extra tuples.   *)
(***************************************************************************)
UpdateGraph(e, try, uniq, memo, ppv, truth, seen) ==
  \/ /\ e.label = 0 \/ e.label \in flipped
     /\ UNCHANGED <<flipped, pcpipe, depVars>>
  \/ /\ e.label # 0 /\ e.label \notin flipped
     /\ flipped' = flipped \cup {e.label}
     /\ \/ /\ ~try /\ ~uniq
           /\ pcpipe' = Append(pcpipe, Msg("none", e, cur, uniq, ppv, {}, truth, seen))
           /\ UNCHANGED depVars
        \/ /\ try \/ uniq
           /\ Table[e.label].tsize > MaxTreeSize \/ TooDeep(e.label)
           /\ UNCHANGED <<pcpipe, depVars>>
        \/ /\ try \/ uniq
           /\ Table[e.label].tsize <= MaxTreeSize /\ ~TooDeep(e.label)
           /\ GetExtraTuple(e.label, e.dir, memo)
           /\ pcpipe' = Append(pcpipe, Msg("full", e, cur, uniq, ppv, extra', truth, seen))

\* run_solver zeroes max_label_ and calls solve(): a seed's trace starts;
\* the per-trace maps, prev_loc_ and dump_tree_id_ are reset.
StartTrace ==
  /\ phase = "idle"
  /\ \E t \in queue :
       /\ cur' = t
       /\ queue' = queue \ {t}
  /\ flip' \in BrcFlips
  /\ phase' = "ingest"
  /\ pos' = 0 /\ pp' = <<>> /\ seeded' = FALSE /\ skipRest' = FALSE
  /\ nodeMap' = [s \in Sites |-> 0]
  /\ ResetPerTrace
  /\ dumpId' = 0 /\ maxLabel' = 0
  /\ UNCHANGED <<memVars, brcMode, untaken, ppMap, flipped, snapshots, pcpipe, fifo,
                 answers, depVars, ctlVars>>

(***************************************************************************)
(* The fields every line read at the top of solve()'s loop sets: the tid  *)
(* (field 8) names the dump and field 9 is max_label_.  A field is taken   *)
(* only when a comma follows it, field 9 also as the last one, so a       *)
(* payload line read as an event line sets them from its 8th and 9th      *)
(* bytes if it has 9 or more, and leaves them otherwise.                  *)
(***************************************************************************)
ParseLine(l) ==
  /\ pos' = pos + 1
  /\ dumpId' = CASE ~l.payload        -> cur
                []  Len(l.data) >= 9  -> l.data[8]
                []  OTHER             -> dumpId
  /\ maxLabel' = CASE ~l.payload       -> l.maxl
                  []  Len(l.data) >= 9 -> l.data[9]
                  []  OTHER            -> maxLabel

(***************************************************************************)
(* One conditional event under the path-prefix filter (brc_flip 1): roll   *)
(* it into the prefix (seeded with the tid on the first event), mark the   *)
(* taken digest, keep the untaken digest if unexplored; isInterestingBranch *)
(* (for every label) gives uniq_pcset and the node count ifmemorize, then  *)
(* update_graph.                                                           *)
(***************************************************************************)
PathPrefixEvent ==
  /\ phase = "ingest" /\ ~skipRest /\ flip = 1
  /\ pos < Len(TraceOf[cur]) /\ IsCond(NextLine)
  /\ LET e     == NextLine
         sym   == e.label # 0
         base  == IF seeded THEN pp ELSE <<<<cur>>>>
         untk  == Append(base, <<e.addr, 0, 1 - e.dir>>)
         taken == Append(base, <<e.addr, IF sym THEN 0 ELSE 1, e.dir>>)
         try   == sym /\ untk \notin ppMap
         k     == <<e.addr, e.dir>>
         cnt   == (nodeMap[k] + 1) % 65536
         seen  == StripTid(untk) \in {StripTid(d) : d \in ppMap}
     IN  /\ ParseLine(e)
         /\ seeded' = TRUE /\ pp' = taken /\ brcMode' = 0
         /\ ppMap' = IF sym THEN ppMap \cup {taken} ELSE ppMap
         /\ untaken' = IF try THEN untk ELSE ZeroDigest
         /\ nodeMap' = [nodeMap EXCEPT ![k] = cnt]
         /\ FilterStep(FilterCall(e))
         /\ UpdateGraph(e, try, FilterVerdict(FilterCall(e)), Pow2OrZero(cnt),
                        untaken', untk, seen)
  /\ UNCHANGED <<phase, flip, cur, skipRest, snapshots, fifo, queue, answers, ctlVars,
                 memVars>>

\* One conditional event under the qsym filter (brc_flip 0): for a symbolic
\* label the coverage verdict alone decides try_solve and uniq_pcset; a
\* concrete one skips the filter.  untaken_update_ifsat is left as it is.
QsymEvent ==
  /\ phase = "ingest" /\ ~skipRest /\ flip = 0
  /\ pos < Len(TraceOf[cur]) /\ IsCond(NextLine)
  /\ LET e    == NextLine
         base == IF seeded THEN pp ELSE <<<<cur>>>>
         untk == Append(base, <<e.addr, 0, 1 - e.dir>>)
         seen == StripTid(untk) \in {StripTid(d) : d \in ppMap}
     IN  /\ ParseLine(e)
         /\ seeded' = TRUE /\ pp' = base /\ brcMode' = 1
         /\ IF e.label # 0
            THEN LET try == FilterVerdict(FilterCall(e))
                 IN  /\ FilterStep(FilterCall(e))
                     /\ UpdateGraph(e, try, try, FALSE, untaken, untk, seen)
            ELSE /\ UNCHANGED coverageVars
                 /\ UpdateGraph(e, FALSE, FALSE, FALSE, untaken, untk, seen)
  /\ UNCHANGED <<phase, flip, cur, skipRest, untaken, ppMap, nodeMap, snapshots,
                 fifo, queue, answers, ctlVars, memVars>>

\* After skip_rest a line is still parsed, then skipped: the payload line
\* of a skipped memory compare is left to be read as the next event line.
SkipEvent ==
  /\ phase = "ingest" /\ skipRest
  /\ pos < Len(TraceOf[cur])
  /\ ParseLine(NextLine)
  /\ UNCHANGED <<coverageVars, phase, flip, cur, pp, seeded, skipRest, brcMode, untaken, ppMap,
                 flipped, nodeMap, snapshots, pcpipe, fifo, queue, answers,
                 depVars, ctlVars, memVars>>

\* bcount_filter(addr, ctx, 0, order): the direction is passed as 0.
MemDedupKey(e) == <<e.addr, 0, 0, e.ord>>

\* handle_fmemcmp(data, direction, label, tid, addr): the solution it
\* enqueues, size bytes from data at offset direction (got: bytes parsed).
FmemcmpSolution(e, data) ==
  [addr |-> e.addr, dir |-> e.dir, ord |-> e.ord, size |-> e.label, tid |-> cur,
   got |-> Len(data)]

(***************************************************************************)
(* A memory-compare event (cons_type 2) before skip_rest: its payload line *)
(* is read with getline (at the end of the trace the loop breaks); if      *)
(* bcount_filter finds the key new it records it, and handle_fmemcmp hands *)
(* out the substitution: label is the payload size and the direction      *)
(* field the input offset.  Whether it is written as a seed file or queued *)
(* (SAVING_WHOLE) is left out.                                             *)
(***************************************************************************)
MemcmpEvent ==
  /\ phase = "ingest" /\ ~skipRest
  /\ pos < Len(TraceOf[cur]) /\ ~NextLine.payload /\ NextLine.ct = 2
  /\ LET e == NextLine
     IN  /\ dumpId' = cur /\ maxLabel' = e.maxl
         /\ IF pos + 1 < Len(TraceOf[cur])
            THEN /\ pos' = pos + 2
                 /\ dedup' = dedup \cup {MemDedupKey(e)}
                 /\ memOut' = IF MemDedupKey(e) \in dedup THEN memOut
                              ELSE Append(memOut, FmemcmpSolution(e, TraceOf[cur][pos + 2].data))
            ELSE /\ pos' = pos + 1
                 /\ UNCHANGED memVars
  /\ UNCHANGED <<coverageVars, phase, flip, cur, pp, seeded, skipRest, brcMode, untaken, ppMap,
                 flipped, nodeMap, snapshots, pcpipe, fifo, queue, answers,
                 depVars, ctlVars>>

\* acc_time > 30 s after an event: the rest of the trace is skipped.
SessionTimeout ==
  /\ phase = "ingest" /\ ~skipRest /\ pos > 0
  /\ skipRest' = TRUE
  /\ UNCHANGED <<memVars, coverageVars, phase, flip, cur, pos, pp, seeded, brcMode, untaken, ppMap,
                 flipped, nodeMap, maxLabel, dumpId, snapshots, pcpipe, fifo,
                 queue, answers, depVars, ctlVars>>

\* Mutant: the dump writes effective_max_label entries, one short.
TreeDumpShort(name) ==
  snapshots' = [snapshots EXCEPT ![name] =
                  [present |-> TRUE, owner |-> cur,
                   size |-> IF maxLabel > 0 THEN maxLabel ELSE maxLabelSession]]

\* generate_tree_dump writes the effective_max_label + 1 entries 0..max to
\* the file named by dump_tree_id_; under file-system faults the fopen for
\* writing may fail, and it returns with nothing written.
TreeDump(name) ==
  \/ snapshots' = [snapshots EXCEPT ![name] =
                     [present |-> TRUE, owner |-> cur,
                      size |-> (IF maxLabel > 0 THEN maxLabel ELSE maxLabelSession) + 1]]
  \/ SnapshotLoss /\ UNCHANGED snapshots

\* Mutant: cleanup1 without cleanup_deps.
CleanupNoDeps ==
  /\ maxLabel' = 0 /\ maxLabelSession' = 0 /\ flipped' = {}
  /\ UNCHANGED branchDeps

\* cleanup1 and cleanup_deps: max labels, flipped labels and records reset.
Cleanup ==
  /\ maxLabel' = 0 /\ maxLabelSession' = 0 /\ flipped' = {}
  /\ CleanupDeps

(***************************************************************************)
(* End of /tmp/wp2: solve() dumps the tree, cleans up and run_solver       *)
(* writes END.                                                             *)
(***************************************************************************)
EndTrace ==
  /\ phase = "ingest" /\ pos = Len(TraceOf[cur])
  /\ TreeDump(dumpId)
  /\ Cleanup
  /\ pcpipe' = Append(pcpipe, Token("END"))
  /\ phase' = "await"
  /\ UNCHANGED <<memVars, coverageVars, flip, cur, pos, pp, seeded, skipRest, brcMode, untaken,
                 ppMap, nodeMap, dumpId, fifo, queue, answers, extra, ctlVars>>

(***************************************************************************)
(* The scheduler (spec.md 6, not in this repository): once the token of    *)
(* its last request has come, it writes one request for a full record it  *)
(* has not requested yet, as the line qid,tid,label,dir,cur,pp,extra, on  *)
(* its open end of /tmp/myfifo.  A write with no reader fails with EPIPE; *)
(* what the scheduler then does is outside this model, so it writes only  *)
(* while FastGen's end is open.                                            *)
(***************************************************************************)
SendRequest ==
  /\ phase = "await" /\ sched = "open" /\ rdr # "closed"
  /\ sent = Len(answers) /\ sent < MaxRequests
  /\ \E i \in 1..Len(pcpipe) :
       /\ pcpipe[i].kind = "full"
       /\ \A a \in 1..Len(answers) : answers[a].idx # i
       /\ fifo' = Append(fifo, [idx |-> i, rec |-> pcpipe[i]])
  /\ sent' = sent + 1
  /\ UNCHANGED <<memVars, coverageVars, phase, flip, cur, pos, pp, seeded, skipRest, brcMode, untaken,
                 ppMap, flipped, nodeMap, maxLabel, dumpId, snapshots, pcpipe,
                 queue, answers, depVars, rdr, sched, loading>>

(***************************************************************************)
(* The scheduler opens /tmp/myfifo for writing; the open blocks until a    *)
(* reader has it open (FastGen blocked in its own open counts), and if     *)
(* FastGen is blocked in its reopen both return.  Unless                   *)
(* ReconnectInWindow, it does not open while FastGen sits between its EOF  *)
(* and its close.                                                          *)
(***************************************************************************)
SchedOpen ==
  /\ sched = "closed"
  /\ rdr # "closed"
  /\ rdr # "eof" \/ ReconnectInWindow
  /\ sched' = "open"
  /\ rdr' = IF rdr = "opening" THEN "open" ELSE rdr
  /\ UNCHANGED <<memVars, sessVars, sent, loading, depVars, coverageVars>>

\* The scheduler closes its end (spec.md 4.6 and 5: the peer disconnects).  With
\* no reader left either, the kernel drops what the FIFO holds.
SchedClose ==
  /\ sched = "open"
  /\ sched' = "closed"
  /\ fifo' = IF rdr = "closed" THEN <<>> ELSE fifo
  /\ UNCHANGED <<memVars, coverageVars, phase, flip, cur, pos, pp, seeded, skipRest, brcMode, untaken,
                 ppMap, flipped, nodeMap, maxLabel, dumpId, snapshots, pcpipe,
                 queue, answers, depVars, rdr, sent, loading>>

(***************************************************************************)
(* generate_next_tscs's reopen loop: getline fails on an empty FIFO with   *)
(* no writer (FifoEOF); clear() and close() drop the FIFO's contents if    *)
(* the writer has closed too (FifoClose); the open returns at once if a   *)
(* writer has the FIFO open and otherwise blocks until one opens it        *)
(* (FifoReopen), and after the 50 ms sleep the loop reads again.           *)
(***************************************************************************)
FifoEOF ==
  /\ phase = "await" /\ ~loading /\ rdr = "open" /\ fifo = <<>> /\ sched = "closed"
  /\ rdr' = "eof"
  /\ UNCHANGED <<memVars, sessVars, sched, sent, loading, depVars, coverageVars>>

FifoClose ==
  /\ rdr = "eof"
  /\ rdr' = "closed"
  /\ fifo' = IF sched = "closed" THEN <<>> ELSE fifo
  /\ UNCHANGED <<memVars, coverageVars, phase, flip, cur, pos, pp, seeded, skipRest, brcMode, untaken,
                 ppMap, flipped, nodeMap, maxLabel, dumpId, snapshots, pcpipe,
                 queue, answers, depVars, sched, sent, loading>>

FifoReopen ==
  /\ rdr = "closed"
  /\ rdr' = IF sched = "open" THEN "open" ELSE "opening"
  /\ UNCHANGED <<memVars, sessVars, sched, sent, loading, depVars, coverageVars>>

FifoReopenLoop == FifoEOF \/ FifoClose \/ FifoReopen

\* A tree file is removed (spec.md 8, scenario D).  Only FastGen's reads
\* of the file matter, so a removal is taken while no request is pending
\* or between gen_solve_pc's stat and fopen.
DeleteSnapshot ==
  /\ SnapshotLoss /\ phase = "await" /\ (fifo = <<>> \/ loading)
  /\ \E t \in Tids : snapshots[t].present /\ snapshots' = [snapshots EXCEPT ![t] = NoFile]
  /\ UNCHANGED <<memVars, coverageVars, phase, flip, cur, pos, pp, seeded, skipRest, brcMode, untaken,
                 ppMap, flipped, nodeMap, maxLabel, dumpId, pcpipe, fifo,
                 queue, answers, depVars, ctlVars>>

\* After trimming trailing separators a field is parsed only when a comma
\* follows it: extra never is, and pp only when extra is not empty.
PPParsed(r) == r.extra # {}
ParsedExtra(r) == {}

\* The loaded table is not the trace's own where another trace wrote the
\* file or the file stops below the label.
Garbled(r, snap) == snap.owner # r.tid \/ r.label >= snap.size

(***************************************************************************)
(* build_nested_set_old: the outcomes as [res, mark].  serialize throws    *)
(* where get_input_deps would (an invalid label or a too deep tree;        *)
(* anything may happen on a garbled table) and 0 is returned; an unsat or  *)
(* timed-out base query marks the prefix and returns 0; a sat nested query *)
(* marks it and returns 1; otherwise the optimistic model is used and 2    *)
(* is returned, unmarked.                                                  *)
(***************************************************************************)
\* serialize throws on the checks get_input_deps makes, on the same
\* recursion (an invalid label or a node deeper than 500 anywhere).
SerializeThrows(l) == ~InputDeps(l, 0).ok

SolveOutcomes(r, snap) ==
  LET throws == IF Garbled(r, snap) THEN BOOLEAN ELSE {SerializeThrows(r.label)}
  IN  (IF TRUE \in throws THEN {[res |-> 0, mark |-> FALSE]} ELSE {})
      \cup (IF FALSE \in throws
            THEN {[res |-> 0, mark |-> TRUE], [res |-> 1, mark |-> TRUE],
                  [res |-> 2, mark |-> FALSE]}
            ELSE {})

\* The seed id a new ENDNEW seed gets, if the bound leaves one.
NewSeeds ==
  LET n == Cardinality(InitialSeeds)
           + Cardinality({a \in 1..Len(answers) : answers[a].token = "ENDNEW"})
  IN  IF n \in Tids THEN {n} ELSE {}

(***************************************************************************)
(* One round of run_solver's loop: generate_next_tscs reads a request line *)
(* and check_pp answers a duplicate prefix with -1 (ENDDUP); otherwise     *)
(* gen_solve_pc stats the tree file (a missing one returns 0: ENDUNSAT),   *)
(* sets max_label_ from its size, opens it (a file gone since the stat     *)
(* returns -1: ENDDUP, with no cleanup), solves and cleans up, and         *)
(* run_solver writes ENDNEW or ENDUNSAT; after                             *)
(* ENDNEW it returns and the CE runs the next seed.  Every round sets      *)
(* untaken_update_ifsat to the digest the request names, or leaves the     *)
(* stale one when the pp field is not parsed.                              *)
(***************************************************************************)
Req == Head(fifo)
ReqPP(r) == IF PPParsed(r) THEN r.pp ELSE untaken
\* check_pp under the path-prefix filter: the digest is already marked.
IsDup(pph) == brcMode = 0 /\ pph \in ppMap

\* The request line is consumed and the token written and logged.
Reply(tok, solved) ==
  /\ fifo' = Tail(fifo)
  /\ untaken' = ReqPP(Req.rec)
  /\ pcpipe' = Append(pcpipe, Token(tok))
  /\ answers' = Append(answers,
                  [idx |-> Req.idx, rec |-> Req.rec, token |-> tok,
                   snap |-> snapshots[Req.rec.tid],
                   explored |-> Req.rec.truth \in ppMap, solved |-> solved,
                   aux |-> ParsedExtra(Req.rec)])
  /\ UNCHANGED <<memVars, coverageVars, flip, cur, pos, pp, seeded, skipRest, brcMode, nodeMap,
                 dumpId, snapshots, rdr, sched, sent>>

\* The line being handled stays at the head of fifo until its token is
\* written; FastGen is then not in getline.
Awaiting == phase = "await" /\ rdr = "open" /\ fifo # <<>> /\ ~loading

\* Mutant: a duplicate prefix is skipped and the next line read (the
\* "query next one" of the comment) without writing ENDDUP.
AnswerDupSkip ==
  /\ Awaiting /\ IsDup(ReqPP(Req.rec))
  /\ fifo' = Tail(fifo) /\ untaken' = ReqPP(Req.rec)
  /\ UNCHANGED <<memVars, coverageVars, phase, ppMap, queue, maxLabel, flipped, pcpipe, answers, depVars,
                 flip, cur, pos, pp, seeded, skipRest, brcMode, nodeMap, dumpId,
                 snapshots, ctlVars>>

AnswerDup ==
  /\ Awaiting /\ IsDup(ReqPP(Req.rec))
  /\ Reply("ENDDUP", FALSE)
  /\ UNCHANGED <<phase, ppMap, queue, maxLabel, flipped, depVars, loading>>

AnswerMissing ==
  /\ Awaiting /\ ~IsDup(ReqPP(Req.rec)) /\ ~snapshots[Req.rec.tid].present
  /\ Reply("ENDUNSAT", FALSE)
  /\ UNCHANGED <<phase, ppMap, queue, maxLabel, flipped, depVars, loading>>

\* Mutant: the break after ENDNEW is dropped and run_solver keeps reading
\* requests.
RunSolverBranchNoBreak(res) ==
  IF res > 0
  THEN /\ Reply("ENDNEW", TRUE) /\ queue' = queue \cup NewSeeds /\ UNCHANGED phase
  ELSE /\ Reply("ENDUNSAT", TRUE) /\ UNCHANGED <<phase, queue>>

\* run_solver's branch on a solved request's result: a positive one writes
\* ENDNEW and breaks out to the CE (the scheduler then names a new seed);
\* otherwise ENDUNSAT and the loop reads the next request.
RunSolverBranch(res) ==
  IF res > 0
  THEN /\ Reply("ENDNEW", TRUE) /\ queue' = queue \cup NewSeeds /\ phase' = "idle"
  ELSE /\ Reply("ENDUNSAT", TRUE) /\ UNCHANGED <<phase, queue>>

\* stat succeeds: max_label_ is the file's entry count minus one.
StatTree ==
  /\ Awaiting /\ ~IsDup(ReqPP(Req.rec)) /\ snapshots[Req.rec.tid].present
  /\ loading' = TRUE
  /\ maxLabel' = snapshots[Req.rec.tid].size - 1
  /\ untaken' = ReqPP(Req.rec)
  /\ UNCHANGED <<memVars, coverageVars, phase, flip, cur, pos, pp, seeded, skipRest, brcMode,
                 ppMap, flipped, nodeMap, dumpId, snapshots, pcpipe, fifo, queue,
                 answers, depVars, rdr, sched, sent>>

\* fopen fails on a file removed since the stat: -1, answered ENDDUP.
AnswerVanished ==
  /\ loading /\ ~snapshots[Req.rec.tid].present
  /\ loading' = FALSE
  /\ Reply("ENDDUP", FALSE)
  /\ UNCHANGED <<phase, ppMap, queue, maxLabel, flipped, depVars>>

AnswerSolved ==
  /\ loading /\ snapshots[Req.rec.tid].present
  /\ loading' = FALSE
  /\ \E o \in SolveOutcomes(Req.rec, snapshots[Req.rec.tid]) :
       /\ ppMap' = IF o.mark THEN ppMap \cup {ReqPP(Req.rec)} ELSE ppMap
       /\ Cleanup
       /\ RunSolverBranch(o.res)
  /\ UNCHANGED extra

HandleRequest == AnswerDup \/ AnswerMissing \/ StatTree \/ AnswerVanished \/ AnswerSolved

Init ==
  /\ phase = "idle" /\ flip \in BrcFlips /\ cur = 0 /\ pos = 0
  /\ pp = <<>> /\ seeded = FALSE /\ skipRest = FALSE
  /\ brcMode = 0 /\ untaken = ZeroDigest /\ ppMap = {}
  /\ flipped = {} /\ nodeMap = [s \in Sites |-> 0]
  /\ maxLabel = 0 /\ dumpId = 0
  /\ snapshots = [t \in Tids |-> NoFile]
  /\ pcpipe = <<>> /\ fifo = <<>>
  /\ queue = InitialSeeds /\ answers = <<>>
  /\ rdr = "open" /\ sched = "open" /\ sent = 0 /\ loading = FALSE
  /\ dedup = {} /\ memOut = <<>>
  /\ DepInit
  /\ CoverageInit

\* The steps of the FastGen process, which runs them in one thread.
FastGenStep ==
  \/ StartTrace \/ PathPrefixEvent \/ QsymEvent \/ MemcmpEvent \/ SkipEvent
  \/ SessionTimeout \/ EndTrace \/ HandleRequest \/ FifoReopenLoop

Next == FastGenStep \/ SendRequest \/ SchedOpen \/ SchedClose \/ DeleteSnapshot

\* Once a request line is in /tmp/myfifo, FastGen's thread, blocked in
\* getline, reads and answers it: weak fairness of HandleRequest.  The same
\* thread runs the reopen loop without waiting on anything but the FIFO:
\* weak fairness of FifoReopenLoop.  Neither the 30 s budget nor the
\* scheduler is assumed to act.
Fairness == WF_vars(HandleRequest) /\ WF_vars(FifoReopenLoop)

Spec == Init /\ [][Next]_vars /\ Fairness

-----------------------------------------------------------------------------
RecordKinds == {"none", "full"}
AnswerKinds == {"ENDDUP", "ENDUNSAT", "ENDNEW"}
Digest == Seq(Seq(Nat))

SessionTypeOK ==
  /\ phase \in {"idle", "ingest", "await"}
  /\ flip \in BrcFlips /\ cur \in Tids /\ queue \subseteq Tids
  /\ pos \in 0..Len(TraceOf[cur])
  /\ brcMode \in {0, 1} /\ untaken \in Digest /\ ppMap \subseteq Digest
  /\ flipped \subseteq 1..MaxLabel
  /\ nodeMap \in [Sites -> 0..65535]
  /\ maxLabel \in 0..MaxLabel /\ dumpId \in Tids
  /\ snapshots \in [Tids -> [present : BOOLEAN, owner : Tids, size : 0..(MaxLabel + 1)]]
  /\ \A i \in 1..Len(pcpipe) : pcpipe[i].kind \in RecordKinds \cup {"END"} \cup AnswerKinds
  /\ Len(fifo) <= 1
  /\ Len(answers) <= sent /\ sent <= MaxRequests
  /\ rdr \in {"open", "eof", "closed", "opening"} /\ sched \in {"open", "closed"}
  /\ loading \in BOOLEAN
  /\ dedup \subseteq {MemDedupKey(l) : l \in Lines}
  /\ \A i \in 1..Len(memOut) : memOut[i].tid \in Tids
  /\ DepTypeOK
  /\ CoverageTypeOK

\* The kind of the last token written before line i of /tmp/pcpipe
\* (ENDNEW before the first one: the first seed starts like any other).
PrevToken(i) ==
  LET js == {j \in 1..(i - 1) : pcpipe[j].kind \in {"END"} \cup AnswerKinds}
  IN  IF js = {} THEN "ENDNEW"
      ELSE pcpipe[CHOOSE j \in js : \A k \in js : k <= j].kind

(***************************************************************************)
(* The token protocol of run_solver (spec.md 6): for each seed the         *)
(* scheduler reads its records, then END, then answers; ENDDUP and         *)
(* ENDUNSAT keep FastGen waiting and only ENDNEW lets the next seed's      *)
(* records and END come.                                                   *)
(***************************************************************************)
TokenProtocol ==
  \A i \in 1..Len(pcpipe) :
     /\ pcpipe[i].kind \in RecordKinds \cup {"END"} => PrevToken(i) = "ENDNEW"
     /\ pcpipe[i].kind \in AnswerKinds => PrevToken(i) \in {"END", "ENDDUP", "ENDUNSAT"}

(***************************************************************************)
(* The extra tuples of a full record name branches of the same trace that  *)
(* were recorded before it (update_graph's get_extra_tuple): solve() and   *)
(* gen_solve_pc clear the dependency records, so nothing of an earlier     *)
(* trace or an earlier solve reaches a record.                             *)
(***************************************************************************)
ExtraFromSameTrace ==
  \A i \in 1..Len(pcpipe) : pcpipe[i].kind = "full" =>
     \A t \in pcpipe[i].extra :
        \E j \in 1..(i - 1) :
           /\ pcpipe[j].kind = "full"
           /\ <<pcpipe[j].label, pcpipe[j].dir>> = t
           /\ \A k \in (j + 1)..(i - 1) : pcpipe[k].kind # "END"

(***************************************************************************)
(* A tree file written by a trace covers every label of that trace's full  *)
(* records: generate_tree_dump writes max_label_ + 1 entries (or           *)
(* max_label_per_session + 1 when the last line's max label is 0), where   *)
(* max_label_ is the max label field of the trace's last line; a request   *)
(* for such a record then loads the expression it names.                   *)
(***************************************************************************)
SnapshotCoversRecords ==
  \A t \in Tids : snapshots[t].present /\ snapshots[t].owner = t =>
     \A i \in 1..Len(pcpipe) :
        pcpipe[i].kind = "full" /\ pcpipe[i].tid = t => pcpipe[i].label < snapshots[t].size

(***************************************************************************)
(* Every request the scheduler writes is eventually answered with a token  *)
(* (generate_next_tscs returns for every line it parses, and run_solver    *)
(* writes the token), through every close and reopen of /tmp/myfifo, so   *)
(* the scheduler never waits forever.                                      *)
(***************************************************************************)
RequestsAnswered ==
  \A n \in 1..MaxRequests : (sent >= n) ~> (Len(answers) >= n)
-----------------------------------------------------------------------------
(* Properties the spec states and the code does not keep (findings).       *)

(***************************************************************************)
(* spec.md 6 and 8: the tree file named by a tid holds the table of that   *)
(* tid's trace.  generate_tree_dump names the file by dump_tree_id_, which *)
(* the tid field of the trace's event lines sets, so a request for a       *)
(* record of trace t loads trace t's expressions.                          *)
(***************************************************************************)
TreeFileOfOwnTrace ==
  \A t \in Tids : snapshots[t].present => snapshots[t].owner = t

(***************************************************************************)
(* spec.md 7, scenario E: under the path-prefix filter a branch whose      *)
(* flipped prefix an earlier trace already took is not interesting, so its *)
(* record carries no untaken digest to solve for (update_graph's           *)
(* try_solve).                                                             *)
(***************************************************************************)
PrefixDedupAcrossTraces ==
  \A i \in 1..Len(pcpipe) :
     pcpipe[i].kind = "full" /\ pcpipe[i].pp # ZeroDigest => ~pcpipe[i].seen

(***************************************************************************)
(* spec.md 6: ENDDUP means the requested branch's path prefix was already  *)
(* explored: check_pp rejects a request only when the untaken digest of    *)
(* the requested branch is marked.                                         *)
(***************************************************************************)
DupOnlyIfExplored ==
  \A a \in 1..Len(answers) : answers[a].token = "ENDDUP" => answers[a].explored
=============================================================================
