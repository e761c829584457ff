# TLA+ models of the Marco-SymFit solving core

## The system

Two programs in `src/` talk through named pipes:

* **The SymFit bridge** (`src/symfit-source/accel/tcg/tcg-runtime-symsan.c`) runs
  inside QEMU while a seed executes. For every symbolic compare it writes one
  branch-event line to `/tmp/wp2` (`qid,label,dir,addr,ctx,order,cons_type,tid,max_label`).
* **The FastGen core** (`src/marco/src/CE/fuzzer/cpp_core/interface.cc`) handles a
  seed in `run_solver`. The steps are:
  * `solve()` reads the seed's event lines.
  * Each event runs a filter (qsym-style coverage, or the path-prefix set
    `pfx_pp_map`).
  * `update_graph` writes a decision record to `/tmp/pcpipe`. A full record
    carries the nested constraint tuples that `get_extra_tuple` computes from
    the branch dependency records (`__branch_deps`).
  * At the end of the stream the union table is dumped as the seed's tree file,
    the per-trace state is cleared, and `END` is written.
  * `run_solver` then answers the scheduler's requests from `/tmp/myfifo`:
    * `generate_next_tscs` parses a request, and `check_pp` rejects a prefix
      that is already marked (`ENDDUP`).
    * Otherwise `gen_solve_pc` reloads the tree file and `build_nested_set_old`
      solves it with z3. The answer is `ENDUNSAT` or `ENDNEW`.
    * After `ENDNEW` the CE runs the next seed.
* **The scheduler** is the other end of both FIFOs. It is not in this repository;
  spec.md section 6 describes it.

## Modules

| module | models | state |
|---|---|---|
| `UnionTable` | `dfsan_label_info`, the label checks of `get_input_deps`/`serialize` | constants only: a trace's table is read, never written, by FastGen |
| `DepTracker` | `get_input_deps`, `get_extra_tuple`, `cleanup_deps` | `branchDeps` (`__branch_deps`), `maxLabelSession`, `extra` (last result) |
| `DepTrackerSpec` | the tracker spec.md 4.3 promises: a branch's nested set is the recorded branches connected to it by shared input offsets | `recorded`, `lastExtra` |
| `Session` | `run_solver`, `solve`, `update_graph`, `roll_in_pp`/`isInterestingPathPrefix`, `isInterestingNode`, `generate_tree_dump`, `cleanup1`, `generate_next_tscs`, `check_pp`/`mark_pp`, `gen_solve_pc`, `bcount_filter`, `handle_fmemcmp`, `build_nested_set_old` outcomes; the scheduler (from the spec) | phase, the per-trace path prefix, `untaken_update_ifsat`, `pfx_pp_map`, `flipped_labels_session`, `node_map`, `max_label_`, `dump_tree_id_`, the tree files, `/tmp/pcpipe`, `/tmp/myfifo`, the seed queue, `fmemcmp_dedup`, and ghost histories of answers and of memory-compare solutions |
| `Bridge` | the `/tmp/wp2` channel: the bridge's `symsan_setcond_internal` (with `initialize_taint_from_file` and `init_marco_pipe`) and its exit destructor as writer, `solve()`'s open, read loop and return and `run_solver`'s ENDNEW as reader; the CE launcher (from the spec) | per seed: process state, next compare, whether its fd is open; FastGen's reader state, `skip_rest`, the FIFO's contents; ghost: the lines of every session and every line written |
| `CoverageFilter` | `isInterestingBranch` with `updateBitmap` (the backoff over `bitmap_`), the virgin and trace edge maps with the inverse mark, `isInterestingContext`; the per-trace reset of `solve()` and the zeroing of `init_core` | `bitmap_`, `virgin_map_`, `trace_map_`, `context_map_`, `visited_`, `prev_loc_` |
| `Filters` | `isInterestingBranch` over a series of traces: `solve()`'s event loop, its start and its end | the trace being read and its position, the traces run; ghost: the sites called in this trace and those pruned at their first call |
| `MC_DepTracker`, `MC_Session`, `MC_Bridge`, `MC_Filters` | the tables, traces and bounds TLC checks | |

Here is how `Session` corresponds to the code:
* Each action is one handler, taken whole:
  * `StartTrace` is `run_solver`'s zeroing of `max_label_` and the resets at
    the top of `solve`.
  * `PathPrefixEvent` and `QsymEvent` are one conditional event under `brc_flip`
    1 or 0: parse, seed the prefix with the tid, filter, then `update_graph`.
    Under `brc_flip` 1 every event calls `isInterestingBranch`
    (`FilterStep` of `CoverageFilter`), and its verdict gives `uniq_pcset`.
    Under 0 only a symbolic event calls it, and its verdict gives `try_solve`.
    The call is `[pc |-> addr, taken |-> direction, ctx |-> 0]`. The context
    is 0 because the bridge's per-compare reset zeroes the context hash before
    each line is written.
  * Every line of `/tmp/wp2` first has its fields parsed (`ParseLine`): an
    event line sets `dump_tree_id_` from its tid and `max_label_` from its
    last field. A payload line is parsed the same way, so only its 8th and
    9th bytes count, and only when it has at least 9 of them.
  * `MemcmpEvent` is a memory-compare line (`cons_type` 2). It reads the
    payload line that follows it, calls `bcount_filter` (`MemDedupKey`: the
    direction is passed as 0) against `dedup` (`fmemcmp_dedup`, never
    cleared), and for a new key appends to `memOut` the solution that
    `handle_fmemcmp` hands out (`FmemcmpSolution`). The choice between a seed
    file and the solution queue (`SAVING_WHOLE`) is left out.
  * `SkipEvent` is a line after `skip_rest`, and `SessionTimeout` is the 30 s
    check. The `continue` comes before a memory compare's payload is read, so
    after the timeout the payload line is skipped as an event line of its own.
  * `EndTrace` is the dump, `cleanup1`, `cleanup_deps` and `END`. Under
    `SnapshotLoss` the dump's `fopen` may fail, and then no file is written.
  * `AnswerDup` and `AnswerMissing` are one round of `run_solver`'s loop with
    the token it writes: a duplicate prefix, or a failed `stat`.
  * A request that passes `stat` takes two steps:
    * `StatTree` sets `max_label_` from the file size.
    * Then `AnswerVanished` or `AnswerSolved` follows. `AnswerVanished` is an
      `fopen` that fails because the file was removed after the `stat`; it
      returns -1, which gives ENDDUP, and runs no cleanup. `AnswerSolved` is
      the load, the solve and the cleanup, then `RunSolverBranch`:
      `run_solver`'s one branch that writes ENDNEW and breaks out to the CE,
      or else writes ENDUNSAT.
    * A removal (`DeleteSnapshot`) may fall between the two steps.
* `/tmp/myfifo` has two ends:
  * FastGen's end is `rdr`:
    * `open`;
    * `eof` (`getline` failed);
    * `closed` (closed, `open` not yet called);
    * `opening` (blocked in `open`, which the kernel counts as a reader).
  * The scheduler's end is `sched`.
  * `FifoEOF`, `FifoClose` and `FifoReopen` are the reopen loop of
    `generate_next_tscs` (interface.cc:869-887).
  * `SchedOpen` and `SchedClose` are the scheduler connecting and
    disconnecting. spec.md 4.6 and 5 say the peer may disconnect.
  * The last close of both ends drops what the FIFO holds.
  * A write with no reader would fail with EPIPE. The scheduler writes only
    while a reader is there, because what it does on EPIPE is not known.
* `DepTracker` is extended by `Session`, so a full record's tuples are those of
  the real `get_extra_tuple`.

Abstractions:
* An XXH64 digest is the sequence of items rolled into it, so digests never
  collide. Digest 0 is `<<>>`.
* z3 and the 30 s budget are free choices.
* A tree file is its owner and its number of entries. A request for a label at
  or above the file's size, or for a file another trace wrote, is "garbled": any
  outcome may follow.
* The scheduler requests one full record at a time, never the same record
  twice, and up to `MaxRequests` requests. It writes its next request only
  after the token of the last one has come (`sent = Len(answers)`). It may
  close and reopen its end at any time. `ReconnectInWindow` says whether it
  may reopen between FastGen's EOF and FastGen's `close`.

Here is how `Bridge` corresponds to the code:
* `SetcondClose` is the start of a compare. `initialize_taint_from_file` finds
  the previous compare's initialisation, closes the fd and resets the trace
  state. `init_marco_pipe` then closes the fd if it is still open.
* `SetcondOpenWrite` is the reopen `O_WRONLY` (it blocks until a reader has the
  FIFO open) and the write of the line. Every compare writes one, concrete ones
  too.
* `Exit` is the destructor `close_marco_pipes`.
* `OpenReader` is `solve()`'s open returning at once because a writer
  already holds the FIFO open.
* `ReadLine`, `Timeout` and `ReadEOF` are `solve()`'s `getline` loop, its 30 s
  check and its end at EOF: an empty FIFO with no writer.
* `ReaderClose` is `solve()` returning. The `ifstream` is a local, so the
  FIFO stays open from EOF through `generate_tree_dump` (with its `system()`
  call), `cleanup1` and `cleanup_deps`. A writer may open it and write in
  that window (`rd = "closing"`). With no writer left, the close drops what
  the FIFO still holds.
* `EndNew` is the end of `run_solver`, after which the next `run_solver` opens
  `/tmp/wp2` again.
* `CloseWriter` is a writer's `close`. When both ends are closed, the kernel
  drops what the FIFO still holds.
* The model assumes `MARCO_MODE=1` and a `TAINT_OPTIONS` that names a readable
  file, the only setting that makes labels symbolic. Under it every compare
  takes both closes.
* The launcher is outside the repository. It starts seed s+1 after the s-th
  ENDNEW, once seed s has exited.

Here is how `CoverageFilter` corresponds to the code:
* `FilterStep` is one call of `isInterestingBranch`. `updateBitmap` adds one to
  the 16-bit `bitmap_` slot of (pc, ctx), wrapping at 2^16. A call whose old
  count divided by 8 is neither 0 nor a power of two returns at once, before
  `prev_loc_` moves.
* A call that is kept (`EdgeAndContext`) does the following:
  * it updates `context_map_` and `visited_` (`UpdateContext`);
  * it sets the edge's `virgin_map_` byte, wrapping at 2^8;
  * on a new edge, it ORs the edge into `trace_map_` and marks the inverse
    edge;
  * it moves `prev_loc_`.
* `ResetPerTrace` is what `solve()` clears: `virgin_map_` and `prev_loc_` (and
  `node_map`, in `Session`). `bitmap_`, `trace_map_` and `context_map_` are
  zeroed once, by `init_core`, and carry over from trace to trace.
* A hash of a pc and a direction is the pair itself, so hashes never collide.

`DepTracker` refines `DepTrackerSpec`: `INSTANCE DepTrackerSpec WITH DepsOf <-
BranchInputDeps, recorded <- RecordedTuples, lastExtra <- extra`, and the run
checks `Abstract!AbsSpec` as a property.

## Runs

| run | cfg | expect | what it shows |
|---|---|---|---|
| dep_tracker | MC_DepTracker.cfg | pass | It checks `RecordsClosed` and the refinement `ImplementsDepTrackerSpec` over every sequence of branches, using six branch labels. One branch loads two bytes, one reads `kInitializingLabel`, one is too deep, and one is a `not`. At most 3 tuples are recorded per session. |
| session | MC_Session.cfg | pass | `TokenProtocol`, `ExtraFromSameTrace`, and `SnapshotCoversRecords` hold, and `RequestsAnswered`: every request, duplicates included, is eventually answered. They are checked for 3 seeds under both filters, with tree files that may vanish. |
| bridge | MC_Bridge.cfg | pass | It checks `NoStrandedReader`: FastGen is never blocked on `/tmp/wp2` while no process can write to it. |
| trace_split | MC_BridgeSplit.cfg | violation | `SessionIsOneTrace` fails. The close at the top of each compare lets `solve()` see EOF mid-trace, so one seed's trace becomes two sessions, with a dump and `cleanup1` between them. |
| stranded_reader | MC_BridgeStrand.cfg | violation | `NoStrandedReader` fails. A seed with no compare never opens `/tmp/wp2`, and `solve()` blocks in `open` forever. |
| snapshot_truncated | MC_SessionTruncated.cfg | violation | The bridge writes a per-compare max label, so the tree file is cut below a recorded label. |
| request_lost | MC_SessionLost.cfg | violation | `RequestsAnswered` fails once the scheduler may reconnect inside FastGen's reopen window. The failing sequence is: FastGen gets EOF; the scheduler opens, writes a request and closes; FastGen closes before it reopens. Both ends are then closed, the kernel drops the line, and FastGen and the scheduler each wait for the other. |
| payload_misparsed | MC_SessionPayload.cfg | violation | `TreeFileOfOwnTrace` fails. Seed 0's trace ends with a memory compare whose payload is 9 bytes long. The 30 s budget runs out before it, so the `skip_rest` `continue` skips the compare line and the next iteration parses the payload as an event line. Its 8th byte (1) becomes `dump_tree_id_`, and seed 0's table is written as tree file 1. A request for seed 1 would then load seed 0's table. |
| prefix_tid_seeded | MC_SessionPrefix.cfg | violation | Scenario E: the tid seeds every prefix, so nothing is deduplicated across traces. |
| lines_lost | MC_BridgeLost.cfg | violation | `EventsDeliveredInOrder` fails. Seed 1 writes its first line and closes its fd at its next compare; `solve()` reads the line, sees EOF and starts its tree dump with the FIFO still open. Seed 1's reopen succeeds in that window and it writes its second line. `solve()` returns, and when seed 1 exits the last close drops the line, which no session read. |
| stale_pp_dup | MC_SessionStalePP.cfg | violation | The request parser takes only fields a comma follows, so extra is never read and, when extra is empty, neither is the digest. Such a request reuses the previous request's digest, and an unexplored branch gets ENDDUP. |
| bb_pruning_persists | MC_FiltersPersist.cfg | violation | `FirstVisitJudgedFresh` fails. `bitmap_` is never reset between traces, so after three runs of a loop that takes its branch 8 times, the fourth run's first call at that site finds a count of 24. It is pruned before the trace has seen the site. spec.md 3 and 5 describe the bitmap as per-trace state. |

PROJECT.json lists the findings with their source lines, and a mutant for
every property of a passing run.

## Bounds

MC_Session uses three seeds over four input bytes.
* Seed 0 takes three events: two linked symbolic branches and a concrete one.
* Seed 1 takes three events. Its first branch site is seed 0's, taken the other
  way, which is scenario E. Then come a tree deeper than 500 and a label made
  earlier than seed 0's.
* Seed 2 is made by the first ENDNEW. It reads a label that is still being
  initialised.
* Seeds 0 and 1 both end with the same memory compare (one address, order 1)
  and its 2-byte payload, so the dedup set is tested across traces. The
  compare comes after the conditional events, so the timeout can fall before
  it. `PayloadTraceOf` gives seed 0 a 9-byte payload whose 8th byte names
  seed 1.

These cases need only 2 requests:
* An ENDDUP needs a request answered and marked, then a second request.
* The stale digest needs two requests, one with extra and one without.
* The seed that ENDNEW creates needs one request.

MC_Bridge runs three seeds:
* seed 1 makes a symbolic compare and then a concrete one, so a close and a
  reopen fall between two of its lines;
* seed 2 makes one concrete compare;
* seed 3 makes one symbolic compare.

Two lines in one trace are enough to split it. A one-line trace shows that the
launcher's hand-over works. `StrandTraces` empties seed 2.

MC_Filters has two traces over pcs 1 and 2, in one context. Trace 1 is a loop
that takes the branch at pc 1 eight times, one backoff stride. Trace 2 takes
both branches both ways, so that edges, inverse marks and context pairs occur.
Four runs let the loop's count reach 24 = 3 * 8, the first count at which the
backoff prunes. TLC finds the violation in a few seconds.

Larger bounds repeat the same shapes. The session run reaches about 364,000
distinct states and needs about 1 min 45 s. Two requests are enough for the
reopen loop too. After the first token, the scheduler's disconnect makes
FastGen reach EOF and reopen before the second request.

## Fairness

The only fairness assumed is weak fairness of `HandleRequest` and of
`FifoReopenLoop`. FastGen's one thread blocks in `getline` on `/tmp/myfifo`,
so it handles a request line as soon as one is there. It runs the EOF, close
and reopen steps of its loop without waiting on anything but the FIFO. No fairness is assumed of the scheduler, of the 30 s
budget or of the removal of tree files. Deadlock is not checked, because the
real system stops when the scheduler stops sending requests. MC_Bridge does not
check deadlock either: after the last seed, FastGen rightly waits in `open`.
`NoStrandedReader` is the property that separates that stop from a hang.

## Not modelled (yet)

* The bytes of a memory-compare payload, and its length against `data[1024]`.
  The bridge of this repository never writes `cons_type` 2, so nothing bounds
  a payload. `handle_fmemcmp` copies `size` bytes even when the payload holds
  fewer. The model records both numbers but states nothing about the
  uninitialised rest.
* A property of the memory-compare dedup. `fmemcmp_dedup` is modelled
  (`dedup`, `MemDedupKey`), but "solved at most once" would only restate
  `bcount_filter`'s insert-if-new.
* What `run_solver`'s test does to an optimistic seed. Testing `res == 1`
  instead of `res > 0` would write ENDUNSAT for a seed
  `build_nested_set_old` already wrote (result 2), and the token protocol
  would still hold. No property states that every written seed is announced.
* The loss of the request's extra field has no run of its own any more. The
  parse is modelled (`PPParsed`, `ParsedExtra`), and `stale_pp_dup` shows its
  effect on the digest.
* The seed-file branch of `handle_fmemcmp` (`SAVING_WHOLE`), and the solution
  queue's consumer, which is outside this repository.
* The direction that `bcount_filter`'s key drops. The model's key is the
  code's key, and no run states the spec's key.
* Scenario D (a missing tree file answered ENDDUP). `gen_solve_pc` answers
  ENDUNSAT on purpose: the code calls this "FORCE MODE ... for testing". The
  model keeps that branch, but its run slot went to `payload_misparsed`.
* What the scheduler does when a write fails with EPIPE. Its real timing is
  also not modelled, and that timing decides whether the window of
  `request_lost` is hit in practice.
* A failing `fread` of a tree file, or a short `fwrite` of one.
* The empty request line that `generate_next_tscs` skips.
* Scenario A (a concrete branch gets a record with payload none). The code
  returns early in `update_graph` (interface.cc:923) and writes no record. The
  model keeps that return, but no run states scenario A. Its run slot went to
  `request_lost`.
* z3 itself.
* Parts of the bridge:
  * Label creation (`dfsan_union`).
  * The branch-order table and the context hash. The per-compare reset
    (tcg-runtime-symsan.c:1783-1810) runs before each line is written, so
    `order` is always 1 and `ctx` is always 0.
  * The call-stack hooks `notify_call` and `notify_return`, which TCG never
    emits.
  * The helpers that are never called: `generate_extra_field`, `roll_in_pp`,
    `marco_isInterestingBranch`, `compute_label_depth` and `wait_for_ack`.
  * The bridge opens `/tmp/myfifo` once as a reader and never reads it.
* `Bridge` and `Session` are separate models. What a split trace does to the
  solving session is described in the `trace_split` finding and not checked.
* Logging, bootstrap and the test programs have no protocol state.

## Plan for later work

* The token grammar of the extra field (`get_extra_tuple` writes `l,d.`,
  and `build_nested_set_old` reads up to `#`). It matters only once the
  extra field is parsed.
* `Bridge` and `Session` composed, so that a split trace's effect on the
  solving session is checked.
