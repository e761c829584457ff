------------------------------- MODULE Bridge -------------------------------
(***************************************************************************)
(* The branch-event channel /tmp/wp2 between the SymFit bridge and the     *)
(* FastGen core.                                                           *)
(*                                                                         *)
(* Writer (tcg-runtime-symsan.c).  One QEMU process per seed.  Every       *)
(* symsan_setcond_internal call first runs initialize_taint_from_file,     *)
(* which finds __taint_initialized set from the previous call, closes      *)
(* __marco_pipe_fd and re-initialises the trace state, and then            *)
(* init_marco_pipe, which closes the fd again and reopens /tmp/wp2         *)
(* O_WRONLY: the open blocks until a reader has the FIFO open.  It then    *)
(* writes one event line.  The process destructor closes the fd.           *)
(*                                                                         *)
(* Reader (interface.cc).  run_solver calls solve(), which opens /tmp/wp2  *)
(* (blocking until a writer opens it) and reads lines with getline until   *)
(* EOF: an empty FIFO with no writer.  The lines read form one session.    *)
(* The ifstream stays open after the loop, through the tree dump and the   *)
(* cleanups, until solve() returns; END follows, then requests are         *)
(* answered until ENDNEW, after which the next run_solver opens /tmp/wp2   *)
(* again.                                                                  *)
(*                                                                         *)
(* A FIFO whose last reader and last writer have both closed loses the     *)
(* data still in it.  A line is <<seed, index>>; its fields are left out.  *)
(* The launcher, outside this repository, starts seed s+1 after the s-th   *)
(* ENDNEW once seed s has exited.                                          *)
(***************************************************************************)
EXTENDS Naturals, Sequences, FiniteSets, SequencesExt

CONSTANT
    Traces       \* seed -> the sequence of its compares, each a label (0 = concrete)

Seeds == 1..Len(Traces)

VARIABLES
    st,          \* seed -> "new" | "idle" | "opening" | "exited"
    next,        \* seed -> index of its next compare
    fd,          \* seed -> __marco_pipe_fd >= 0
    rd,          \* FastGen: "opening" (in open) | "reading" | "closing" (after EOF, still
                 \* open) | "answer" (run_solver loop)
    skip,        \* skip_rest of the current solve()
    buf,         \* lines in the FIFO
    cur,         \* lines read by the current solve()
    sessions,    \* ghost: the lines of every finished solve(), in order
    written,     \* ghost: every line the bridge has written, in order
    newCount     \* number of ENDNEW tokens written

vars == <<st, next, fd, rd, skip, buf, cur, sessions, written, newCount>>

Line(s, i) == <<s, i>>

AllLines == UNION {{Line(s, i) : i \in 1..Len(Traces[s])} : s \in Seeds}

\* The reader holds /tmp/wp2 open from solve()'s open until it returns.
ReaderOpen == rd \in {"reading", "closing"}

\* close() of a writer fd: the last close of both ends drops the buffer.
CloseWriter(s) ==
  /\ fd' = [fd EXCEPT ![s] = FALSE]
  /\ buf' = IF ~ReaderOpen /\ \A t \in Seeds \ {s} : ~fd[t] THEN <<>> ELSE buf

(***************************************************************************)
(* Launcher (spec.md 6, outside src/): seed 1 first, then seed s once the  *)
(* (s-1)-th ENDNEW has been written and seed s-1 has exited.               *)
(***************************************************************************)
CanLaunch(s) ==
  /\ st[s] = "new"
  /\ IF s = 1 THEN TRUE ELSE st[s-1] = "exited" /\ newCount >= s - 1

Launch(s) ==
  /\ CanLaunch(s)
  /\ st' = [st EXCEPT ![s] = "idle"]
  /\ UNCHANGED <<next, fd, rd, skip, buf, cur, sessions, written, newCount>>

(***************************************************************************)
(* The top of symsan_setcond_internal: initialize_taint_from_file closes   *)
(* the fd of the previous compare (the per-trace reset runs on every       *)
(* call), and init_marco_pipe closes it (if still open) before reopening.  *)
(***************************************************************************)
\* Mutant: the helper returns at once for a concrete compare (both labels
\* 0, as __taint_trace_cmp does), so it neither closes nor opens the FIFO.
SetcondCloseSkipConcrete(s) ==
  /\ st[s] = "idle"
  /\ next[s] <= Len(Traces[s])
  /\ IF Traces[s][next[s]] = 0
     THEN /\ next' = [next EXCEPT ![s] = @ + 1]
          /\ UNCHANGED <<st, fd, buf>>
     ELSE /\ st' = [st EXCEPT ![s] = "opening"]
          /\ CloseWriter(s)
          /\ UNCHANGED next
  /\ UNCHANGED <<rd, skip, cur, sessions, written, newCount>>

SetcondClose(s) ==
  /\ st[s] = "idle"
  /\ next[s] <= Len(Traces[s])
  /\ st' = [st EXCEPT ![s] = "opening"]
  /\ CloseWriter(s)
  /\ UNCHANGED <<next, rd, skip, cur, sessions, written, newCount>>

(***************************************************************************)
(* The open of init_marco_pipe returns once a reader has the FIFO open;    *)
(* if solve() is blocked in its own open, both return.  A solve() past its *)
(* read loop still has the FIFO open, so the open returns then too.  The   *)
(* event line is written at once (every compare, concrete ones too).       *)
(***************************************************************************)
\* Mutant: the compare counter is advanced before the line is formatted.
SetcondOpenWriteCountFirst(s) ==
  /\ st[s] = "opening"
  /\ rd \in {"opening", "reading", "closing"}
  /\ st' = [st EXCEPT ![s] = "idle"]
  /\ fd' = [fd EXCEPT ![s] = TRUE]
  /\ next' = [next EXCEPT ![s] = @ + 1]
  /\ buf' = Append(buf, Line(s, next'[s]))
  /\ written' = Append(written, Line(s, next'[s]))
  /\ rd' = IF rd = "closing" THEN rd ELSE "reading"
  /\ skip' = IF rd = "opening" THEN FALSE ELSE skip
  /\ UNCHANGED <<cur, sessions, newCount>>

SetcondOpenWrite(s) ==
  /\ st[s] = "opening"
  /\ rd \in {"opening", "reading", "closing"}
  /\ st' = [st EXCEPT ![s] = "idle"]
  /\ fd' = [fd EXCEPT ![s] = TRUE]
  /\ next' = [next EXCEPT ![s] = @ + 1]
  /\ buf' = Append(buf, Line(s, next[s]))
  /\ written' = Append(written, Line(s, next[s]))
  /\ rd' = IF rd = "closing" THEN rd ELSE "reading"
  /\ skip' = IF rd = "opening" THEN FALSE ELSE skip
  /\ UNCHANGED <<cur, sessions, newCount>>

\* Process exit: the destructor close_marco_pipes closes the fd.
Exit(s) ==
  /\ st[s] = "idle"
  /\ next[s] > Len(Traces[s])
  /\ st' = [st EXCEPT ![s] = "exited"]
  /\ CloseWriter(s)
  /\ UNCHANGED <<next, rd, skip, cur, sessions, written, newCount>>

(***************************************************************************)
(* solve()'s read loop.  A line read after skip_rest is still consumed.    *)
(* getline fails (EOF) when the FIFO is empty and no writer has it open;   *)
(* the loop ends and the session is complete, but the ifstream is open     *)
(* until solve() has dumped the tree, cleaned up and returned.             *)
(***************************************************************************)
\* solve()'s open of /tmp/wp2 returns at once when a writer holds it open.
OpenReader ==
  /\ rd = "opening"
  /\ \E s \in Seeds : fd[s]
  /\ rd' = "reading"
  /\ skip' = FALSE
  /\ UNCHANGED <<st, next, fd, buf, cur, sessions, written, newCount>>

ReadLine ==
  /\ rd = "reading"
  /\ buf # <<>>
  /\ cur' = Append(cur, Head(buf))
  /\ buf' = Tail(buf)
  /\ UNCHANGED <<st, next, fd, rd, skip, sessions, written, newCount>>

\* The 30 s budget of solve() is exceeded: skip_rest is set.
Timeout ==
  /\ rd = "reading"
  /\ ~skip
  /\ skip' = TRUE
  /\ UNCHANGED <<st, next, fd, rd, buf, cur, sessions, written, newCount>>

ReadEOF ==
  /\ rd = "reading"
  /\ buf = <<>>
  /\ \A s \in Seeds : ~fd[s]
  /\ rd' = "closing"
  /\ sessions' = Append(sessions, cur)
  /\ cur' = <<>>
  /\ UNCHANGED <<st, next, fd, skip, buf, written, newCount>>

\* solve() returns after generate_tree_dump, cleanup1 and cleanup_deps: the
\* ifstream closes, and with no writer left the FIFO's contents are lost.
\* run_solver writes END.
ReaderClose ==
  /\ rd = "closing"
  /\ rd' = "answer"
  /\ buf' = IF \A s \in Seeds : ~fd[s] THEN <<>> ELSE buf
  /\ UNCHANGED <<st, next, fd, skip, cur, sessions, written, newCount>>

\* The bound only keeps newCount finite; the launcher needs one ENDNEW per
\* seed, and the bound leaves one per line.
MaxEndNew == Cardinality(AllLines)

\* run_solver's request loop ends with ENDNEW; the next run_solver opens
\* /tmp/wp2 again.  ENDDUP and ENDUNSAT rounds leave this state unchanged.
EndNew ==
  /\ rd = "answer"
  /\ newCount < MaxEndNew
  /\ rd' = "opening"
  /\ newCount' = newCount + 1
  /\ UNCHANGED <<st, next, fd, skip, buf, cur, sessions, written>>

Init ==
  /\ st = [s \in Seeds |-> "new"]
  /\ next = [s \in Seeds |-> 1]
  /\ fd = [s \in Seeds |-> FALSE]
  /\ rd = "opening"
  /\ skip = FALSE
  /\ buf = <<>>
  /\ cur = <<>>
  /\ sessions = <<>>
  /\ written = <<>>
  /\ newCount = 0

Next ==
  \/ \E s \in Seeds : Launch(s) \/ SetcondClose(s) \/ SetcondOpenWrite(s) \/ Exit(s)
  \/ OpenReader \/ ReadLine \/ Timeout \/ ReadEOF \/ ReaderClose \/ EndNew

Spec == Init /\ [][Next]_vars


BridgeTypeOK ==
  /\ st \in [Seeds -> {"new", "idle", "opening", "exited"}]
  /\ next \in [Seeds -> Nat]
  /\ fd \in [Seeds -> BOOLEAN]
  /\ rd \in {"opening", "reading", "closing", "answer"}
  /\ skip \in BOOLEAN
  /\ buf \in Seq(AllLines)
  /\ cur \in Seq(AllLines)
  /\ sessions \in Seq(Seq(AllLines))
  /\ written \in Seq(AllLines)
  /\ newCount \in 0..MaxEndNew

(***************************************************************************)
(* FastGen is never left blocked on /tmp/wp2 (in open, or in a read that   *)
(* waits on an open writer) while no process can ever write to it: some    *)
(* process is running or can be launched, unless every seed has run.       *)
(***************************************************************************)
ReaderBlocked ==
  \/ rd = "opening" /\ \A s \in Seeds : ~fd[s]
  \/ rd = "reading" /\ buf = <<>> /\ \E s \in Seeds : fd[s]

WriterCanRun ==
  \E s \in Seeds : st[s] \in {"idle", "opening"} \/ CanLaunch(s)

AllExited == \A s \in Seeds : st[s] = "exited"

NoStrandedReader == ReaderBlocked => (WriterCanRun \/ AllExited)

-----------------------------------------------------------------------------
(* Properties the spec states and the code does not keep (findings).       *)

(***************************************************************************)
(* Every event line the bridge writes reaches solve() once and in order,   *)
(* through all the closes and reopens of /tmp/wp2: the lines of the        *)
(* finished sessions, then those of the current one, then the FIFO's       *)
(* contents are exactly the lines written (spec.md 4.6: one session is    *)
(* one executed trace, its event lines read until end-of-stream).          *)
(***************************************************************************)
EventsDeliveredInOrder ==
  FlattenSeq(sessions) \o cur \o buf = written

(***************************************************************************)
(* spec.md 4.6 and 7: solve() processes one trace to completion, and EOF   *)
(* on the event channel is the trace's end.  Every finished session holds  *)
(* the whole trace of one seed, in order, and nothing else.                *)
(***************************************************************************)
WholeTrace(s) == [i \in 1..Len(Traces[s]) |-> Line(s, i)]

SessionIsOneTrace ==
  \A j \in 1..Len(sessions) : \E s \in Seeds : sessions[j] = WholeTrace(s)
=============================================================================
