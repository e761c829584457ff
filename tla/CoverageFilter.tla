--------------------------- MODULE CoverageFilter ---------------------------
(***************************************************************************)
(* The qsym-style coverage filter of interface.cc: isInterestingBranch and *)
(* the process-wide maps it reads and writes.                              *)
(*                                                                         *)
(* bitmap_ (uint16, keyed by hash(pc, ctx)) counts calls for the strided   *)
(* exponential backoff of updateBitmap; virgin_map_ (uint8, this trace's   *)
(* edge counts) and trace_map_ (uint8, the OR of every count seen) are     *)
(* keyed by getIndex(hashPc(pc, taken)) = prev_loc_ combined with the      *)
(* branch hash; context_map_ holds the (prev_h, h) pairs seen and visited_ *)
(* the branch hashes seen.  init_core zeroes bitmap_, trace_map_ and       *)
(* context_map_ once; solve() resets only virgin_map_ and prev_loc_ on     *)
(* entry.  The hashes are taken as injective: an edge is the pair of the   *)
(* previous branch hash and the current one.                               *)
(***************************************************************************)
EXTENDS Naturals, Bitwise

CONSTANTS
    Pcs,        \* branch addresses
    Ctxs        \* call-stack contexts

kStride == 8
BitmapWrap == 2^16      \* bitmap_ is uint16_t
ByteWrap == 2^8         \* virgin_map_ and trace_map_ are uint8_t

\* hashPc(pc, taken) and the bitmap_ index of updateBitmap.
hashPc(pc, taken) == <<pc, taken>>
Hs == {hashPc(p, t) : p \in Pcs, t \in BOOLEAN}
BbKeys == Pcs \X Ctxs
NoLoc == <<>>           \* prev_loc_ = 0
Edges == (Hs \cup {NoLoc}) \X Hs

VARIABLES
    bitmap,       \* bitmap_
    virgin,       \* virgin_map_
    traceMap,     \* trace_map_
    contextMap,   \* context_map_: the (prev_h, h) pairs whose bit is set
    visited,      \* visited_
    prevLoc       \* prev_loc_

coverageVars == <<bitmap, virgin, traceMap, contextMap, visited, prevLoc>>

\* isPowerOfTwo and isPowerofTwoOrZero: (x & (x - 1)) == 0 in unsigned
\* arithmetic, so 0 (whose x - 1 wraps to all ones) passes.
isPowerOfTwo(x) == x = 0 \/ (x & (x - 1)) = 0
isPowerofTwoOrZero(x) == x = 0 \/ (x & (x - 1)) = 0

\* updateBitmap: the verdict is taken on the count before the increment.
BbInteresting(count) == isPowerOfTwo(count \div kStride)

getIndex(h) == <<prevLoc, h>>

(***************************************************************************)
(* isInterestingContext(h, bits): unless the edge count bits is 0 or a     *)
(* power of two, nothing; otherwise every pair (prev_h, h) over visited_   *)
(* is set in context_map_ (interesting if one was unset), and h joins      *)
(* visited_ when bits is 0.                                                *)
(***************************************************************************)
ContextPairs(h) == {<<p, h>> : p \in visited}

isInterestingContext(h, bits) ==
  isPowerofTwoOrZero(bits) /\ ~(ContextPairs(h) \subseteq contextMap)

UpdateContext(h, bits) ==
  /\ contextMap' = IF isPowerofTwoOrZero(bits) THEN contextMap \cup ContextPairs(h)
                                                ELSE contextMap
  /\ visited' = IF bits = 0 THEN visited \cup {h} ELSE visited

\* A call c = [pc, taken, ctx]: its bitmap_ key, whether updateBitmap
\* keeps it, and whether its edge count shows a bit trace_map_ lacks.
BbKey(c) == <<c.pc, c.ctx>>

Kept(c) == BbInteresting(bitmap[BbKey(c)])

EdgeIsNew(c) ==
  LET idx == getIndex(hashPc(c.pc, c.taken))
  IN  (((virgin[idx] + 1) % ByteWrap) | traceMap[idx]) # traceMap[idx]

(***************************************************************************)
(* isInterestingBranch(pc, taken, ctx) past the backoff: the context check *)
(* on the count before the increment, virgin_map_[idx]++, and if the count *)
(* shows a bit trace_map_[idx] lacks, the bits are ORed in and the inverse *)
(* direction's slot gets the bits of its own count plus one.  prev_loc_    *)
(* becomes h.  Returns whether the edge or the context was new.            *)
(***************************************************************************)
EdgeAndContext(c) ==
  LET h     == hashPc(c.pc, c.taken)
      idx   == getIndex(h)
      inv   == getIndex(hashPc(c.pc, ~c.taken))
      bits  == virgin[idx]
      v     == (bits + 1) % ByteWrap
      invV  == (virgin[inv] + 1) % ByteWrap
  IN  /\ UpdateContext(h, bits)
      /\ virgin' = [virgin EXCEPT ![idx] = v]
      /\ traceMap' = IF EdgeIsNew(c)
                     THEN [traceMap EXCEPT ![idx] = @ | v, ![inv] = @ | invV]
                     ELSE traceMap
      /\ prevLoc' = h

(***************************************************************************)
(* isInterestingBranch(pc, taken, ctx) for a call c: FilterVerdict is its  *)
(* result in the state before the call, FilterStep the call's effect.      *)
(* updateBitmap runs first; a branch it prunes returns false with nothing  *)
(* else changed.                                                           *)
(***************************************************************************)
FilterVerdict(c) ==
  LET h == hashPc(c.pc, c.taken)
  IN  Kept(c) /\ (EdgeIsNew(c) \/ isInterestingContext(h, virgin[getIndex(h)]))

FilterStep(c) ==
  /\ bitmap' = [bitmap EXCEPT ![BbKey(c)] = (@ + 1) % BitmapWrap]
  /\ IF Kept(c) THEN EdgeAndContext(c)
                ELSE UNCHANGED <<virgin, traceMap, contextMap, visited, prevLoc>>

\* solve() on entry: memset(virgin_map_, 0) and prev_loc_ = 0.
ResetPerTrace ==
  /\ virgin' = [e \in Edges |-> 0]
  /\ prevLoc' = NoLoc
  /\ UNCHANGED <<bitmap, traceMap, contextMap, visited>>

\* init_core zeroes bitmap_, trace_map_ and context_map_; virgin_map_ is a
\* zero-initialised static and visited_ starts empty.
CoverageInit ==
  /\ bitmap = [k \in BbKeys |-> 0]
  /\ virgin = [e \in Edges |-> 0]
  /\ traceMap = [e \in Edges |-> 0]
  /\ contextMap = {}
  /\ visited = {}
  /\ prevLoc = NoLoc

CoverageTypeOK ==
  /\ bitmap \in [BbKeys -> 0..(BitmapWrap - 1)]
  /\ virgin \in [Edges -> 0..(ByteWrap - 1)]
  /\ traceMap \in [Edges -> 0..(ByteWrap - 1)]
  /\ contextMap \subseteq Hs \X Hs
  /\ visited \subseteq Hs
  /\ prevLoc \in Hs \cup {NoLoc}
=============================================================================
