--------------------------- MODULE SegmentBitmap ---------------------------
(***************************************************************************)
(* The life of one segment of heap_concurrent.c and its bitmaps: it is     *)
(* initialized for a block size, blocks are handed out along its free bits *)
(* (sml_alloc, find_bitmap), objects are marked, the collect bitmap is     *)
(* copied and the upper level rebuilt, and the segment goes back to the    *)
(* pool, from where it may be initialized for another block size.          *)
(*                                                                         *)
(* A word of memory is the set of its 1 bits.                              *)
(***************************************************************************)
EXTENDS SegmentLayout

VARIABLES
  L,        \* layout: the one the segment is initialized for
  loc,      \* where it is: "free", "ready", "current", "filled" or "partial"
  mem,      \* the words behind the header
  b, p,     \* alloc_ptr: the bit pointer [word, bit] and the block it is at
  snap,     \* allocptr_snapshot, as a block number
  used,     \* ghost: the blocks that hold an object
  kept      \* ghost: the blocks the last collection found marked

vars == <<L, loc, mem, b, p, snap, used, kept>>

Bit   == 0..(WordBits - 1)
Words == 0..(Max({segment_layout[k].zerofill : k \in Subheaps}) - 1)

\* layout is NULL.
NoLayout == [blocks |-> 0]

\* The words of level r, and of the collect bitmap, by their first address
\* (WordBytes is 1 in this module).
Base(r)     == L.rank[r].offset
Length(r)   == L.rank[r].bits \div WordBits
CollectWord(w) == L.collect + w

\* A fresh page is filled with zero.
Init ==
  /\ L = NoLayout /\ loc = "free"
  /\ mem = [a \in Words |-> {}]
  /\ b = [word |-> 0, bit |-> 0] /\ p = 0 /\ snap = 0
  /\ used = {} /\ kept = {}

-----------------------------------------------------------------------------
(* init_segment.                                                            *)

\* The last word of each level holds a sentinel of the old layout.
IsOldSentinel(a) == \E r \in {1, 2} : a = LastWord(L, r)

\* Memory cleared for layout l.
Cleaned(l) ==
  [a \in Words |->
     CASE L = NoLayout -> mem[a]
       [] L # NoLayout /\ a >= L.zerofill /\ a < l.zerofill -> {}
       [] L # NoLayout /\ a < L.zerofill /\ IsOldSentinel(a) -> {}
       [] OTHER -> mem[a]]

\* m with the sentinels of layout l.
WithSentinels(l, m) ==
  [m EXCEPT ![LastWord(l, 1)] = Sentinel(l, 1),
            ![LastWord(l, 2)] = Sentinel(l, 2)]

InitSegment(k) ==
  /\ loc = "free"
  /\ loc' = "ready"
  /\ L' = segment_layout[k]
  /\ IF L' = L THEN UNCHANGED <<mem, snap>>
     ELSE mem' = WithSentinels(L', Cleaned(L')) /\ snap' = 0
  /\ UNCHANGED <<b, p, used, kept>>

\* set_alloc_ptr before the snapshot of a collection.
SetAllocPtr ==
  /\ loc \in {"ready", "partial"}
  /\ loc' = "current"
  /\ b' = [word |-> 0, bit |-> 0] /\ p' = 0
  /\ snap' = L.blocks
  /\ UNCHANGED <<L, mem, used, kept>>

-----------------------------------------------------------------------------
(* sml_alloc.                                                               *)

\* BITPTR_NEXT0: the 0 bits of the word from the given bit on.
Zeros(r, word, bit) == {i \in Bit : i >= bit /\ i \notin mem[Base(r) + word]}

\* BITPTR_INC.
Inc(w, i) == IF i = WordBits - 1 THEN [word |-> w + 1, bit |-> 0]
             ELSE [word |-> w, bit |-> i + 1]

\* Mutant: bitptr_linear_search is left out.
OneWordOnly(n) ==
  LET zs == Zeros(2, n \div WordBits, n % WordBits)
  IN  IF zs = {} THEN -1 ELSE (n \div WordBits) * WordBits + Min(zs)

\* find_bitmap on the upper level: the first 0 bit from bit n on, in its word
\* or, by bitptr_linear_search, in a later one; -1 if there is none.
UpperSearch(n) ==
  LET w  == n \div WordBits
      ws == {v \in w..(Length(2) - 1) :
               Zeros(2, v, IF v = w THEN n % WordBits ELSE 0) # {}}
  IN IF ws = {} THEN -1
     ELSE LET v == Min(ws)
          IN  v * WordBits + Min(Zeros(2, v, IF v = w THEN n % WordBits ELSE 0))

\* find_bitmap: the index of the next free block, or -1.  Below a 0 bit of
\* the upper level there must be a 0 bit.
FindBitmap ==
  LET here == Zeros(1, b.word, b.bit) IN
  IF here # {} THEN b.word * WordBits + Min(here)
  ELSE LET w == UpperSearch(b.word + 1)
       IN  IF w = -1 THEN -1 ELSE w * WordBits + Min(Zeros(1, w, 0))

\* What the program writes into blocks and the collector into stack slots.
Scribbled(m) == [a \in Words |-> IF a >= L.zerofill THEN Bit ELSE m[a]]

\* The fast path, or find_bitmap.
Alloc ==
  /\ loc = "current"
  /\ LET i == IF b.bit \notin mem[Base(1) + b.word] THEN p ELSE FindBitmap IN
     /\ i # -1
     /\ used' = used \cup {i}
     /\ b' = IF b.bit \notin mem[Base(1) + b.word] THEN Inc(b.word, b.bit)
             ELSE Inc(i \div WordBits, i % WordBits)
     /\ p' = i + 1
  /\ mem' = Scribbled(mem)
  /\ UNCHANGED <<L, loc, snap, kept>>

\* Nothing is left: release_alloc_ptr.
Release ==
  /\ loc = "current"
  /\ b.bit \in mem[Base(1) + b.word] /\ FindBitmap = -1
  /\ loc' = "filled"
  /\ UNCHANGED <<L, mem, b, p, snap, used, kept>>

-----------------------------------------------------------------------------
(* A collection.                                                            *)

InBitmap(i) == i % WordBits \in mem[Base(1) + i \div WordBits]

\* An object that survived the last collection or is in front of the snapshot.
IsTarget(i) == InBitmap(i) \/ i < snap

\* visit: the collect bit of a target.
Mark(i) ==
  /\ i \in used /\ IsTarget(i)
  /\ mem' = [mem EXCEPT ![CollectWord(i \div WordBits)] = @ \cup {i % WordBits}]
  /\ UNCHANGED <<L, loc, b, p, snap, used, kept>>

\* save_alloc_ptr: the snapshot of the current segment, before any mark.
Snapshot ==
  /\ loc = "current" /\ snap = L.blocks
  /\ \A w \in 0..(Length(1) - 1) : mem[CollectWord(w)] = {}
  /\ snap' = p
  /\ UNCHANGED <<L, loc, mem, b, p, used, kept>>

\* The sentinel that copy_collect_bitmap adds to word w.
AddedSentinel(w) == IF w = Length(1) - 1 THEN Sentinel(L, 1) ELSE {}

\* Mutant: the upper level is left as it was.
UpperStays(w) == mem[Base(2) + w]

\* Word w of the upper level, rebuilt from the new lower level.
Rebuilt(w) ==
  {i \in Bit :
     LET v == w * WordBits + i IN
     \/ v < Length(1) /\ mem[CollectWord(v)] \cup AddedSentinel(v) = Bit
     \/ v >= Length(1)}

\* copy_collect_bitmap.
Copied ==
  [a \in Words |->
     CASE a \in Base(1)..(Base(2) - 1) ->
            mem[CollectWord(a - Base(1))] \cup AddedSentinel(a - Base(1))
       [] a \in Base(2)..(L.collect - 1) -> Rebuilt(a - Base(2))
       [] OTHER -> mem[a]]

\* clear_collect_bitmap.
ClearCollect(m) == [a \in Words |-> IF a \in L.collect..(L.zerofill - 1)
                                    THEN {} ELSE m[a]]

Marked == {i \in 0..(L.blocks - 1) :
             i % WordBits \in mem[CollectWord(i \div WordBits)]}

\* free_count: the 0 bits of the words from w on.
FreeCount(m, w) ==
  MapThenSumSet(LAMBDA v : WordBits - Cardinality(m[Base(1) + v]),
                w..(Length(1) - 1))

\* reclaim_subheap: objects that are no targets stay without a mark.
Reclaim ==
  /\ loc \in {"current", "filled", "partial"}
  /\ kept' = Marked
  /\ used' = Marked \cup {i \in used : ~IsTarget(i)}
  /\ LET n == FreeCount(Copied, 0) IN
     loc' = CASE loc = "current" -> loc
              [] loc = "filled" /\ snap < L.blocks -> loc
              [] n = 0 -> "filled"
              [] n = L.blocks -> "free"
              [] OTHER -> "partial"
  /\ mem' = IF loc' = "free" THEN Copied ELSE ClearCollect(Copied)
  /\ snap' = IF loc' \in {"current", "filled"} THEN L.blocks ELSE 0
  /\ UNCHANGED <<L, b, p>>

Next ==
  \/ \E k \in Subheaps : InitSegment(k)
  \/ SetAllocPtr \/ Alloc \/ Release \/ Snapshot \/ Reclaim
  \/ \E i \in used : Mark(i)

Spec == Init /\ [][Next]_vars

-----------------------------------------------------------------------------
\* Every variable has the type of the field it stands for, and the bit
\* pointer and the address of the allocation pointer are in step.
TypeOK ==
  /\ L \in {NoLayout} \cup {segment_layout[k] : k \in Subheaps}
  /\ mem \in [Words -> SUBSET Bit]
  /\ loc # "free" => used \subseteq 0..(L.blocks - 1)
  /\ loc = "current" => b.word * WordBits + b.bit = p /\ p <= L.blocks

\* A segment that init_segment has prepared has nothing but sentinels in its
\* bitmaps, whatever it was used for before: the assertion check_filled.
Zeroed ==
  loc = "ready" =>
    \A a \in Base(1)..(L.zerofill - 1) :
      mem[a] = CASE a = LastWord(L, 1) -> Sentinel(L, 1)
                 [] a = LastWord(L, 2) -> Sentinel(L, 2)
                 [] OTHER -> {}

\* Before a segment is used again, the upper level agrees with the lower one
\* wherever find_bitmap can look: below a 0 bit there is a free block.
UpperAgrees ==
  loc \in {"current", "partial"} =>
    \A w \in 0..(Length(1) - 1) :
      w > b.word /\ w % WordBits \notin mem[Base(2) + w \div WordBits]
        => mem[Base(1) + w] # Bit

\* sml_alloc hands out the first block behind the allocation pointer that was
\* not marked, which holds no object, and gives the segment up only if there
\* is none.
AllocatesFirst ==
  loc = "current" /\ kept' = kept /\ (loc' = "filled" \/ p' # p) =>
    LET free == {i \in p..(L.blocks - 1) : i \notin kept} IN
    IF loc' = "filled" THEN free = {}
    ELSE Min(free) \notin used /\ used' = used \cup {Min(free)}
FirstFree == [][AllocatesFirst]_vars

\* The free blocks from block n on.
FreeFrom(n) == Cardinality({i \in n..(L.blocks - 1) : ~InBitmap(i)})

\* free_count is exact thanks to the sentinels; from the allocation pointer
\* on it misses at most the blocks of a word.
FreeCounted ==
  loc # "free" =>
    /\ FreeCount(mem, 0) = FreeFrom(0)
    /\ loc = "current" =>
         /\ FreeCount(mem, p \div WordBits + 1) <= FreeFrom(p)
         /\ FreeFrom(p) <= FreeCount(mem, p \div WordBits + 1) + WordBits

\* The comment in free_count: from the allocation pointer on, the count is at
\* most one less than the bits of a word too small.
MissesLessThanWord ==
  loc = "current" /\ p > 0 =>
    FreeFrom(p) < FreeCount(mem, p \div WordBits + 1) + WordBits
=============================================================================
