--------------------------- MODULE SegmentLayout ---------------------------
(***************************************************************************)
(* The layout of a heap segment, compute_segment_layout of                 *)
(* heap_concurrent.c: the header, two levels of bitmap with sentinel bits, *)
(* the collect bitmap, one stack slot per block, and the blocks.  Sizes    *)
(* are in bytes; a segment is taken to start at address 0.                 *)
(***************************************************************************)
EXTENDS Integers, FiniteSetsExt

CONSTANTS SegmentSize,    \* SEGMENT_SIZE
          SegmentHeader,  \* sizeof(struct segment)
          WordBits,       \* BITPTR_WORDBITS
          WordBytes,      \* sizeof(sml_bmword_t)
          PtrBytes,       \* sizeof(struct stack_slot)
          BlockMinLog2, BlockMaxLog2,
          ObjHeader,      \* OBJ_HEADER_SIZE
          MaxAlign        \* MAXALIGN

Subheaps == 0..(BlockMaxLog2 - BlockMinLog2)

Ceiling(x, unit) == ((x + unit - 1) \div unit) * unit

BlockSize(k) == 2^(k + BlockMinLog2)

BITMAP0_OFFSET == Ceiling(SegmentHeader, WordBytes)

\* The layout of subheap k with n blocks.  rank holds the offset, the number
\* of bits in use and the number of bits of each level; collect is the offset
\* of the collect bitmap.
WithBlocks(k, n) ==
  LET bits0    == Ceiling(n + 1, WordBits)
      len1     == bits0 \div WordBits
      bits1    == Ceiling(len1 + 1, WordBits)
      bytes(b) == (b \div WordBits) * WordBytes
      offset1  == BITMAP0_OFFSET + bytes(bits0)
      collect  == offset1 + bytes(bits1)
      zerofill == collect + bytes(bits0)
      stack    == Ceiling(zerofill, PtrBytes)
      align    == Min({MaxAlign, BlockSize(k)})
      block    == Ceiling(stack + PtrBytes * n + ObjHeader, align)
  IN [blocks |-> n, align |-> align,
      rank |-> <<[offset |-> BITMAP0_OFFSET, len |-> n, bits |-> bits0],
                 [offset |-> offset1, len |-> len1, bits |-> bits1]>>,
      collect |-> collect, zerofill |-> zerofill, stack |-> stack,
      block |-> block, limit |-> block + BlockSize(k) * n]

\* The first guess: an eighth of a byte per block for the bitmaps (the other
\* term, for the upper levels, is an integer division and comes to 0).
FirstGuess(k) ==
  (8 * (SegmentSize - BITMAP0_OFFSET))
    \div (8 * (BlockSize(k) + PtrBytes + (WordBits \div (WordBits - 1)) \div 8) + 1)

Fits(k, n) == WithBlocks(k, n).limit <= SegmentSize

segment_layout ==
  [k \in Subheaps |->
     WithBlocks(k, Max({n \in 0..FirstGuess(k) : Fits(k, n)}))]

\* No lower bitmap ends in a word of sentinels only.  init_segment relies on
\* it: copy_collect_bitmap sets the upper bit of such a word even in a
\* segment that is free, and only the last upper word is cleared.
ASSUME LastWordInUse ==
  \A k \in Subheaps : segment_layout[k].blocks % WordBits # 0

\* bitmap_sentinel: the bits of the last word of level r of layout l that are
\* not in use, as positions in the word.
Sentinel(l, r) ==
  (WordBits - (l.rank[r].bits - l.rank[r].len))..(WordBits - 1)

\* The address of the last word of level r.
LastWord(l, r) ==
  l.rank[r].offset + (l.rank[r].bits \div WordBits - 1) * WordBytes

\* The blocks of a segment of subheap k with layout l.
BlockAddr(l, k, i) == l.block + i * BlockSize(k)

object_index(l, k, addr) == (addr - l.block) \div BlockSize(k)

-----------------------------------------------------------------------------
(* sml_alloc: the subheap for an object.                                    *)

\* CEIL_LOG2: the number of bits of x - 1 (a size is far below 2^30).
CeilLog2(x) == Min({b \in 0..30 : x - 1 < 2^b})

IsLarge(size) == size > 2^BlockMaxLog2 - ObjHeader

SubheapOf(size) ==
  CeilLog2(Ceiling(ObjHeader + size, 2^BlockMinLog2)) - BlockMinLog2
=============================================================================
