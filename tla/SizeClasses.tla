---------------------------- MODULE SizeClasses ----------------------------
(***************************************************************************)
(* The blocks that sml_alloc hands out of fresh segments, for every size   *)
(* of object and every block of a segment of every size, with the sizes of *)
(* the real build.                                                         *)
(***************************************************************************)
EXTENDS SegmentLayout

CONSTANT MaxSize   \* bound: sizes of objects

VARIABLES layouts, \* the table segment_layout
          size,    \* objsize
          addr     \* the address sml_alloc returns; -1 for malloc_object

vars == <<layouts, size, addr>>

\* The first block of a fresh segment.
Init == /\ layouts = segment_layout
        /\ size \in 0..MaxSize
        /\ addr = IF IsLarge(size) THEN -1
                  ELSE BlockAddr(layouts[SubheapOf(size)], SubheapOf(size), 0)

\* The largest objects of each subheap are allocated until the segment is
\* full: the fast path of sml_alloc.
Next ==
  LET k == SubheapOf(size) IN
  /\ addr # -1 /\ size + ObjHeader = BlockSize(k)
  /\ object_index(layouts[k], k, addr) + 1 < layouts[k].blocks
  /\ addr' = addr + BlockSize(k)
  /\ UNCHANGED <<layouts, size>>

Spec == Init /\ [][Next]_vars

-----------------------------------------------------------------------------
\* An object and its header fit into the block, and into no smaller one; an
\* object that sml_alloc leaves to malloc would fit into no block.
SizeClass ==
  IF addr = -1 THEN size + ObjHeader > 2^BlockMaxLog2
  ELSE LET k == SubheapOf(size) IN
       /\ k \in Subheaps /\ size + ObjHeader <= BlockSize(k)
       /\ k > 0 => size + ObjHeader > BlockSize(k - 1)

\* An object with its header lies between the stack area and the end of the
\* segment and is aligned, and its address leads back to its own bit.
ObjectInSegment ==
  addr # -1 =>
    LET k == SubheapOf(size)
        l == layouts[k]
        i == object_index(l, k, addr)
    IN  /\ l.stack + PtrBytes * l.blocks <= addr - ObjHeader
        /\ addr + size <= SegmentSize
        /\ addr % l.align = 0
        /\ i \in 0..(l.blocks - 1) /\ BlockAddr(l, k, i) = addr

\* The loop of compute_segment_layout starts high enough: one more block
\* would not fit.
NoRoomLost ==
  addr # -1 =>
    LET k == SubheapOf(size) IN ~Fits(k, layouts[k].blocks + 1)
=============================================================================
