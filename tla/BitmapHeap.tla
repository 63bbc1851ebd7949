----------------------------- MODULE BitmapHeap -----------------------------
(***************************************************************************)
(* The mark and sweep collector with bitmaps of src/runtime/heap_bitmap.c,  *)
(* for one thread (without MULTITHREAD), with or without MINOR_GC.          *)
(*                                                                         *)
(* An object is marked in the bitmap of its segment, and allocation takes   *)
(* the blocks that are not marked.  With MINOR_GC the marks stay, so marked *)
(* means old, and between collections the mark stack holds the old objects  *)
(* that were written to.                                                    *)
(***************************************************************************)
EXTENDS CopyingHeap, SequencesExt, FiniteSetsExt

CONSTANTS Regs,             \* the root slots that are always enumerated
          Statics,          \* slots outside the heap
          NumSegments,      \* max_num_segments
          MinSegments,      \* min_num_segments
          NumBlocks,        \* NumBlocks[c]: blocks of a segment of size class c
          SlotsOf,          \* SlotsOf[c]: pointer slots of its objects
          MinorThreshold,   \* MinorThreshold[c]: minor_threshold
          MINOR_GC          \* whether there are minor collections

\* Objects do not move: an object's identity is that of its block.
Blocks == {<<s, i>> : s \in 1..NumSegments, i \in 1..Max({NumBlocks[c] : c \in DOMAIN NumBlocks})}
Identity(a) == (a[1] - 1) * Max({NumBlocks[c] : c \in DOMAIN NumBlocks}) + a[2]

BitmapHeapConstants ==
    /\ {Identity(a) : a \in Blocks} = Ids
    /\ MinSegments \in 1..NumSegments /\ Regs \cap Statics = {}
    /\ \A c \in DOMAIN NumBlocks : MinorThreshold[c] \in 0..NumBlocks[c]

VARIABLES mem,       \* the objects, at addresses <<segment, block>>
          heap,      \* the segments and lists: see Heap0
          root,
          stop,      \* how the program was stopped, or "no"
          graph      \* not in the code: the objects that the program sees

vars == <<mem, heap, root, stop, graph>>

Slots == Regs \cup Statics
Classes == DOMAIN NumBlocks
Segs == 1..NumSegments
NoSegment == [seg |-> 0, index |-> 0]

\* extend_heap(count): its argument is ignored.  The first segments that are not
\* committed go to the front of the free list.
extend_heap(h) ==
    LET free == SetToSortSeq(Segs \ h.committed, <)
        new == SubSeq(free, 1, Min({MinSegments, Len(free)}))
    IN  [h EXCEPT !.committed = @ \cup ToSet(new),
                  !.num_committed = @ + Len(new),
                  !.freelist = new \o @,
                  !.class = [s \in Segs |-> IF s \in ToSet(new) THEN 0 ELSE h.class[s]]]

\* unreserved and minor_space are positions in seglist.
Heap0 ==
    [committed |-> {}, num_committed |-> 0, freelist |-> << >>,
     class |-> [s \in Segs |-> 0], marks |-> [s \in Segs |-> {}], live_count |-> [s \in Segs |-> 0],
     seglist |-> [c \in Classes |-> << >>], unreserved |-> [c \in Classes |-> 1],
     minor_space |-> [c \in Classes |-> 1], ptr |-> [c \in Classes |-> NoSegment],
     stack |-> << >>]

\* sml_heap_init
Init ==
    /\ mem = [a \in {} |-> Object(0, 0)]
    /\ heap = extend_heap(Heap0)
    /\ root = [x \in Slots |-> Null]
    /\ stop = "no"
    /\ graph = << >>
------------------------------------------------------------------------------
(* Marks                                                                     *)

IsMarked(h, a) == a[2] \in h.marks[a[1]]
MARKBIT(h, a) == [h EXCEPT !.marks[a[1]] = @ \cup {a[2]}, !.live_count[a[1]] = @ + 1]
STACK_PUSH(h, a) == [h EXCEPT !.stack = <<a>> \o @]

\* push: marked, and to be scanned if it has pointers.
push(h, a) ==
    IF a = Null \/ IsMarked(h, a) THEN h
    ELSE IF mem[a].field = << >> THEN MARKBIT(h, a)
    ELSE STACK_PUSH(MARKBIT(h, a), a)

\* pop, and the loop of mark: all objects on the stack are scanned.
Drained(h0) ==
    LET Scan(h) == IF h.stack = << >> THEN h
                   ELSE FoldLeft(push, [h EXCEPT !.stack = Tail(@)], mem[Head(h.stack)].field)
        after[n \in 0..(2 * Cardinality(Ids))] ==
            IF n = 0 THEN h0 ELSE LET h == after[n - 1] IN Scan(h)
    IN  after[2 * Cardinality(Ids)]

\* mark
mark(h, a) == Drained(push(h, a))

\* The counters are not reset.
UnmarkedCounting(h) ==
    LET used == UNION {ToSet(h.seglist[c]) : c \in Classes} IN
    [h EXCEPT !.marks = [s \in Segs |-> IF s \in used THEN {} ELSE h.marks[s]], !.stack = << >>]
\* clear_all_bitmaps, after flush_stack.
Unmarked(h) ==
    LET used == UNION {ToSet(h.seglist[c]) : c \in Classes} IN
    [h EXCEPT !.marks = [s \in Segs |-> IF s \in used THEN {} ELSE h.marks[s]],
              !.live_count = [s \in Segs |-> IF s \in used THEN 0 ELSE h.live_count[s]],
              !.stack = << >>]

\* The slots that sml_gc_initiate enumerates; those outside the heap, which are
\* another module's, in a major collection at least.
Enumerated(major) == IF major THEN Slots ELSE Regs
RootsMarked(h, major) ==
    FoldLeft(LAMBDA g, x : mark(g, root[x]), h, SetToSeq(Enumerated(major)))
------------------------------------------------------------------------------
(* Sweeping                                                                  *)

\* No segment is thought to be full.
NeverFull(h, s, major) == FALSE
\* A segment that is not allocated from.
Full(h, s, major) ==
    LET c == h.class[s] IN
    IF major THEN h.live_count[s] = NumBlocks[c] ELSE h.live_count[s] >= MinorThreshold[c]

\* sweep, and sweep_minor, which starts at minor_space.
sweep(h, major) ==
    LET First(c) == IF major THEN 1 ELSE h.minor_space[c]
        Kept1(c) == SubSeq(h.seglist[c], 1, First(c) - 1)
        Swept(c) == SubSeq(h.seglist[c], First(c), Len(h.seglist[c]))
        IsFull(s) == Full(h, s, major)
        IsUnfilled(s) == ~IsFull(s) /\ h.live_count[s] > 0
        IsFree(s) == ~IsFull(s) /\ h.live_count[s] = 0
        filled == [c \in Classes |-> Kept1(c) \o SelectSeq(Swept(c), IsFull)]
        start == [c \in Classes |-> Len(filled[c]) + 1]
        free == FoldLeft(LAMBDA l, c : l \o SelectSeq(Swept(c), IsFree), << >>,
                         [c \in Classes |-> c])
    IN  [h EXCEPT !.seglist = [c \in Classes |-> filled[c] \o SelectSeq(Swept(c), IsUnfilled)],
                  !.unreserved = start, !.minor_space = start,
                  !.ptr = [c \in Classes |-> NoSegment],
                  !.freelist = free \o @]

\* Segments are given back down to none.
ShrinkToNone(h) ==
    IF h.freelist # << >>
      THEN [h EXCEPT !.freelist = Tail(@), !.committed = @ \ {Head(h.freelist)},
                     !.num_committed = IF @ > 1 THEN @ - 2 ELSE 0]
      ELSE h
\* shrink_heap(1): num_committed is decremented by free_segment and once more.
shrink_heap(h) ==
    IF h.num_committed > MinSegments /\ h.freelist # << >>
      THEN [h EXCEPT !.freelist = Tail(@), !.committed = @ \ {Head(h.freelist)},
                     !.num_committed = @ - 2]
      ELSE h

\* do_gc.
do_gc(h, major) ==
    IF major THEN shrink_heap(sweep(RootsMarked(Unmarked(h), TRUE), TRUE))
    ELSE sweep(RootsMarked(Drained(h), FALSE), FALSE)
------------------------------------------------------------------------------
(* Allocation: the heap afterwards and the address, or Null.                 *)

Failed(h) == [h |-> h, obj |-> Null]
Taken(h, c, s, i) == [h |-> [h EXCEPT !.ptr[c] = [seg |-> s, index |-> i + 1]], obj |-> <<s, i>>]

\* The next block, marked or not.
FindBlind(h, c) ==
    LET p == h.ptr[c]
    IN  IF p.seg = 0 \/ p.index > NumBlocks[c] THEN Failed(h) ELSE Taken(h, c, p.seg, p.index)
\* The fast path, BITPTR_NEXT2 and find_bitmap: the next free block.
find_bitmap(h, c) ==
    LET p == h.ptr[c]
        free == IF p.seg = 0 THEN {} ELSE (p.index..NumBlocks[c]) \ h.marks[p.seg]
    IN  IF free = {} THEN Failed(h) ELSE Taken(h, c, p.seg, Min(free))

\* A free segment has no marks: it only gets its layout.
init_segment(h, s, c) == [h EXCEPT !.class[s] = c]
new_segment(h) == [h EXCEPT !.freelist = Tail(@)]

\* find_segment: a segment of the subheap, or one of the free list, appended to it.
find_segment(h, c) ==
    IF h.unreserved[c] <= Len(h.seglist[c])
      THEN LET s == h.seglist[c][h.unreserved[c]] IN
           find_bitmap([h EXCEPT !.unreserved[c] = @ + 1,
                                 !.ptr[c] = [seg |-> s, index |-> 1]], c)
    ELSE IF h.freelist # << >>
      THEN LET s == Head(h.freelist) IN
           Taken([init_segment(new_segment(h), s, c) EXCEPT !.seglist[c] = Append(@, s),
                                                            !.unreserved[c] = @ + 1], c, s, 1)
    ELSE Failed(h)

\* The objects m that anything can still lead to: a root of r, or the mark stack,
\* in segments that h still has.
Known(m, h, r) ==
    Kept([a \in {b \in DOMAIN m : b[1] \in h.committed} |-> m[a]],
         {r[x] : x \in Slots} \cup ToSet(h.stack))

\* The object at r.obj, and the pointer to it in the root x.
Put(r, x, c) ==
    /\ heap' = r.h
    /\ root' = [root EXCEPT ![x] = r.obj]
    /\ mem' = Known([a \in DOMAIN mem \cup {r.obj} |->
                       IF a = r.obj THEN Object(Identity(r.obj), SlotsOf[c]) ELSE mem[a]], heap', root')
    /\ stop' = "no"

\* The part of sml_alloc without a collection.
NoCollection(c) ==
    LET r == find_bitmap(heap, c) IN IF r.obj # Null THEN r ELSE find_segment(heap, c)

sml_alloc(x, c) ==
    LET r == NoCollection(c) IN stop = "no" /\ r.obj # Null /\ Put(r, x, c)

\* The rest: a minor collection, a major one, and more segments.
AllocCollecting(x, c) ==
    LET failed == NoCollection(c).h
        minor == IF MINOR_GC THEN find_segment(do_gc(failed, FALSE), c) ELSE Failed(failed)
        major == find_segment(do_gc(minor.h, TRUE), c)
        extended == find_segment(extend_heap(major.h), c)
    IN  /\ stop = "no" /\ NoCollection(c).obj = Null
        /\ IF minor.obj # Null THEN Put(minor, x, c)
           ELSE IF major.obj # Null THEN Put(major, x, c)
           ELSE IF extended.obj # Null THEN Put(extended, x, c)
           ELSE stop' = "heap exceeded" /\ UNCHANGED <<mem, heap, root>>

sml_heap_gc ==
    /\ stop = "no"
    /\ heap' = do_gc(heap, TRUE)
    /\ mem' = Known(mem, heap', root)
    /\ UNCHANGED <<root, stop>>
------------------------------------------------------------------------------
(* The program's writes                                                      *)

\* Only what is not marked is pushed.
BarrierYoung(h, a) == IF IsMarked(h, a) THEN h ELSE STACK_PUSH(h, a)
\* sml_write to a slot of the object at a: an old object is to be scanned again.
Barrier(h, a) ==
    IF ~MINOR_GC \/ ~IsMarked(h, a) \/ a \in ToSet(h.stack) THEN h ELSE STACK_PUSH(h, a)

\* sml_write to a slot outside the heap: a young object becomes old.
OutsideBarrier(h, v) ==
    IF ~MINOR_GC \/ v = Null \/ IsMarked(h, v) THEN h ELSE STACK_PUSH(MARKBIT(h, v), v)

WriteField(x, k, v) ==
    /\ stop = "no" /\ root[x] # Null /\ k \in DOMAIN mem[root[x]].field
    /\ heap' = Barrier(heap, root[x])
    /\ mem' = Known([mem EXCEPT ![root[x]].field[k] = v], heap', root)
    /\ UNCHANGED <<root, stop>>

WriteRoot(x, v) ==
    /\ stop = "no" /\ root[x] # v
    /\ root' = [root EXCEPT ![x] = v]
    /\ heap' = IF x \in Statics THEN OutsideBarrier(heap, v) ELSE heap
    /\ mem' = Known(mem, heap', root')
    /\ UNCHANGED stop

Step ==
    \/ \E x \in Regs, c \in Classes : sml_alloc(x, c) \/ AllocCollecting(x, c)
    \/ sml_heap_gc
    \/ \E x, y \in Slots : WriteField(x, 1, root[y])
    \/ \E x, y \in Slots : WriteRoot(x, root[y])
    \/ \E x \in Slots : WriteRoot(x, Null)
    \/ \E x, y \in Slots : /\ root[y] # Null /\ mem[root[y]].field # << >>
                         /\ WriteRoot(x, mem[root[y]].field[1])

Next == Step /\ graph' = GraphOf(mem', {root'[x] : x \in Slots})
Spec == Init /\ [][Next]_vars
------------------------------------------------------------------------------
(* Properties                                                                *)

InLists(s) == {c \in Classes : s \in ToSet(heap.seglist[c])}

\* Every committed segment is in the free list or in the list of one size class,
\* once and with that class (sweep, find_segment), and the heap keeps
\* min_num_segments of them although num_committed falls behind their number.
TypeOK ==
    /\ heap.num_committed \in 0..Cardinality(heap.committed)
    /\ Cardinality(heap.committed) >= MinSegments
    /\ \A s \in Segs : Cardinality(InLists(s)) + (IF s \in ToSet(heap.freelist) THEN 1 ELSE 0)
                       = IF s \in heap.committed THEN 1 ELSE 0
    /\ \A s \in Segs : InLists(s) \subseteq {heap.class[s]}
    /\ IsInjective(heap.freelist) /\ \A c \in Classes : IsInjective(heap.seglist[c])
    /\ \A c \in Classes : heap.ptr[c].seg # 0 => heap.ptr[c].seg \in ToSet(heap.seglist[c])
    /\ stop \in {"no", "heap exceeded"}

\* live_count is the number of marks, which sweep relies on: a free segment has
\* no marks left, so that init_segment need not clear its bitmap.
LiveCounted ==
    /\ \A s \in Segs : heap.live_count[s] = Cardinality(heap.marks[s])
    /\ \A s \in ToSet(heap.freelist) : heap.marks[s] = {}

\* "seg have at least one free block" (find_segment): marks that the write barrier
\* sets between two collections never fill a segment that was not reserved yet.
UnreservedHaveRoom ==
    \A c \in Classes : \A n \in heap.unreserved[c]..Len(heap.seglist[c]) :
        Cardinality(heap.marks[heap.seglist[c][n]]) < NumBlocks[c]

\* With minor collections, an old object that points to a young one waits on the
\* mark stack, and no slot outside the heap holds a young object.
Barriered ==
    MINOR_GC =>
        /\ \A a \in DOMAIN mem : IsMarked(heap, a) /\ a \notin ToSet(heap.stack) =>
               \A b \in Range(mem[a].field) : b = Null \/ IsMarked(heap, b)
        /\ \A x \in Statics : root[x] = Null \/ IsMarked(heap, root[x])

\* The abstract heap: a collection, and an allocation after it, changes nothing
\* that the program can reach.
Abstract == INSTANCE ObjectGraph WITH
    Roots <- Slots, Sizes <- {SlotsOf[c] : c \in Classes},
    root <- [x \in Slots |-> IdAt(mem, root[x])], edge <- graph
IsObjectGraph == Abstract!Spec
==============================================================================
