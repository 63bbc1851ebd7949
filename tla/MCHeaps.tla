------------------------------- MODULE MCHeaps -------------------------------
(* The heaps that can be built in place of the concurrent one: copying,      *)
(* generational with two and three generations, and mark and sweep without   *)
(* and with minor collections; the bitmaps of a segment of the concurrent    *)
(* heap; and the finalizers, which any heap runs.  A behaviour is one of one *)
(* of them (build); the heaps use the same variables, and those a build does *)
(* not have are Off.                                                         *)
EXTENDS Finalizers, Sequences, TLC

CONSTANTS r1, r2, g1,      \* root slots
          Ids              \* identities of the generational heap's objects

VARIABLES build,
          mem, root, stop, graph,
          from, free, remembered, cPc, todo, scan, request,   \* Cheney
          space,                                             \* Reppy
          heap,                                              \* BitmapHeap
          L, loc, words, b, p, snap, taken, kept              \* SegmentBitmap

copying == <<from, free, remembered, cPc, todo, scan, request>>
segment == <<L, loc, words, b, p, snap, taken, kept>>
heaps == <<mem, root, stop, graph, copying, space, heap, segment>>

Off == "off"
Regs == {r1, r2}
Symmetry == Permutations(Regs) \cup Permutations(Ids)

C == INSTANCE Cheney WITH Ids <- 1..4, Regs <- {r1}, Statics <- {g1},
                          Sizes <- {0, 2}, Capacity <- 4, pc <- cPc

\* The roots are forwarded in an order: they are not interchangeable.
RegNames == {"x", "y"}
Two == INSTANCE Reppy WITH Regs <- RegNames, NUM_GENERATIONS <- 2,
                           Capacity <- 2, OldestCapacity <- 4, RememberSize <- 2
Three == INSTANCE Reppy WITH Regs <- RegNames, NUM_GENERATIONS <- 3,
                             Capacity <- 2, OldestCapacity <- 3, RememberSize <- 1

\* Two size classes: two blocks of objects with one pointer, and one block of
\* an object without any.
Major == INSTANCE BitmapHeap WITH
           Ids <- 1..4, Statics <- {}, NumSegments <- 2, MinSegments <- 1,
           NumBlocks <- <<2, 1>>, SlotsOf <- <<1, 0>>, MinorThreshold <- <<1, 1>>,
           MINOR_GC <- FALSE
Minor == INSTANCE BitmapHeap WITH
           Ids <- 1..3, Regs <- {r1}, Statics <- {g1}, NumSegments <- 1, MinSegments <- 1,
           NumBlocks <- <<3>>, SlotsOf <- <<1>>, MinorThreshold <- <<2>>,
           MINOR_GC <- TRUE

\* Words of two bits, so that few blocks have both levels of bitmap.
B == INSTANCE SegmentBitmap WITH
       SegmentSize <- 21, SegmentHeader <- 1, WordBits <- 2, WordBytes <- 1, PtrBytes <- 1,
       BlockMinLog2 <- 0, BlockMaxLog2 <- 1, ObjHeader <- 1, MaxAlign <- 2,
       mem <- words, used <- taken

ASSUME FinalizerConstants /\ C!CheneyConstants /\ Two!ReppyConstants /\ Three!ReppyConstants
       /\ Major!BitmapHeapConstants /\ Minor!BitmapHeapConstants /\ B!LastWordInUse

NoCopying == /\ from = Off /\ free = Off /\ remembered = Off /\ cPc = Off
             /\ todo = Off /\ scan = Off /\ request = Off
NoSegment == /\ L = Off /\ loc = Off /\ words = Off /\ b = Off
             /\ p = Off /\ snap = Off /\ taken = Off /\ kept = Off
NoHeap == mem = Off /\ root = Off /\ stop = Off /\ graph = Off

MCInit == Init /\
  \/ /\ build = "copying" /\ C!Init /\ stop = Off
     /\ space = Off /\ heap = Off /\ NoSegment
  \/ /\ build = "two generations" /\ Two!Init /\ heap = Off /\ NoCopying /\ NoSegment
  \/ /\ build = "three generations" /\ Three!Init /\ heap = Off /\ NoCopying /\ NoSegment
  \/ /\ build = "bitmap" /\ Major!Init /\ space = Off /\ NoCopying /\ NoSegment
  \/ /\ build = "bitmap with minor collections" /\ Minor!Init
     /\ space = Off /\ NoCopying /\ NoSegment
  \/ /\ build = "segment" /\ B!Init /\ NoHeap /\ space = Off /\ heap = Off /\ NoCopying
  \/ /\ build = "finalizers"
     /\ NoHeap /\ space = Off /\ heap = Off /\ NoCopying /\ NoSegment

MCNext ==
  /\ \/ /\ UNCHANGED vars
        /\ \/ build = "copying" /\ C!Next /\ UNCHANGED <<stop, space, heap, segment>>
           \/ build = "two generations" /\ Two!Next /\ UNCHANGED <<heap, copying, segment>>
           \/ build = "three generations" /\ Three!Next /\ UNCHANGED <<heap, copying, segment>>
           \/ build = "bitmap" /\ Major!Next /\ UNCHANGED <<space, copying, segment>>
           \/ /\ build = "bitmap with minor collections" /\ Minor!Next
              /\ UNCHANGED <<space, copying, segment>>
           \/ /\ build = "segment" /\ B!Next
              /\ UNCHANGED <<mem, root, stop, graph, space, heap, copying>>
     \/ build = "finalizers" /\ Next /\ UNCHANGED heaps
  /\ UNCHANGED build

MCSpec == MCInit /\ [][MCNext]_<<build, heaps, vars>>

------------------------------------------------------------------------------
In(name, property) == build = name => property

\* Copying: objects lie apart and inside their spaces, and while the program
\* runs all its pointers lead into from-space, where no object has two copies.
OnlyFromSpace == In("copying", C!TypeOK /\ C!OnlyFromSpace)

\* Generational: the remembered set of each generation holds every slot of an
\* older reachable object that points into it, once; with two generations the
\* assertions of forward that the target has room hold.
Remembered == /\ In("two generations", Two!TypeOK /\ Two!Remembered /\ Two!AssertedRoom)
              /\ In("three generations", Three!Remembered)

\* Mark and sweep: segments are in one list, live_count is the number of marks, a
\* free segment has none, and a segment that is not reserved yet has a free
\* block.  With minor collections an old object that points to a young one is
\* on the mark stack, and no slot outside the heap holds a young object.
MarksCounted ==
  /\ In("bitmap", Major!TypeOK /\ Major!LiveCounted /\ Major!UnreservedHaveRoom)
  /\ In("bitmap with minor collections",
        Minor!TypeOK /\ Minor!LiveCounted /\ Minor!UnreservedHaveRoom /\ Minor!Barriered)

\* What each collector relies on between two of its steps, and the finalizers.
HeapsSound == OnlyFromSpace /\ Remembered /\ MarksCounted /\ TypeOK

\* Each heap implements ObjectGraph: only its own operations change what the
\* program can reach, and a collection changes nothing.
IsObjectGraph ==
  /\ In("copying", C!Graph!Init) /\ In("two generations", Two!Graph!Init)
  /\ In("bitmap", Major!Abstract!Init) /\ In("bitmap with minor collections", Minor!Abstract!Init)
  /\ [][/\ In("copying", C!Graph!Next) /\ In("two generations", Two!Graph!Next)
        /\ In("bitmap", Major!Abstract!Next)
        /\ In("bitmap with minor collections", Minor!Abstract!Next)]_<<build, heaps, vars>>

\* The bitmaps of a segment: init_segment leaves nothing but sentinels, whatever
\* the segment was used for before; below a 0 bit of the upper level that
\* find_bitmap can meet there is a free block; free_count is exact from the
\* beginning of a segment, and misses at most a word behind the pointer.
BitmapsSound == In("segment", B!TypeOK /\ B!Zeroed /\ B!UpperAgrees /\ B!FreeCounted)

\* sml_alloc hands out the first free block behind the allocation pointer and
\* gives a segment up only if there is none.
FirstFree == [][build = "segment" => B!AllocatesFirst]_<<build, heaps, vars>>
==============================================================================
