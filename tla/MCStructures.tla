---------------------------- MODULE MCStructures -----------------------------
(* The segments of the concurrent heap and the data structures of the        *)
(* runtime, each alone: block sizes, the splay tree, the roots of object     *)
(* files, frame tables, heap objects, the debugging tracer and the size of   *)
(* the heap.  They share no state here; a behaviour is one of one of them    *)
(* (component).                                                              *)
(*                                                                           *)
(* The heap has two segments and two threads.  Its behaviours start in four  *)
(* ways: both workers are registered and a segment is left to be taken from  *)
(* memory; both segments are in the pool; the second worker registers in the *)
(* course of a collection; or the first one goes through two collections     *)
(* alone.                                                                    *)
EXTENDS SegmentPool, SegmentLayout

CONSTANTS w1, w2,    \* workers
          MaxSize    \* SizeClasses

VARIABLES component,
          layouts, size, addr,
          tree, ret,
          gcroot_list, gNext, item, num_points, num_tops, allocsize,
          loading, first, old, at, mode, tops, i, seen, goal,
          funs, emitted, out, fpc, t, items, suspended, null, range, fp, visited,
          heap, copy, copies,
          field, skip, globals, env, roots, user, found, lTop, parent, lpc,
          text, stage, limits, mapped, released, pool, rooms

zVars == <<layouts, size, addr>>
tVars == <<tree, ret>>
rVars == <<gcroot_list, gNext, item, num_points, num_tops, allocsize,
           loading, first, old, at, mode, tops, i, seen, goal>>
fVars == <<funs, emitted, out, fpc, t, items, suspended, null, range, fp, visited>>
oVars == <<heap, copy, copies>>
lVars == <<field, skip, globals, env, roots, user, found, lTop, parent, lpc>>
hVars == <<text, stage, limits, mapped, released, pool, rooms>>

Both   == {w1, w2}
InPool == INSTANCE SegmentPool WITH Pool0 <- Count
Alone  == INSTANCE SegmentPool WITH Members0 <- {w1}

Z == INSTANCE SizeClasses

\* The items stay where they are: the concurrent heap does not move objects.
\* Three of them need two chunks, before and after a compaction.
T == INSTANCE SplayTree WITH
       Keys <- 1..3, PerChunk <- 2, MaxChunks <- 4, Moves <- {[k \in 1..3 |-> k]}

\* The toplevel objects lie between and before the code addresses; the second
\* program has two modules.
Point(a) == [addr |-> a, layout |-> a * 10]
Top(a)   == [addr |-> a, layout |-> 0]
Programs == <<
    << <<Point(5), Point(3), Top(4)>> >>,
    << <<Point(9), Top(1)>>, <<Point(8), Point(7), Top(2)>> >>,
    << <<Point(6), Point(2), Top(10)>> >> >>
R == INSTANCE GCRoots WITH
       Roots <- 1..3, Program <- Programs, HeaderSize <- 2, PageSize <- 4,
       Readers <- {w1}, Unloadable <- {1}, pc <- loading, next <- gNext

\* A function without roots, one without a safe point, one of another strategy,
\* and frames that cannot be described.
KnownFunctions ==
    {[strategy |-> "smlsharp", frame |-> 8,  roots |-> << >>,    points |-> 1],
     [strategy |-> "smlsharp", frame |-> 24, roots |-> <<8, 0>>, points |-> 2],
     [strategy |-> "smlsharp", frame |-> 16, roots |-> <<8>>,    points |-> 1],
     [strategy |-> "smlsharp", frame |-> 16, roots |-> <<0>>,    points |-> 0],
     [strategy |-> "other",    frame |-> 12, roots |-> <<4>>,    points |-> 1],
     [strategy |-> "smlsharp", frame |-> 64, roots |-> << >>,    points |-> 1],
     [strategy |-> "smlsharp", frame |-> 16, roots |-> <<4>>,    points |-> 1]}
F == INSTANCE FrameTable WITH
       Functions <- KnownFunctions, MaxFuns <- 3, MaxFrames <- 3, Ptr <- 4, Limit <- 8,
       pc <- fpc, stack <- suspended

\* Two objects of up to three words, three of one word, and copies of arrays.
AllTypes == {"UNBOXED_VECTOR", "BOXED_VECTOR", "BOXED_ARRAY", "UNBOXED_ARRAY", "RECORD", "INTINF"}
Wide == INSTANCE Objects WITH
          BitmapBits <- 2, Words <- {0, 7}, Types <- AllTypes,
          MaxLen <- 3, MaxObjects <- 2, MaxCopies <- 0
Deep == INSTANCE Objects WITH
          BitmapBits <- 2, Words <- {0, 7}, Types <- AllTypes,
          MaxLen <- 1, MaxObjects <- 3, MaxCopies <- 0
Copy == INSTANCE Objects WITH
          BitmapBits <- 2, Words <- {0, 1}, Types <- {"BOXED_ARRAY"},
          MaxLen <- 3, MaxObjects <- 2, MaxCopies <- 1

\* All graphs of three objects with two pointers each.
V == INSTANCE LiveCheck WITH
       Objs <- 1..3, Slots <- 1..2, SkipObjs <- {2}, GlobalObjs <- {1}, EnvObjs <- {},
       StackObjs <- {3}, Null <- 0, GlobalRoot <- 9, tree <- found, stack <- roots, top <- lTop, pc <- lpc

H == INSTANCE HeapSize WITH
       Width <- 8, Mantissa <- 6, Numbers <- {-1, 0, 5, 30}, MaxLen <- 4,
       Unit <- [k |-> 4, M |-> 8, G |-> 16], SEGMENT_SIZE <- 8, PageSize <- 2,
       DEFAULT_MIN <- 16, DEFAULT_MAX <- 64, NumBlocks <- <<6, 3, 1>>, size <- limits

ASSUME T!SplayConstants /\ R!RootConstants /\ F!FrameTableConstants
       /\ Wide!ObjectConstants /\ Deep!ObjectConstants /\ Copy!ObjectConstants
       /\ V!LiveConstants /\ H!HeapSizeConstants

Segments == {"memory", "pool", "joins", "again"}
InitOf(start) ==
  IF start = "pool" THEN InPool!Init ELSE IF start \in {"joins", "again"} THEN Alone!Init ELSE Init
NextOf(start) ==
  /\ Next
  /\ IF start = "again" THEN members' = {w1} /\ pc'[w2] = pc[w2] ELSE gcCount' <= 2

\* A component with many initial states has one while it does not run.
MCInit ==
  /\ component \in Segments \cup {"sizes", "tree", "roots", "frames", "wide", "deep", "copy",
                                  "livecheck", "heapsize"}
  /\ InitOf(component) /\ T!Init /\ R!Init /\ Wide!Init
  /\ IF component = "sizes" THEN Z!Init ELSE layouts = << >> /\ size = MaxSize /\ addr = -1
  /\ F!Init /\ (component # "frames" => funs = << >>)
  /\ IF component = "livecheck" THEN V!Init
     ELSE /\ field = << >> /\ skip = {} /\ globals = 0 /\ env = 0 /\ roots = 0 /\ user = FALSE
          /\ found = << >> /\ lTop = << >> /\ parent = 0 /\ lpc = "off"
  /\ IF component = "heapsize" THEN H!Init
     ELSE /\ text = << >> /\ stage = "off" /\ limits = << >> /\ mapped = << >>
          /\ released = {} /\ pool = << >> /\ rooms = << >>

MCNext ==
  /\ \/ component \in Segments /\ NextOf(component)
        /\ UNCHANGED <<zVars, tVars, rVars, fVars, oVars, lVars, hVars>>
     \/ component = "sizes" /\ Z!Next
        /\ UNCHANGED <<vars, tVars, rVars, fVars, oVars, lVars, hVars>>
     \/ component = "tree" /\ T!Next
        /\ UNCHANGED <<vars, zVars, rVars, fVars, oVars, lVars, hVars>>
     \/ component = "roots" /\ R!Next
        /\ UNCHANGED <<vars, zVars, tVars, fVars, oVars, lVars, hVars>>
     \/ component = "frames" /\ F!Next
        /\ UNCHANGED <<vars, zVars, tVars, rVars, oVars, lVars, hVars>>
     \/ component = "wide" /\ Wide!Next
        /\ UNCHANGED <<vars, zVars, tVars, rVars, fVars, lVars, hVars>>
     \/ component = "deep" /\ Deep!Next
        /\ UNCHANGED <<vars, zVars, tVars, rVars, fVars, lVars, hVars>>
     \/ component = "copy" /\ Copy!Next
        /\ UNCHANGED <<vars, zVars, tVars, rVars, fVars, lVars, hVars>>
     \/ component = "livecheck" /\ V!Next
        /\ UNCHANGED <<vars, zVars, tVars, rVars, fVars, oVars, hVars>>
     \/ component = "heapsize" /\ H!Next
        /\ UNCHANGED <<vars, zVars, tVars, rVars, fVars, oVars, lVars>>
  /\ UNCHANGED component

MCSpec == MCInit /\ [][MCNext]_<<vars, zVars, tVars, rVars, fVars, oVars, lVars, hVars, component>>

------------------------------------------------------------------------------
In(c, property) == component = c => property

\* The tree stays a search tree through splaying, joining, threading, rejecting
\* and rebuilding; every node handed out is in it or on the free list, and every
\* chunk on the list that sml_tree_destroy frees, through compaction too.
TreeSound == In("tree", T!TypeOK /\ T!Ordered /\ T!NothingLeaks)

\* The tree implements a finite set of items (TreeSet).
IsTreeSet == T!IsTreeSet

\* No sml_gcroot is lost to another thread that registers one, the binary search
\* finds every safe point, and an enumeration meets every toplevel object that
\* was registered before it.
RootsFound == In("roots", R!TypeOK /\ R!NoRootLost /\ R!LookupFinds /\ R!EnumeratesAll)

\* The runtime reads of a frame table what the compiler knew when it wrote it,
\* and the walk over a stack traces every root of every frame of every range, once.
FramesWalked == In("frames", F!TypeOK /\ F!ReadAsEmitted /\ F!AllRootsTraced)

\* sml_obj_equal holds of exactly the objects of equal content, which the
\* collector traces alike; sml_copyary copies the elements as they were before
\* the call, except within one array towards its beginning.
ObjectsSound ==
  /\ In("wide", Wide!TypeOK /\ Wide!EqualIsContent /\ Wide!EqualTracedAlike)
  /\ In("deep", Deep!TypeOK /\ Deep!EqualIsContent)
  /\ In("copy", Copy!TypeOK /\ Copy!CopiesUnlessUp)

\* The tracer has visited exactly the reachable objects when it is done, and from
\* parent to parent one comes to a root, on cyclic structures too.
VisitsReachable == In("livecheck", V!TypeOK /\ V!VisitsReachable /\ V!ParentsLeadToRoot)

\* Block sizes: an object gets the smallest class that holds it, lies inside its
\* segment and leads back to its own bit, and no segment could hold a block
\* more.
LayoutSound == In("sizes", Z!SizeClass /\ Z!ObjectInSegment /\ Z!NoRoomLost)

\* The heap's size: a text that is not a setting changes nothing, the minimum is
\* within the maximum, of the pages that the system gave the aligned part is kept
\* and the rest given back, and the shares of the subheaps are within it.
HeapSizeSound == In("heapsize", /\ H!TypeOK /\ H!OnlySettings /\ H!MinBelowMax
                                /\ H!AlignedPart /\ H!SharesFit)

\* The sizes of the heap, of its segments and of their blocks fit each other.
SizesSound == LayoutSound /\ HeapSizeSound
==============================================================================
