-------------------------------- MODULE Reppy --------------------------------
(***************************************************************************)
(* The generational copying collector of src/runtime/heap_reppy.c, in the   *)
(* configuration without FAIR_COMPARISON and with the assertions: every     *)
(* generation has two spaces and a remembered set of the slots of older     *)
(* objects that point into it.                                              *)
(*                                                                         *)
(* Sizes are counted in units of HEAP_ROUND_SIZE, of which an object with   *)
(* one pointer slot takes one.                                              *)
(***************************************************************************)
EXTENDS CopyingHeap, SequencesExt, FiniteSetsExt

CONSTANTS Regs,             \* the root slots
          NUM_GENERATIONS,
          Capacity,         \* units of a space, up to limit
          OldestCapacity,   \* of the oldest generation's, without a remembered set
          RememberSize      \* entries of a remembered set

ReppyConstants == NUM_GENERATIONS \in Nat /\ NUM_GENERATIONS >= 2
                         /\ Capacity \in Nat /\ OldestCapacity \in Nat /\ Capacity <= OldestCapacity

VARIABLES mem,          \* the objects, at addresses <<generation, half, unit>>
          space,        \* space[g][h]: free, water_mark and the remembered set
          root,
          stop,         \* how the program was stopped, or "no"
          graph         \* not in the code: the objects that the program sees

vars == <<mem, space, root, stop, graph>>

\* The half 0 of a generation g is sml_heap_from_space[g], the half 1 is
\* sml_heap_to_space[g]: heap_space_swap exchanges the numbers.
FROM == 0
TO   == 1

Gens == 0..(NUM_GENERATIONS - 1)
Oldest == NUM_GENERATIONS - 1
Offset == 1                       \* INITIAL_OFFSET
HOW_OLD(a) == a[1]
Cleared == [free |-> 1, water_mark |-> 1, remembered |-> << >>]   \* heap_space_clear

\* sml_heap_init
Init ==
    /\ mem = [a \in {} |-> Object(0, 0)]
    /\ space = [g \in Gens |-> [h \in {0, 1} |-> Cleared]]
    /\ root = [x \in Regs |-> Null]
    /\ stop = "no"
    /\ graph = << >>

\* What the operations work on.
Heap == [mem |-> mem, space |-> space, root |-> root, stop |-> "no"]

\* What the program's pointers and the remembered slots lead to.
Led(s) == ({s.root[x] : x \in Regs} \ {Null})
          \cup UNION {{slot[1] : slot \in ToSet(s.space[g][h].remembered)} : g \in Gens, h \in {0, 1}}
Become(s) ==
    IF s.stop # "no" THEN stop' = s.stop /\ UNCHANGED <<mem, space, root>>
    ELSE mem' = Kept(s.mem, Led(s)) /\ space' = s.space /\ root' = s.root /\ stop' = "no"
From(s, g) == s.space[g][FROM]
To(s, g)   == s.space[g][TO]
Limit(g) == IF g = Oldest THEN OldestCapacity ELSE Capacity
\* One unit more than there is.
OneMore(g, sp) == Limit(g) + 2 - sp.free
HEAP_REST(g, sp) == Limit(g) + 1 - sp.free
HEAP_OLDER_OBJ(sp) == sp.water_mark - 1 + Offset

\* search_rememberset, REMEMBERSET_PUSH
search_rememberset(sp, slot) == slot \in ToSet(sp.remembered)
REMEMBERSET_PUSH(s, g, h, slot) ==
    IF Len(s.space[g][h].remembered) < RememberSize
      THEN [s EXCEPT !.space[g][h].remembered = Append(@, slot)]
      ELSE [s EXCEPT !.stop = "rememberset is over"]

Value(s, slot) == s.mem[slot[1]].field[slot[2]]
------------------------------------------------------------------------------
(* The mutators                                                              *)

Unused(s) == Ids \ {s.mem[a].id : a \in DOMAIN s.mem}

\* The object at free of generation 0, and the pointer to it in the root x.
Allocated(s, x, id) ==
    LET a == <<0, FROM, From(s, 0).free>> IN
    [s EXCEPT !.mem = [b \in DOMAIN @ \cup {a} |-> IF b = a THEN Object(id, 1) ELSE s.mem[b]],
              !.space[0][FROM].free = @ + 1,
              !.root[x] = a]

HasRoom == HEAP_REST(0, From(Heap, 0)) >= 1
sml_alloc(x) ==
    /\ stop = "no" /\ HasRoom
    /\ \E id \in Unused(Heap) : Become(Allocated(Heap, x, id))

\* A slot of an old object is not remembered.
BarrierNever(slot, v) == FALSE
\* sml_write: an older slot is made to point to a younger object and is not in
\* the remembered set of the object's generation.
MustRemember(slot, v) ==
    /\ v # Null
    /\ HOW_OLD(slot[1]) > HOW_OLD(v)
    /\ ~search_rememberset(From(Heap, HOW_OLD(v)), slot)

sml_write(x, v) ==
    LET slot == <<root[x], 1>>
        written == [Heap EXCEPT !.mem[slot[1]].field[1] = v]
        s == IF MustRemember(slot, v)
               THEN REMEMBERSET_PUSH(written, HOW_OLD(v), FROM, slot) ELSE written
    IN  stop = "no" /\ root[x] # Null /\ Become(s)

\* An assignment to a slot of the stack needs no barrier.
SetRoot(x, v) ==
    stop = "no" /\ root[x] # v /\ Become([Heap EXCEPT !.root[x] = v])
------------------------------------------------------------------------------
(* do_gc, with the world stopped.  level is gc_level.                         *)

\* The generations collected by a minor collection: one more as long as the
\* objects to be promoted might not fit the next.
MinorLevel ==
    LET Spills(g) == HEAP_REST(g + 1, From(Heap, g + 1)) <= HEAP_OLDER_OBJ(From(Heap, g))
    IN  Min({g \in Gens : g = Oldest \/ ~Spills(g)})

\* The generation and the half where forward puts the copy of the object at p.
Old(s, p) == p[3] < From(s, HOW_OLD(p)).water_mark /\ HOW_OLD(p) < Oldest
Target(s, p, level) ==
    LET g == HOW_OLD(p) IN
    IF Old(s, p) /\ g + 1 > level THEN <<g + 1, FROM>>
    ELSE IF Old(s, p) /\ HEAP_REST(g + 1, To(s, g + 1)) >= 1 THEN <<g + 1, TO>>
    ELSE <<g, TO>>

\* If there is no room at the target: the program ends for an object that is to
\* stay in its generation; the others are asserted to fit.
NoRoom(s, p) == IF Old(s, p) THEN "assertion failed" ELSE "heap is over"

\* The copy of the object at p in the generation and half t.
CopiedTo(s, p, t) ==
    LET sp == s.space[t[1]][t[2]]
        new == <<t[1], t[2], sp.free>>
    IN  IF HEAP_REST(t[1], sp) < 1 THEN <<[s EXCEPT !.stop = NoRoom(s, p)], p>>
        ELSE <<[s EXCEPT !.mem = [b \in DOMAIN @ \cup {new} |->
                                     IF b = new THEN s.mem[p]
                                     ELSE IF b = p THEN [s.mem[p] EXCEPT !.fwd = new] ELSE s.mem[b]],
                         !.space[t[1]][t[2]].free = @ + 1], new>>

\* forward: the heap afterwards, and what the slot that held p holds then.
forward(s, p, level) ==
    IF s.stop # "no" \/ p = Null \/ HOW_OLD(p) > level THEN <<s, p>>
    ELSE IF s.mem[p].fwd # Null THEN <<s, s.mem[p].fwd>>
    ELSE CopiedTo(s, p, Target(s, p, level))

\* What forward returned for the value of the slot is stored into it.
Stored(r, slot) == [r[1] EXCEPT !.mem[slot[1]].field[slot[2]] = r[2]]
ForwardSlot(s, slot, level) == Stored(forward(s, Value(s, slot), level), slot)

\* The set that the slot is in after its object has been forwarded.
RememberAgain(s, slot, level) ==
    LET age == HOW_OLD(Value(s, slot)) IN
    IF s.stop # "no" THEN s
    ELSE IF age <= level THEN REMEMBERSET_PUSH(s, age, TO, slot)
    ELSE IF age < Oldest /\ ~search_rememberset(From(s, age), slot)
           THEN REMEMBERSET_PUSH(s, age, FROM, slot)
    ELSE s

\* "scan remembered-set", for a slot in the set of generation i: unless its
\* object is collected itself or it no longer points into the generation.
ScanRemembered(s, i, slot, level) ==
    LET v == Value(s, slot) IN
    IF HOW_OLD(slot[1]) <= level \/ v = Null \/ HOW_OLD(v) # i THEN s
    ELSE RememberAgain(ForwardSlot(s, slot, level), slot, level)

\* The sets of the collected generations, from the oldest to the youngest.
RememberedScanned(level) ==
    LET upto == IF level <= Oldest - 1 THEN level ELSE Oldest - 1
        after[i \in 0..(upto + 1)] ==
            IF i > upto THEN Heap
            ELSE FoldLeft(LAMBDA s, slot : ScanRemembered(s, i, slot, level),
                          after[i + 1], From(Heap, i).remembered)
    IN  after[0]

\* sml_rootset_enum_ptr(forward, MAJOR)
RootsForwarded(s, level) ==
    LET StoredRoot(r, x) == [r[1] EXCEPT !.root[x] = r[2]]
    IN  FoldLeft(LAMBDA t, x : StoredRoot(forward(t, t.root[x], level), x), s, SetToSeq(Regs))

\* forward2: a slot that is older than its object after that is remembered.
RememberOlder(s, slot) ==
    LET v == Value(s, slot) IN
    IF s.stop = "no" /\ v # Null /\ HOW_OLD(slot[1]) > HOW_OLD(v)
      THEN REMEMBERSET_PUSH(s, HOW_OLD(v), TO, slot) ELSE s
forward2(s, slot, level) == RememberOlder(ForwardSlot(s, slot, level), slot)

\* The loop that scans the copies: generation level + 1, where objects were
\* promoted to, and then the collected ones downwards, again and again.  The
\* object to be scanned next is the one at start[g] of the next such g.
Scanned(s0, level) ==
    LET NewHalf(g) == IF g > level THEN FROM ELSE TO
        Unscanned(s, start) == {g \in Gens : g <= level + 1 /\ start[g] < s.space[g][NewHalf(g)].free}
        start0 == [g \in Gens |-> IF g = level + 1 THEN From(Heap, g).free ELSE 1]
        \* A step from the heap and the positions l, with objects left in todo.
        ScanNext(l, todo) ==
            LET below == {g \in todo : g <= l.region}
                g == Max(IF below # {} THEN below ELSE todo)
            IN  IF todo = {} \/ l.s.stop # "no" THEN l
                ELSE [s |-> forward2(l.s, <<<<g, NewHalf(g), l.start[g]>>, 1>>, level),
                      start |-> [l.start EXCEPT ![g] = @ + 1], region |-> g]
        step[n \in 0..(NUM_GENERATIONS * OldestCapacity)] ==
            IF n = 0 THEN [s |-> s0, start |-> start0, region |-> level + 1]
            ELSE LET l == step[n - 1] IN ScanNext(l, Unscanned(l.s, l.start))
    IN  step[NUM_GENERATIONS * OldestCapacity].s

\* heap_space_clear, heap_space_swap and the water marks of the generations
\* that were copied to, if the program has not ended before.
Finished(s, level) ==
    LET Swapped(a) == IF a # Null /\ a[1] <= level THEN <<a[1], 1 - a[2], a[3]>> ELSE a
        SwappedSlot(slot) == <<Swapped(slot[1]), slot[2]>>
        Moved(o) == [o EXCEPT !.field = [k \in DOMAIN o.field |-> Swapped(o.field[k])]]
        copies == {a \in DOMAIN s.mem : ~(a[1] <= level /\ a[2] = FROM)}
        Space(g, h) ==
            LET sp == IF g > level THEN s.space[g][h] ELSE IF h = TO THEN Cleared ELSE To(s, g) IN
            [sp EXCEPT !.remembered = [n \in DOMAIN @ |-> SwappedSlot(@[n])],
                       !.water_mark = IF g <= level + 1 /\ h = FROM THEN sp.free ELSE @]
    IN  IF s.stop # "no" THEN s ELSE
        [s EXCEPT !.space = [g \in Gens |-> [h \in {FROM, TO} |-> Space(g, h)]],
                  !.mem = [a \in {Swapped(b) : b \in copies} |-> Moved(s.mem[Swapped(a)])],
                  !.root = [x \in Regs |-> Swapped(s.root[x])]]

do_gc(level) ==
    Finished(Scanned(RootsForwarded(RememberedScanned(level), level), level), level)

\* slow_alloc: a minor collection and the allocation again.
AllocateAgain(s, x) ==
    IF s.stop # "no" THEN Become(s)
    ELSE IF HEAP_REST(0, From(s, 0)) < 1 THEN Become([s EXCEPT !.stop = "heap exceeded"])
    ELSE \E id \in Unused(s) : Become(Allocated(s, x, id))
slow_alloc(x) == stop = "no" /\ ~HasRoom /\ AllocateAgain(do_gc(MinorLevel), x)

\* sml_heap_gc: a major collection.
sml_heap_gc == stop = "no" /\ Become(do_gc(Oldest))

Step ==
    \/ \E x \in Regs : sml_alloc(x) \/ slow_alloc(x)
    \/ sml_heap_gc
    \/ \E x, y \in Regs : sml_write(x, root[y])
    \/ \E x, y \in Regs : SetRoot(x, root[y]) \/ (root[y] # Null /\ SetRoot(x, mem[root[y]].field[1]))
    \/ \E x \in Regs : SetRoot(x, Null)

Next == Step /\ graph' = GraphOf(mem', {root'[x] : x \in Regs})
Spec == Init /\ [][Next]_vars
------------------------------------------------------------------------------
RootAddrs == {root[x] : x \in Regs} \ {Null}

\* Every object lies below its space's free pointer and limit, and while the
\* program runs all pointers lead to objects in from-spaces, each with one copy.
TypeOK ==
    /\ \A a \in DOMAIN mem : a[3] < space[a[1]][a[2]].free /\ a[3] <= Limit(a[1])
    /\ stop = "no" =>
         /\ RootAddrs \subseteq DOMAIN mem
         /\ \A a \in ReachedFrom(mem, RootAddrs) : a[2] = FROM
    /\ OneCopyEach(mem, RootAddrs)

\* What makes minor collections sound: while the program runs, the remembered
\* set of each generation holds every slot of a reachable object of an older
\* generation that points into it, and no slot twice.
Remembered ==
    stop = "no" =>
      /\ \A a \in ReachedFrom(mem, RootAddrs) :
           LET v == mem[a].field[1] IN
           v # Null /\ HOW_OLD(a) > HOW_OLD(v) =>
               search_rememberset(From(Heap, HOW_OLD(v)), <<a, 1>>)
      /\ \A g \in Gens : IsInjective(From(Heap, g).remembered)

\* Collections of any level keep the graph of the objects that the program sees.
Graph == INSTANCE ObjectGraph WITH Roots <- Regs, Sizes <- {1},
             root <- [x \in Regs |-> IdAt(mem, root[x])],
             edge <- graph
IsObjectGraph == Graph!Spec

\* The assertions of forward that the target has room for the object
\* ("ASSERT(HEAP_REST(sml_heap_to_space[obj_age]) >= alloc_size)").
AssertedRoom == stop # "assertion failed"
==============================================================================
