------------------------------- MODULE Cheney -------------------------------
(***************************************************************************)
(* The copying collector of src/runtime/heap_cheney.c, in the configuration *)
(* without FAIR_COMPARISON: two spaces, allocation by a pointer, and, with  *)
(* the world stopped, the copying of what is reachable.                     *)
(*                                                                         *)
(* Sizes are counted in the units of HEAP_ROUND_SIZE; a unit holds one      *)
(* pointer slot.                                                            *)
(***************************************************************************)
EXTENDS CopyingHeap

CONSTANTS Regs,     \* root slots that are enumerated always: the stack
          Statics,  \* slots outside the heap that are enumerated once remembered
          Sizes,    \* the numbers of pointer slots of objects
          Capacity  \* units of each space

CheneyConstants == Capacity \in Nat /\ Sizes \subseteq Nat /\ Regs \cap Statics = {}

VARIABLES mem,         \* the objects, at addresses <<space, unit>>
          from,        \* which space is sml_heap_from_space; the other is to-space
          free,        \* free[s]: heap_space.free
          root,        \* the contents of the root slots
          remembered,  \* the slots given to sml_global_barrier
          pc, todo,    \* do_gc: where it is, the root slots to be forwarded
          scan,        \* forward_region: cur
          request,     \* the allocation that waits for the collection
          graph        \* not in the code: the objects that the program sees

vars == <<mem, from, free, root, remembered, pc, todo, scan, request, graph>>

Slots == Regs \cup Statics
Addrs == {0, 1} \X (1..Capacity)
to == 1 - from
NoRequest == << >>

\* Objects without a pointer take no room.
NoMinimum(n) == n
\* HEAP_ROUND_SIZE: an object has room for a forward pointer at least.
RoundSize(n) == IF n = 0 THEN 1 ELSE n
Size(o) == RoundSize(Len(o.field))

\* sml_heap_init
Init ==
    /\ mem = [a \in {} |-> Object(0, 0)]
    /\ from = 0
    /\ free = [s \in {0, 1} |-> 1]
    /\ root = [x \in Slots |-> Null]
    /\ remembered = {}
    /\ pc = "run" /\ todo = {} /\ scan = 1 /\ request = NoRequest
    /\ graph = << >>
------------------------------------------------------------------------------
(* The mutators: all of them run or none does.                               *)

\* One unit more than there is.
OneMore(s) == Capacity + 2 - free[s]
HEAP_REST(s) == Capacity + 1 - free[s]
FreshId == CHOOSE i \in Ids : (\A a \in DOMAIN mem : mem[a].id # i)
                              /\ \A j \in Ids : j < i => \E a \in DOMAIN mem : mem[a].id = j

\* The object at free, and the pointer to it in a root slot.  What lies where
\* the object goes is overwritten.
PutObject(x, n) ==
    LET a == <<from, free[from]>> IN
    /\ mem' = [b \in DOMAIN mem \cup {a} |-> IF b = a THEN Object(FreshId, n) ELSE mem[b]]
    /\ free' = [free EXCEPT ![from] = @ + RoundSize(n)]
    /\ root' = [root EXCEPT ![x] = a]

\* sml_alloc: the fast path ...
sml_alloc(x, n) ==
    /\ pc = "run" /\ HEAP_REST(from) >= RoundSize(n)
    /\ PutObject(x, n)
    /\ UNCHANGED <<from, remembered, pc, todo, scan, request>>

\* ... and the call of slow_alloc, up to the enumeration of the roots.
slow_alloc(x, n) ==
    /\ pc = "run" /\ HEAP_REST(from) < RoundSize(n)
    /\ request' = <<x, n>>
    /\ pc' = "roots"
    /\ todo' = Regs \cup remembered
    /\ UNCHANGED <<mem, from, free, root, remembered, scan>>

\* sml_heap_gc
sml_heap_gc ==
    /\ pc = "run"
    /\ pc' = "roots"
    /\ todo' = Regs \cup remembered
    /\ UNCHANGED <<mem, from, free, root, remembered, scan, request>>

\* The barrier forgotten.
NoBarrier(x) == {}
\* sml_write to a slot outside the heap calls sml_global_barrier.
Barrier(x) == {x} \cap Statics

\* sml_write of an object's slot, which lies in from-space, ...
WriteField(x, k, v) ==
    /\ pc = "run" /\ root[x] # Null /\ k \in DOMAIN mem[root[x]].field
    /\ mem' = [mem EXCEPT ![root[x]].field[k] = v]
    /\ UNCHANGED <<from, free, root, remembered, pc, todo, scan, request>>

\* ... of a slot outside the heap, and the assignment to a slot of the stack.
WriteRoot(x, v) ==
    /\ pc = "run" /\ root[x] # v
    /\ root' = [root EXCEPT ![x] = v]
    /\ remembered' = remembered \cup Barrier(x)
    /\ UNCHANGED <<mem, from, free, pc, todo, scan, request>>
------------------------------------------------------------------------------
(* do_gc                                                                     *)

\* The forward pointer is not looked at.
ForwardAgain(s, p) ==
    IF p = Null \/ p[1] # from THEN <<s, p>>
    ELSE LET new == <<to, s.free>> IN
         <<[mem |-> [b \in DOMAIN s.mem \cup {new} |->
                        IF b = new THEN s.mem[p]
                        ELSE IF b = p THEN [s.mem[p] EXCEPT !.fwd = new] ELSE s.mem[b]],
            free |-> s.free + Size(s.mem[p])], new>>

\* forward: the memory afterwards, and what the slot that held p holds then.
forward(s, p) ==
    IF p = Null \/ p[1] # from THEN <<s, p>>
    ELSE IF s.mem[p].fwd # Null THEN <<s, s.mem[p].fwd>>
    ELSE LET new == <<to, s.free>> IN
         <<[mem |-> [b \in DOMAIN s.mem \cup {new} |->
                        IF b = new THEN s.mem[p]
                        ELSE IF b = p THEN [s.mem[p] EXCEPT !.fwd = new] ELSE s.mem[b]],
            free |-> s.free + Size(s.mem[p])], new>>

Memory == [mem |-> mem, free |-> free[to]]

\* sml_rootset_enum_ptr(forward), in an order of its own.
ForwardRoot(x) ==
    LET r == forward(Memory, root[x]) IN
    /\ pc = "roots" /\ x \in todo
    /\ mem' = r[1].mem
    /\ free' = [free EXCEPT ![to] = r[1].free]
    /\ root' = [root EXCEPT ![x] = r[2]]
    /\ todo' = todo \ {x}
    /\ UNCHANGED <<from, remembered, pc, scan, request>>

RootsDone ==
    /\ pc = "roots" /\ todo = {}
    /\ pc' = "scan" /\ scan' = 1
    /\ UNCHANGED <<mem, from, free, root, remembered, todo, request>>

\* forward of one slot of a copied object.
ForwardField(s, a, k) ==
    LET r == forward(s, s.mem[a].field[k]) IN
    [r[1] EXCEPT !.mem = [r[1].mem EXCEPT ![a].field[k] = r[2]]]

\* forward_region: the children of one object, in the order of sml_obj_enum_ptr.
ScanObject ==
    LET a == <<to, scan>>
        n == Len(mem[a].field)
        after[k \in 0..n] == IF k = 0 THEN Memory ELSE ForwardField(after[k - 1], a, k)
    IN  /\ pc = "scan" /\ scan < free[to]
        /\ mem' = after[n].mem
        /\ free' = [free EXCEPT ![to] = after[n].free]
        /\ scan' = scan + Size(mem[a])
        /\ UNCHANGED <<from, root, remembered, pc, todo, request>>

\* heap_space_clear, heap_space_swap; sml_heap_gc or slow_alloc goes on.
Swap ==
    /\ pc = "scan" /\ scan >= free[to]
    /\ mem' = [a \in {b \in DOMAIN mem : b[1] = to} |-> mem[a]]
    /\ free' = [free EXCEPT ![from] = 1]
    /\ from' = to
    /\ pc' = IF request = NoRequest THEN "run" ELSE "alloc"
    /\ UNCHANGED <<root, remembered, todo, scan, request>>

\* The rest of slow_alloc: the object, or "heap exceeded".
AllocAgain ==
    /\ pc = "alloc"
    /\ IF HEAP_REST(from) >= RoundSize(request[2])
         THEN PutObject(request[1], request[2]) /\ pc' = "run"
         ELSE pc' = "heap exceeded" /\ UNCHANGED <<mem, free, root>>
    /\ request' = NoRequest
    /\ UNCHANGED <<from, remembered, todo, scan>>

Step ==
    \/ \E x \in Slots, n \in Sizes : sml_alloc(x, n) /\ x \in Regs
    \/ \E x \in Regs, n \in Sizes : slow_alloc(x, n)
    \/ sml_heap_gc
    \/ \E x, y \in Regs : \E k \in 1..2 : WriteField(x, k, root[y])
    \/ \E x, y \in Slots : WriteRoot(x, root[y])
    \/ \E x \in Slots : WriteRoot(x, Null)
    \/ \E x, y \in Regs : \E k \in 1..2 :
          root[y] # Null /\ k \in DOMAIN mem[root[y]].field /\ WriteRoot(x, mem[root[y]].field[k])
    \/ \E x \in Slots : ForwardRoot(x)
    \/ RootsDone \/ ScanObject \/ Swap \/ AllocAgain

Next == Step /\ graph' = GraphOf(mem', {root'[x] : x \in Slots} \ {Null})
Spec == Init /\ [][Next]_vars
------------------------------------------------------------------------------
RootAddrs == {root[x] : x \in Slots} \ {Null}

\* The objects lie in their spaces one behind the other: none is inside another
\* and none beyond the limit (the assertion of forward that to-space has room).
TypeOK ==
    \A a \in DOMAIN mem :
        /\ a[2] + Size(mem[a]) <= free[a[1]]
        /\ free[a[1]] <= Capacity + 1
        /\ \A b \in DOMAIN mem : a # b /\ a[1] = b[1] =>
              a[2] + Size(mem[a]) <= b[2] \/ b[2] + Size(mem[b]) <= a[2]

\* While the program runs, all its pointers lead into from-space, from the
\* remembered slots outside the heap too ("remember the writeaddr as a root
\* pointer which is outside of the heap"), and no object has two copies.
OnlyFromSpace ==
    /\ pc = "run" =>
         /\ RootAddrs \subseteq {a \in DOMAIN mem : a[1] = from}
         /\ \A a \in ReachedFrom(mem, RootAddrs) : a[1] = from
    /\ OneCopyEach(mem, RootAddrs)

\* The collector keeps, and the program sees, the same graph of objects.
Graph == INSTANCE ObjectGraph WITH Roots <- Slots,
             root <- [x \in Slots |-> IdAt(mem, root[x])],
             edge <- graph
IsObjectGraph == Graph!Spec
==============================================================================
