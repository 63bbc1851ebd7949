------------------------------ MODULE SplayTree ------------------------------
(* The top-down splay tree of src/runtime/splay.c, which holds the callback  *)
(* closures and the finalizers.  Pointers are modelled as such: a node has   *)
(* two child slots, a splay keeps two holes (the addresses of the slots the  *)
(* next linked subtree goes to), traversals thread the tree through the      *)
(* field "back", and nodes come from chunks or from the list of reclaimed    *)
(* nodes that "back" links too.                                              *)
EXTENDS Integers, Sequences, FiniteSets, SequencesExt, FiniteSetsExt

CONSTANTS Keys,       \* the items: integers, ordered as the compare function orders them
          PerChunk,   \* how many nodes CHUNK_SIZE holds
          MaxChunks,  \* bound: chunks malloc can give out at a time
          Moves       \* what a visit may do to the items: functions from Keys to Keys

SplayConstants ==
    /\ Keys \subseteq Int
    /\ PerChunk \in Nat \ {0}
    /\ MaxChunks \in Nat \ {0}

VARIABLES tree,       \* struct sml_tree with its nodes and chunks
          ret         \* what the last call gave back: the items it found or met, in order

vars == <<tree, ret>>

LEFT  == "left"
RIGHT == "right"
Dirs  == {LEFT, RIGHT}
Nodes == 1 .. PerChunk * MaxChunks
Null  == 0                       \* the null pointer
Chunks == 1 .. MaxChunks
ChunkOf(node) == (node - 1) \div PerChunk + 1

\* The local arrays result[2] of two nested calls are nodes of their own.
Outer == -1
Inner == -2
NoChildren == [d \in Dirs |-> Null]

DIR(cmp) == IF cmp < 0 THEN LEFT ELSE RIGHT
OPP(d)   == IF d = LEFT THEN RIGHT ELSE LEFT
Cmp(x, y) == x - y

\* A slot is a pair <<node, direction>>, the address of tree->root, or no address.
RootSlot == <<Null, "root">>
NoSlot   == <<Null, "none">>
At(t, slot) == IF slot = RootSlot THEN t.root ELSE t.child[slot[1]][slot[2]]
Put(t, slot, node) == IF slot = RootSlot THEN [t EXCEPT !.root = node]
                                         ELSE [t EXCEPT !.child[slot[1]][slot[2]] = node]
------------------------------------------------------------------------------
(* Chunks and nodes                                                          *)

\* chunk_alloc: bump-allocates in the first chunk of the list, with a new
\* chunk in front when it is full.  The list is given and returned by its head.
NeedsChunk(t, head) == head = Null \/ t.used[head] = PerChunk
chunk_alloc(t, head) ==
    LET fresh == Min(Chunks \ t.malloced)
        t1 == IF NeedsChunk(t, head)
                THEN [t EXCEPT !.malloced = @ \cup {fresh}, !.next[fresh] = head, !.used[fresh] = 0]
                ELSE t
        c  == IF NeedsChunk(t, head) THEN fresh ELSE head
    IN  [t |-> [t1 EXCEPT !.used[c] = @ + 1], head |-> c,
         node |-> (c - 1) * PerChunk + t1.used[c] + 1]

RECURSIVE chunk_list(_, _)
chunk_list(t, c) == IF c = Null THEN {} ELSE {c} \cup chunk_list(t, t.next[c])

\* chunk_destroy frees the list.
chunk_destroy(t, head) == [t EXCEPT !.malloced = @ \ chunk_list(t, head)]

node_alloc(t) ==
    IF t.freelist # Null
      THEN [t |-> [t EXCEPT !.freelist = t.back[t.freelist][1]], node |-> t.freelist]
      ELSE LET a == chunk_alloc(t, t.chunk)
           IN  [t |-> [a.t EXCEPT !.chunk = a.head], node |-> a.node]

node_reclaim(t, node) == [t EXCEPT !.back[node] = <<t.freelist, "free">>, !.freelist = node]
------------------------------------------------------------------------------
(* Splaying                                                                  *)

Holes(result) == [d \in Dirs |-> <<result, d>>]

\* The loop of splay at a node whose comparison with the item gave n; link
\* hangs the node into the hole and goes down, after a rotation when two
\* steps in a row go the same way.
RECURSIVE splay_at(_, _, _, _, _)
splay_at(t, key, node, n, hole) ==
    LET d    == DIR(n)
        down == t.child[node][d]
        n1   == Cmp(key, t.item[down])
        link(u, top, m) ==
            splay_at(Put(u, hole[OPP(d)], top), key, u.child[top][d], m,
                     [hole EXCEPT ![OPP(d)] = <<top, d>>])
    IN  IF n = 0 \/ down = Null
          THEN [t |-> t, node |-> node, n |-> n, hole |-> hole]
        ELSE IF n1 # 0 /\ DIR(n1) = d
          THEN LET u == [t EXCEPT !.child[node][d] = t.child[down][OPP(d)],
                                  !.child[down][OPP(d)] = node]
                   below == u.child[down][d]
               IN  IF below = Null
                     THEN [t |-> u, node |-> down, n |-> n1, hole |-> hole]
                     ELSE link(u, down, Cmp(key, u.item[below]))
        ELSE link(t, node, n1)

splay(t, key, node, result) ==
    splay_at(t, key, node, Cmp(key, t.item[node]), Holes(result))

\* Swapping the two holes: a left subtree ends among the larger items.
AssembleCrossed(t, node, result, hole) ==
    LET u == Put(t, hole[LEFT], t.child[node][RIGHT])
        v == Put(u, hole[RIGHT], u.child[node][LEFT])
    IN  [v EXCEPT !.child[node] = v.child[result]]

\* assemble: the node's subtrees go to the holes and the two results under it.
assemble(t, node, result, hole) ==
    LET u == Put(t, hole[RIGHT], t.child[node][RIGHT])
        v == Put(u, hole[LEFT], u.child[node][LEFT])
    IN  [v EXCEPT !.child[node] = v.child[result]]

\* sml_tree_find; found is the node or null.
FindIn(t, key) ==
    LET s == splay(t, key, t.root, Outer)
    IN  IF t.root = Null THEN [t |-> t, found |-> Null]
        ELSE [t |-> [assemble(s.t, s.node, Outer, s.hole) EXCEPT !.root = s.node],
              found |-> IF s.n = 0 THEN s.node ELSE Null]

\* Hangs a node above the splayed tree, on the side the comparison tells.
OnTop(t, node, n) ==
    [t EXCEPT !.child[node] = [d \in Dirs |-> IF d = DIR(n) THEN Null ELSE t.root], !.root = node]

\* The splayed tree before an insertion: an empty one compares as 1.
ForInsert(t, key) ==
    IF t.root = Null THEN [t |-> t, n |-> 1, hole |-> Holes(Outer)]
    ELSE LET s == splay(t, key, t.root, Outer)
         IN  [t |-> [s.t EXCEPT !.root = s.node], n |-> s.n, hole |-> s.hole]

\* sml_tree_insert
InsertIn(t, key) ==
    LET s == ForInsert(t, key)
        a == node_alloc(s.t)
        u == IF s.n = 0 THEN s.t ELSE OnTop(a.t, a.node, s.n)
    IN  [assemble(u, u.root, Outer, s.hole) EXCEPT !.item[u.root] = key]

\* insert_node; n = 0 tells that an equivalent item was there.
insert_node(t, node) ==
    LET s == ForInsert(t, t.item[node])
        u == IF s.n = 0 THEN s.t ELSE OnTop(s.t, node, s.n)
    IN  [t |-> assemble(u, u.root, Outer, s.hole), n |-> s.n]

\* The joined subtree forgets what was right of the node.
JoinForgets(t, node) ==
    LET left == t.child[node][LEFT]
        s == splay(t, t.item[node], left, Inner)
    IN  IF left = Null THEN [t |-> t, node |-> t.child[node][RIGHT]]
        ELSE [t |-> assemble(s.t, s.node, Inner, s.hole), node |-> s.node]

\* join: the two subtrees of the node without the node.  The field wrong
\* keeps a failure of the assertion that nothing is right of the largest item.
join(t, node) ==
    LET left == t.child[node][LEFT]
        s == splay(t, t.item[node], left, Inner)
        u == [s.t EXCEPT !.child[s.node][RIGHT] = t.child[node][RIGHT],
                         !.wrong = @ \/ s.t.child[s.node][RIGHT] # Null]
    IN  IF left = Null THEN [t |-> t, node |-> t.child[node][RIGHT]]
        ELSE [t |-> assemble(u, s.node, Inner, s.hole), node |-> s.node]

\* sml_tree_delete; found is the deleted node or null.  A leaf is put back
\* among its neighbours first, so that they can be joined.
DeleteIn(t, key) ==
    LET s == splay(t, key, t.root, Outer)
        j == join(s.t, s.node)
        whole == assemble(s.t, s.node, Outer, s.hole)
        again == join(whole, s.node)
        k == IF j.node # Null THEN [t |-> assemble(j.t, j.node, Outer, s.hole), node |-> j.node]
                              ELSE again
    IN  IF t.root = Null THEN [t |-> t, found |-> Null]
        ELSE IF s.n # 0 THEN [t |-> [whole EXCEPT !.root = s.node], found |-> Null]
        ELSE [t |-> [node_reclaim(k.t, s.node) EXCEPT !.root = k.node], found |-> s.node]
------------------------------------------------------------------------------
(* Traversals                                                                *)

\* The loop of sml_tree_each: what is visited, in order.
RECURSIVE each_from(_, _, _, _)
each_from(t, node, prev, seen) ==
    IF node # Null
      THEN each_from([t EXCEPT !.back[node] = <<prev, "node">>], t.child[node][LEFT], node, seen)
    ELSE IF prev # Null
      THEN each_from(t, t.child[prev][RIGHT], t.back[prev][1], Append(seen, t.item[prev]))
    ELSE [t |-> t, seen |-> seen]

\* The loop of sml_tree_reject.  The function asked may change the item it
\* keeps (sml_heap_check_alive of a copying heap does): move says to what.
RECURSIVE reject_from(_, _, _, _, _, _)
reject_from(t, slot, prev, refused, move, seen) ==
    LET node == At(t, slot)
        here == At(t, prev)
        up   == t.back[here]
        on   == Append(seen, t.item[here])
        kept == [t EXCEPT !.item[here] = move[@]]
        gone == node_reclaim(t, here)
        j    == join(gone, here)
    IN  IF node # Null
          THEN reject_from([t EXCEPT !.back[node] = prev], <<node, LEFT>>, slot, refused, move, seen)
        ELSE IF prev = NoSlot THEN [t |-> t, seen |-> seen]
        ELSE IF t.item[here] \notin refused
          THEN reject_from(kept, <<here, RIGHT>>, up, refused, move, on)
        ELSE IF t.child[here][LEFT] = Null
          THEN reject_from(Put(gone, prev, t.child[here][RIGHT]), prev, up, refused, move, on)
        ELSE reject_from(Put(j.t, prev, j.node), <<j.node, RIGHT>>, up, refused, move, on)

\* The loop of sml_tree_rebuild: every node, children before parents, is
\* inserted anew; a node whose item is there already is reclaimed.
RECURSIVE rebuild_from(_, _, _, _)
rebuild_from(t, node, prev, last) ==
    LET right == t.child[prev][RIGHT]
        up == t.back[prev][1]
        i  == insert_node(t, prev)
    IN  IF node # Null
          THEN rebuild_from([t EXCEPT !.back[node] = <<prev, "node">>], t.child[node][LEFT], node, last)
        ELSE IF prev = Null THEN t
        ELSE IF right # Null /\ right # last THEN rebuild_from(t, right, prev, last)
        ELSE rebuild_from(IF i.n = 0 THEN node_reclaim(i.t, prev) ELSE i.t, Null, up, prev)
RebuildIn(t) == rebuild_from([t EXCEPT !.root = Null], t.root, Null, Null)

\* The new chunks in the order chunk_alloc leaves them: the newest first.
ForwardUnreversed(w, slot) ==
    LET old == At(w.t, slot)
        a   == chunk_alloc(w.t, w.chunk)
        u   == Put([a.t EXCEPT !.item[a.node] = a.t.item[old], !.child[a.node] = a.t.child[old]],
                   slot, a.node)
    IN  IF old = Null THEN w ELSE [t |-> u, chunk |-> a.head]

\* forward: copies the node a slot points to into the new chunks, whose list
\* grows at its end (the reversal), and redirects the slot.
forward(w, slot) ==
    LET old == At(w.t, slot)
        a   == chunk_alloc(w.t, w.chunk)
        u   == Put([a.t EXCEPT !.item[a.node] = a.t.item[old], !.child[a.node] = a.t.child[old]],
                   slot, a.node)
    IN  IF old = Null THEN w
        ELSE [t |-> IF w.chunk # Null /\ a.head # w.chunk
                      THEN [u EXCEPT !.next[w.chunk] = a.head, !.next[a.head] = Null]
                      ELSE u,
              chunk |-> a.head]

\* The loop of sml_tree_compact: the cursor follows the copies.
RECURSIVE copy_from(_, _, _)
copy_from(w, c, p) ==
    LET node == (c - 1) * PerChunk + p
        x == forward(forward(w, <<node, LEFT>>), <<node, RIGHT>>)
    IN  IF c = Null THEN w
        ELSE IF p < x.t.used[c] THEN copy_from(x, c, p + 1)
        ELSE copy_from(x, x.t.next[c], 1)
\* The reclaimed nodes of the old chunks stay on the list.
CompactKeepsList(t) ==
    LET w == forward([t |-> t, chunk |-> Null], RootSlot)
        x == copy_from(w, w.chunk, 1)
    IN  [chunk_destroy(x.t, t.chunk) EXCEPT !.chunk = w.chunk]
CompactIn(t) ==
    LET w == forward([t |-> t, chunk |-> Null], RootSlot)
        x == copy_from(w, w.chunk, 1)
    IN  [chunk_destroy(x.t, t.chunk) EXCEPT !.chunk = w.chunk, !.freelist = Null]
------------------------------------------------------------------------------
(* The calls                                                                 *)

RECURSIVE nodes_below(_, _)
nodes_below(t, node) ==
    IF node = Null THEN {} ELSE {node} \cup UNION {nodes_below(t, t.child[node][d]) : d \in Dirs}
RECURSIVE free_nodes(_, _)
free_nodes(t, node) == IF node = Null THEN << >> ELSE <<node>> \o free_nodes(t, t.back[node][1])

\* Between calls, the fields no call reads before it writes them are forgotten:
\* back of a node in the tree, everything but back of a reclaimed node, the
\* local arrays, and all of what is not malloced.
Settled(t) ==
    LET used == nodes_below(t, t.root)
        free == ToSet(free_nodes(t, t.freelist))
    IN  [t EXCEPT !.child = [n \in DOMAIN @ |-> IF n \in used THEN @[n] ELSE NoChildren],
                  !.item  = [n \in DOMAIN @ |-> IF n \in used THEN @[n] ELSE 0],
                  !.back  = [n \in DOMAIN @ |-> IF n \in free THEN @[n] ELSE NoSlot],
                  !.used  = [c \in Chunks |-> IF c \in t.malloced THEN @[c] ELSE 0],
                  !.next  = [c \in Chunks |-> IF c \in t.malloced THEN @[c] ELSE Null]]

\* sml_tree_new
Init ==
    /\ tree = [root |-> Null, chunk |-> Null, freelist |-> Null, wrong |-> FALSE,
               child |-> [n \in Nodes \cup {Null, Outer, Inner} |-> NoChildren],
               item |-> [n \in Nodes \cup {Null} |-> 0],
               back |-> [n \in Nodes \cup {Null} |-> NoSlot],
               malloced |-> {}, used |-> [c \in Chunks |-> 0], next |-> [c \in Chunks |-> Null]]
    /\ ret = << >>

Answer(t, node) == IF node = Null THEN << >> ELSE <<t.item[node]>>

sml_tree_find(k) ==
    LET f == FindIn(tree, k) IN
    /\ tree' = Settled(f.t)
    /\ ret' = Answer(f.t, f.found)

\* Bound: an insertion that needs a chunk finds one.
sml_tree_insert(k) ==
    LET t == InsertIn(tree, k) IN
    /\ Cardinality(nodes_below(tree, tree.root)) < Cardinality(Nodes) \div 2
    /\ tree' = Settled(t)
    /\ ret' = Answer(t, t.root)

sml_tree_delete(k) ==
    LET f == DeleteIn(tree, k) IN
    /\ tree' = Settled(f.t)
    /\ ret' = Answer(f.t, f.found)

sml_tree_each ==
    LET e == each_from(tree, tree.root, Null, << >>) IN
    /\ tree' = Settled(e.t)
    /\ ret' = e.seen

\* sml_tree_reject; with a move that changes items the tree is out of order
\* until it is rebuilt, so the two calls of sml_run_finalizer are one step.
sml_tree_reject(refused, move) ==
    LET r == reject_from(tree, RootSlot, NoSlot, refused, move, << >>) IN
    /\ tree' = Settled(RebuildIn(r.t))
    /\ ret' = r.seen

sml_tree_rebuild == tree' = Settled(RebuildIn(tree)) /\ ret' = << >>

\* Bound: the new chunks are malloced before the old ones are freed.
sml_tree_compact ==
    /\ Cardinality(tree.malloced) * 2 <= MaxChunks
    /\ tree' = Settled(CompactIn(tree))
    /\ ret' = << >>

Next ==
    \/ \E k \in Keys : sml_tree_find(k) \/ sml_tree_insert(k) \/ sml_tree_delete(k)
    \/ sml_tree_each
    \/ \E refused \in SUBSET Keys, move \in Moves : sml_tree_reject(refused, move)
    \/ sml_tree_rebuild
    \/ sml_tree_compact

Spec == Init /\ [][Next]_vars
------------------------------------------------------------------------------
(* Properties                                                                *)

InTree == nodes_below(tree, tree.root)
Items  == {tree.item[n] : n \in InTree}

\* Every pointer of the tree and every link of a list goes to a malloced chunk.
TypeOK ==
    /\ \A n \in InTree : tree.item[n] \in Keys /\ tree.child[n] \in [Dirs -> Nodes \cup {Null}]
    /\ tree.chunk \in tree.malloced \cup {Null}
    /\ InTree \cup ToSet(free_nodes(tree, tree.freelist)) \subseteq
           {n \in Nodes : ChunkOf(n) \in tree.malloced}

\* The tree is a search tree: everything left of a node is smaller than its
\* item and everything right of it larger, however often the tree has been
\* splayed, joined, threaded and rebuilt.
Ordered ==
    \A n \in InTree :
        /\ \A m \in nodes_below(tree, tree.child[n][LEFT]) : tree.item[m] < tree.item[n]
        /\ \A m \in nodes_below(tree, tree.child[n][RIGHT]) : tree.item[m] > tree.item[n]

\* No node and no chunk is lost: a node handed out by chunk_alloc is in the
\* tree or in the list of reclaimed nodes, never in both, and every malloced
\* chunk is on the list sml_tree_destroy frees.
NothingLeaks ==
    /\ tree.malloced = chunk_list(tree, tree.chunk)
    /\ LET free == free_nodes(tree, tree.freelist)
       IN  /\ ToSet(free) \cap InTree = {}
           /\ Len(free) = Cardinality(ToSet(free))
           /\ Cardinality(InTree) + Len(free) = MapThenSumSet(LAMBDA c : tree.used[c], tree.malloced)

\* The tree is the set splay.h promises, whatever its shape.
TheSet == INSTANCE TreeSet WITH items <- Items, ret <- ret
IsTreeSet == TheSet!Spec

\* The assertion of join: once the left subtree is splayed at the item above
\* it, nothing is right of its root.
NothingRightOfLeft == ~tree.wrong
==============================================================================
