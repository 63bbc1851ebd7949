------------------------------- MODULE GCRoots -------------------------------
(* The frame tables and toplevel objects of loaded programs, of              *)
(* src/runtime/top.c.  A loader gathers the safe points and the toplevel     *)
(* objects of its modules into one sml_gcroot, sorts it and puts it on a     *)
(* list without a lock, while the collector's workers walk the list to look  *)
(* up return addresses and to enumerate the toplevel objects.                *)
EXTENDS Integers, Sequences, FiniteSets, SequencesExt, FiniteSetsExt, TLC

CONSTANTS Roots,       \* the sml_gcroots; each is loaded once, by a thread of its own
          Program,     \* Program[g]: the modules of g, each a sequence of items
          HeaderSize,  \* sizeof(struct sml_gcroot) in items
          PageSize,    \* PAGE_SIZE in items
          Readers,     \* workers that enumerate the roots
          Unloadable   \* the sml_gcroots that are unloaded at some time

RootConstants == HeaderSize \in Nat /\ PageSize \in Nat /\ PageSize > HeaderSize

VARIABLES gcroot_list, next,            \* the list
          item, num_points, num_tops,   \* each sml_gcroot
          allocsize,
          pc, first, old,               \* each loader
          at, mode, tops, i, seen, goal \* each reader: its place in the list and its loop

loaderVars == <<pc, first, old>>
readerVars == <<at, mode, tops, i, seen, goal>>
rootVars   == <<item, num_points, num_tops, allocsize>>
vars == <<gcroot_list, next, rootVars, loaderVars, readerVars>>

Null == 0
Tops == 0                \* layout = NULL: the item is a struct toplevel_objects
IsTop(x) == x.layout = Tops

Init ==
    /\ gcroot_list = Null
    /\ next = [g \in Roots |-> Null]
    /\ item = [g \in Roots |-> << >>]
    /\ num_points = [g \in Roots |-> 0]
    /\ num_tops = [g \in Roots |-> 0]
    /\ allocsize = [g \in Roots |-> 0]
    /\ pc = [g \in Roots |-> "load"]
    /\ first = [g \in Roots |-> Null]
    /\ old = [g \in Roots |-> Null]
    /\ at = [r \in Readers |-> Null]
    /\ mode = [r \in Readers |-> "idle"]
    /\ tops = [r \in Readers |-> 0]
    /\ i = [r \in Readers |-> 0]
    /\ seen = [r \in Readers |-> {}]
    /\ goal = [r \in Readers |-> {}]
------------------------------------------------------------------------------
(* Loading                                                                   *)

Ceiling(n, unit) == ((n + unit - 1) \div unit) * unit

\* Room for the header forgotten.
GrownTooLittle(g, inc) ==
    IF g.allocsize - Len(g.item) < inc THEN Ceiling(Len(g.item) + inc, PageSize) ELSE g.allocsize

\* alloc_safe_points: the allocation grows when inc more items do not fit.
AllocSize(g, inc) ==
    IF g.allocsize - HeaderSize - Len(g.item) < inc
      THEN Ceiling(HeaderSize + Len(g.item) + inc, PageSize)
      ELSE g.allocsize

\* sml_gcroot: the items of one module are appended; all count as safe points
\* but the one for the toplevel objects.
TopsIn(module) == Cardinality({k \in DOMAIN module : IsTop(module[k])})
AddModule(g, module) ==
    [item |-> g.item \o module,
     points |-> g.points + Len(module) - TopsIn(module),
     tops |-> g.tops + TopsIn(module),
     allocsize |-> AllocSize(g, Len(module))]

\* By address alone, wherever the toplevel objects are.
ByAddress(x, y) == x.addr < y.addr

\* cmp_safe_point: safe points before toplevel objects, then by address.
Cmp(x, y) == \/ ~IsTop(x) /\ IsTop(y)
             \/ (IsTop(x) <=> IsTop(y)) /\ x.addr < y.addr

\* sml_gcroot_load up to register_gcroot: new_gcroot, the modules, the sort.
sml_gcroot_load(g) ==
    LET fresh == [item |-> << >>, points |-> 0, tops |-> 0, allocsize |-> PageSize]
        built == FoldLeft(AddModule, fresh, Program[g])
    IN  /\ pc[g] = "load"
        /\ item' = [item EXCEPT ![g] = SortSeq(built.item, Cmp)]
        /\ num_points' = [num_points EXCEPT ![g] = built.points]
        /\ num_tops' = [num_tops EXCEPT ![g] = built.tops]
        /\ allocsize' = [allocsize EXCEPT ![g] = built.allocsize]
        /\ pc' = [pc EXCEPT ![g] = "first"]
        /\ UNCHANGED <<gcroot_list, next, first, old, readerVars>>

\* register_gcroot: the first root is the head of the list for good.
LoadFirst(g) ==
    /\ pc[g] = "first"
    /\ first' = [first EXCEPT ![g] = gcroot_list]
    /\ pc' = [pc EXCEPT ![g] = IF gcroot_list = Null THEN "swap first" ELSE "old"]
    /\ UNCHANGED <<gcroot_list, next, rootVars, old, readerVars>>

SwapFirst(g) ==
    /\ pc[g] = "swap first"
    /\ IF gcroot_list = Null
         THEN /\ gcroot_list' = g
              /\ pc' = [pc EXCEPT ![g] = "done"]
              /\ UNCHANGED first
         ELSE /\ first' = [first EXCEPT ![g] = gcroot_list]
              /\ pc' = [pc EXCEPT ![g] = "old"]
              /\ UNCHANGED gcroot_list
    /\ UNCHANGED <<next, rootVars, old, readerVars>>

\* Every other root goes behind it.
LoadOld(g) ==
    /\ pc[g] = "old"
    /\ old' = [old EXCEPT ![g] = next[first[g]]]
    /\ next' = [next EXCEPT ![g] = next[first[g]]]
    /\ pc' = [pc EXCEPT ![g] = "swap next"]
    /\ UNCHANGED <<gcroot_list, rootVars, first, readerVars>>

\* A plain store instead of the compare-and-swap.
AnyOld(g) == TRUE
MayLink(g) == next[first[g]] = old[g]
SwapNext(g) ==
    /\ pc[g] = "swap next"
    /\ IF MayLink(g)
         THEN /\ next' = [next EXCEPT ![first[g]] = g]
              /\ pc' = [pc EXCEPT ![g] = "done"]
         ELSE /\ pc' = [pc EXCEPT ![g] = "old"]
              /\ UNCHANGED next
    /\ UNCHANGED <<gcroot_list, rootVars, first, old, readerVars>>

\* sml_gcroot_unload: two plain stores, in an order the compiler may choose.
UnloadPoints(g) ==
    /\ g \in Unloadable /\ pc[g] \in {"done", "no tops"}
    /\ num_points' = [num_points EXCEPT ![g] = 0]
    /\ pc' = [pc EXCEPT ![g] = IF @ = "done" THEN "no points" ELSE "unloaded"]
    /\ UNCHANGED <<gcroot_list, next, item, num_tops, allocsize, first, old, readerVars>>

UnloadTops(g) ==
    /\ g \in Unloadable /\ pc[g] \in {"done", "no points"}
    /\ num_tops' = [num_tops EXCEPT ![g] = 0]
    /\ pc' = [pc EXCEPT ![g] = IF @ = "done" THEN "no tops" ELSE "unloaded"]
    /\ UNCHANGED <<gcroot_list, next, item, num_points, allocsize, first, old, readerVars>>
------------------------------------------------------------------------------
(* Reading                                                                   *)

\* The programs that are loaded and stay loaded.
Loaded == {g \in Roots \ Unloadable : pc[g] = "done"}
PointsOf(g) == {x \in UNION {ToSet(Program[g][k]) : k \in DOMAIN Program[g]} : ~IsTop(x)}
TopsOf(g)   == {x \in UNION {ToSet(Program[g][k]) : k \in DOMAIN Program[g]} : IsTop(x)}

\* The right half without its first item.
SearchSkips(items, len, key) ==
    LET search[l \in 0..len, r \in 0..len] ==
            LET c == (l + r) \div 2 IN
            IF l >= r THEN Null
            ELSE IF items[c + 1].addr = key THEN c + 1
            ELSE IF items[c + 1].addr < key THEN search[c + 1, r]
            ELSE search[l, IF c = 0 THEN 0 ELSE c - 1]
    IN  search[0, len]

\* The loop of binary_search over the first len items.
binary_search(items, len, key) ==
    LET search[l \in 0..len, r \in 0..len] ==
            LET c == (l + r) \div 2 IN
            IF l >= r THEN Null
            ELSE IF items[c + 1].addr = key THEN c + 1
            ELSE IF items[c + 1].addr < key THEN search[c + 1, r]
            ELSE search[l, c]
    IN  search[0, len]

\* sml_lookup_frametable for a return address of a loaded program.
StartLookup(r, addr) ==
    /\ mode[r] = "idle"
    /\ \E g \in Loaded : \E x \in PointsOf(g) : x.addr = addr
    /\ mode' = [mode EXCEPT ![r] = "lookup"]
    /\ at' = [at EXCEPT ![r] = gcroot_list]
    /\ goal' = [goal EXCEPT ![r] = {addr}]
    /\ seen' = [seen EXCEPT ![r] = {}]
    /\ UNCHANGED <<gcroot_list, next, rootVars, loaderVars, tops, i>>

Lookup(r) ==
    LET g == at[r]
        hit == binary_search(item[g], num_points[g], CHOOSE a \in goal[r] : TRUE)
    IN  /\ mode[r] = "lookup"
        /\ IF g = Null
             THEN mode' = [mode EXCEPT ![r] = "lookup failed"] /\ UNCHANGED <<at, seen>>
           ELSE IF hit = Null
             THEN at' = [at EXCEPT ![r] = next[g]] /\ UNCHANGED <<mode, seen>>
           ELSE /\ seen' = [seen EXCEPT ![r] = {item[g][hit].layout}]
                /\ mode' = [mode EXCEPT ![r] = "found"]
                /\ UNCHANGED at
        /\ UNCHANGED <<gcroot_list, next, rootVars, loaderVars, tops, i, goal>>

EndLookup(r) ==
    /\ mode[r] = "found"
    /\ mode' = [mode EXCEPT ![r] = "idle"]
    /\ goal' = [goal EXCEPT ![r] = {}]
    /\ seen' = [seen EXCEPT ![r] = {}]
    /\ UNCHANGED <<gcroot_list, next, rootVars, loaderVars, at, tops, i>>

\* sml_global_enum_ptr: the outer loop; TOPS(p) is taken from num_points once.
StartEnum(r) ==
    /\ mode[r] = "idle"
    /\ mode' = [mode EXCEPT ![r] = "enum"]
    /\ at' = [at EXCEPT ![r] = gcroot_list]
    /\ goal' = [goal EXCEPT ![r] = UNION {TopsOf(g) : g \in Loaded}]
    /\ seen' = [seen EXCEPT ![r] = {}]
    /\ UNCHANGED <<gcroot_list, next, rootVars, loaderVars, tops, i>>

EnterRoot(r) ==
    LET g == at[r] IN
    /\ mode[r] = "enum"
    /\ IF g = Null
         THEN mode' = [mode EXCEPT ![r] = "enumerated"] /\ UNCHANGED <<tops, i>>
         ELSE /\ mode' = [mode EXCEPT ![r] = "tops"]
              /\ tops' = [tops EXCEPT ![r] = num_points[g]]
              /\ i' = [i EXCEPT ![r] = 0]
    /\ UNCHANGED <<gcroot_list, next, rootVars, loaderVars, at, seen, goal>>

\* The inner loop reads num_tops every time round.
EnumTop(r) ==
    LET g == at[r] IN
    /\ mode[r] = "tops"
    /\ IF i[r] < num_tops[g]
         THEN /\ seen' = [seen EXCEPT ![r] = @ \cup {item[g][tops[r] + i[r] + 1]}]
              /\ i' = [i EXCEPT ![r] = @ + 1]
              /\ UNCHANGED <<at, mode>>
         ELSE /\ at' = [at EXCEPT ![r] = next[g]]
              /\ mode' = [mode EXCEPT ![r] = "enum"]
              /\ UNCHANGED <<seen, i>>
    /\ UNCHANGED <<gcroot_list, next, rootVars, loaderVars, tops, goal>>

EndEnum(r) ==
    /\ mode[r] = "enumerated"
    /\ mode' = [mode EXCEPT ![r] = "idle"]
    /\ goal' = [goal EXCEPT ![r] = {}]
    /\ seen' = [seen EXCEPT ![r] = {}]
    /\ tops' = [tops EXCEPT ![r] = 0]
    /\ i' = [i EXCEPT ![r] = 0]
    /\ UNCHANGED <<gcroot_list, next, rootVars, loaderVars, at>>

Addresses == {x.addr : x \in UNION {PointsOf(g) : g \in Roots}}

Next ==
    \/ \E g \in Roots : \/ sml_gcroot_load(g) \/ LoadFirst(g) \/ SwapFirst(g)
                        \/ LoadOld(g) \/ SwapNext(g)
                        \/ UnloadPoints(g) \/ UnloadTops(g)
    \/ \E r \in Readers : \/ \E addr \in Addresses : StartLookup(r, addr)
                          \/ Lookup(r) \/ EndLookup(r)
                          \/ StartEnum(r) \/ EnterRoot(r) \/ EnumTop(r) \/ EndEnum(r)

Spec == Init /\ [][Next]_vars
------------------------------------------------------------------------------
RECURSIVE ListFrom(_)
ListFrom(g) == IF g = Null THEN {} ELSE {g} \cup ListFrom(next[g])

\* The counts of a root tell its items apart, and they fit its allocation.
TypeOK ==
    \A g \in Roots : pc[g] # "load" /\ g \notin Unloadable =>
        /\ num_points[g] + num_tops[g] = Len(item[g])
        /\ HeaderSize + Len(item[g]) <= allocsize[g]
        /\ \A k \in 1..Len(item[g]) : IsTop(item[g][k]) <=> k > num_points[g]

\* No root is lost to another loader's registration at the same time.
NoRootLost == {g \in Roots : pc[g] \in {"done", "no points", "no tops", "unloaded"}} = ListFrom(gcroot_list)

\* A worker finds the frame layout of every return address of a program whose
\* loading has been completed, whatever is being loaded and unloaded meanwhile.
LookupFinds ==
    \A r \in Readers :
        /\ mode[r] # "lookup failed"
        /\ mode[r] = "found" =>
              \A l \in seen[r] : \A a \in goal[r] : \E g \in Roots : [addr |-> a, layout |-> l] \in PointsOf(g)

\* An enumeration meets all toplevel objects of the programs that were loaded
\* before it and stay.
EnumeratesAll == \A r \in Readers : mode[r] = "enumerated" => goal[r] \subseteq seen[r]

\* The assertion of sml_global_enum_ptr: what it takes for toplevel objects is that.
OnlyTops == \A r \in Readers : mode[r] \in {"tops", "enum", "enumerated"} => \A x \in seen[r] : IsTop(x)
==============================================================================
