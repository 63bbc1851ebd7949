------------------------------ MODULE Callbacks ------------------------------
(* The callback table of src/runtime/callback.c and the code the compiler    *)
(* generates to turn an ML function into a C function pointer.               *)
(*                                                                           *)
(* A callback is a code address with a closure environment.  The table is a  *)
(* search tree keyed by code address and count; the items of one code        *)
(* address are chained in the order they were made.  The table is changed    *)
(* under callbacks_lock; the trampoline of an item is made by the thread     *)
(* that first finds the item without one, outside the lock.                  *)
EXTENDS Integers, Sequences, FiniteSets, SequencesExt

CONSTANTS Threads,       \* ML threads that export functions
          Codes,         \* code addresses
          Envs,          \* closure environment objects
          Content,       \* what an environment holds: sml_obj_equal compares that
          PerPage,       \* trampolines in a page: pagesize / TRAMPOLINE_SIZE
          MaxExports     \* bound: exports a thread performs

CallbackConstants == PerPage \in Nat \ {0} /\ MaxExports \in Nat /\ Content \in [Envs -> Envs]

VARIABLES items,         \* callback_closures: what is stored under <<code, count>>
          base, end,     \* trampoline_heap, in trampolines; mmap gives the pages one after the other
          ready,         \* trampolines that llvm.init.trampoline has filled: addr -> item
          pc, call,      \* each thread: its place and its local variables
          got,           \* the function pointers threads were given: <<code, content, pointer, was ready, thread>>
          seen           \* environments the last enumeration of the roots met

vars == <<items, base, end, ready, pc, call, got, seen>>

Null == 0
Keys == Codes \X (0 .. Cardinality(Envs) - 1)
sml_obj_equal(e1, e2) == Content[e1] = Content[e2]
NoKey == << >>                   \* no item
NoCall == [code |-> Null, env |-> Null, item |-> NoKey, tramp |-> Null]

Init ==
    /\ items = [k \in {} |-> Null]
    /\ base = 0 /\ end = 0
    /\ ready = [a \in {} |-> Null]
    /\ pc = [t \in Threads |-> "ml"]
    /\ call = [t \in Threads |-> NoCall]
    /\ got = {}
    /\ seen = {}

\* The items of a code address from a key on, along "next".
RECURSIVE Chain(_)
Chain(key) == IF items[key].next = NoKey THEN <<key>> ELSE <<key>> \o Chain(items[key].next)

\* Looking only at the head of the chain.
HitFirstOnly(chain, env) == {i \in {1} : chain # << >> /\ sml_obj_equal(env, items[chain[i]].env)}

\* The items of the chain with an equivalent environment.
Hits(chain, env) == {i \in 1..Len(chain) : sml_obj_equal(env, items[chain[i]].env)}

\* A count one too high: the first item of a code is not found again.
KeyBeyond(code, chain) == <<code, Len(chain) + 1>>

\* The count of a new item: one more than that of the last one met.
NewKey(code, chain) == <<code, Len(chain)>>

\* sml_find_callback, all of it under callbacks_lock.
sml_find_callback(t, code, env) ==
    LET chain == IF <<code, 0>> \in DOMAIN items THEN Chain(<<code, 0>>) ELSE << >>
        hits  == Hits(chain, env)
        key   == NewKey(code, chain)
        fresh == [env |-> env, tramp |-> Null, next |-> NoKey]
        linked == [k \in DOMAIN items |->
                     IF chain # << >> /\ k = chain[Len(chain)] THEN [items[k] EXCEPT !.next = key] ELSE items[k]]
    IN  /\ pc[t] = "ml"
        /\ Cardinality({g \in got : g[5] = t}) < MaxExports
        /\ IF hits # {}
             THEN /\ call' = [call EXCEPT ![t] = [code |-> code, env |-> env, item |-> chain[Min(hits)], tramp |-> Null]]
                  /\ UNCHANGED items
             ELSE /\ call' = [call EXCEPT ![t] = [code |-> code, env |-> env, item |-> key, tramp |-> Null]]
                  /\ items' = [k \in DOMAIN items \cup {key} |-> IF k = key THEN fresh ELSE linked[k]]
        /\ pc' = [pc EXCEPT ![t] = "load"]
        /\ UNCHANGED <<base, end, ready, got, seen>>

\* Compiled code: the trampoline of the item, if it has one.
LoadTrampoline(t) ==
    LET p == items[call[t].item].tramp IN
    /\ pc[t] = "load"
    /\ call' = [call EXCEPT ![t].tramp = p]
    /\ pc' = [pc EXCEPT ![t] = IF p = Null THEN "alloc" ELSE "return"]
    /\ UNCHANGED <<items, base, end, ready, got, seen>>

\* One trampoline too many in a page.
PageOverrun == end - base < 0

\* There is no room for one more trampoline in the page.
NeedsPage == end - base < 1

\* sml_alloc_code, under callbacks_lock.
sml_alloc_code(t) ==
    LET p == IF NeedsPage THEN end ELSE base
    IN  /\ pc[t] = "alloc"
        /\ call' = [call EXCEPT ![t].tramp = p + 1]
        /\ base' = p + 1
        /\ end' = IF NeedsPage THEN end + PerPage ELSE end
        /\ pc' = [pc EXCEPT ![t] = "store"]
        /\ UNCHANGED <<items, ready, got, seen>>

\* Compiled code stores the new trampoline into the item ...
StoreTrampoline(t) ==
    /\ pc[t] = "store"
    /\ items' = [items EXCEPT ![call[t].item].tramp = call[t].tramp]
    /\ pc' = [pc EXCEPT ![t] = "init"]
    /\ UNCHANGED <<base, end, ready, call, got, seen>>

\* ... and then fills it with a jump to the code of the item.
InitTrampoline(t) ==
    LET p == call[t].tramp IN
    /\ pc[t] = "init"
    /\ ready' = [a \in DOMAIN ready \cup {p} |-> IF a = p THEN call[t].item ELSE ready[a]]
    /\ pc' = [pc EXCEPT ![t] = "return"]
    /\ UNCHANGED <<items, base, end, call, got, seen>>

Return(t) ==
    LET p == call[t].tramp IN
    /\ pc[t] = "return"
    /\ got' = got \cup {<<call[t].code, Content[call[t].env], p, p \in DOMAIN ready, t>>}
    /\ call' = [call EXCEPT ![t] = NoCall]
    /\ pc' = [pc EXCEPT ![t] = "ml"]
    /\ UNCHANGED <<items, base, end, ready, seen>>

\* The environment of the first item of a code only.
TracedHead(key) == IF key[2] = 0 THEN {items[key].env} ELSE {}

\* trace_each: the environments from one item on.
Traced(key) == {items[k].env : k \in ToSet(Chain(key))}

\* sml_callback_enum_ptr, under callbacks_lock.
sml_callback_enum_ptr ==
    /\ seen' = UNION {Traced(k) : k \in DOMAIN items}
    /\ UNCHANGED <<items, base, end, ready, pc, call, got>>

Next ==
    \/ \E t \in Threads :
          \/ \E code \in Codes, env \in Envs : sml_find_callback(t, code, env)
          \/ LoadTrampoline(t) \/ sml_alloc_code(t) \/ StoreTrampoline(t)
          \/ InitTrampoline(t) \/ Return(t)
    \/ sml_callback_enum_ptr

Spec == Init /\ [][Next]_vars
------------------------------------------------------------------------------
Calling(t) == pc[t] \in {"store", "init"}

\* Every item, link and local variable is of its kind.
TypeOK ==
    /\ DOMAIN items \subseteq Keys
    /\ \A k \in DOMAIN items : items[k].env \in Envs /\ items[k].next \in DOMAIN items \cup {NoKey}
    /\ base <= end
    /\ \A t \in Threads : pc[t] # "ml" => call[t].item \in DOMAIN items

\* A callback is in the table once: whatever threads export at the same time,
\* no two items have the same code and equivalent environments, and an item
\* once handed out keeps its code and environment.
OneItem ==
    /\ \A k1, k2 \in DOMAIN items :
          k1[1] = k2[1] /\ sml_obj_equal(items[k1].env, items[k2].env) => k1 = k2
    /\ \A t \in Threads : pc[t] # "ml" =>
          /\ call[t].item[1] = call[t].code
          /\ sml_obj_equal(items[call[t].item].env, call[t].env)

\* The items of a code are chained without a gap from count 0, so that the
\* search that follows "next" meets all of them.
ChainWhole ==
    \A k \in DOMAIN items :
        /\ <<k[1], 0>> \in DOMAIN items
        /\ k \in ToSet(Chain(<<k[1], 0>>))

\* No trampoline is handed out twice: a function pointer in C's hands never
\* becomes the pointer of another callback.
OwnTrampoline ==
    /\ \A g1, g2 \in got : g1[3] = g2[3] => g1[1] = g2[1] /\ g1[2] = g2[2]
    /\ \A t1, t2 \in Threads : Calling(t1) /\ Calling(t2) /\ call[t1].tramp = call[t2].tramp => t1 = t2

\* The collector meets the environment of every callback that C code can call.
EnvironmentsSeen ==
    [][sml_callback_enum_ptr => \A k \in DOMAIN items : items[k].env \in seen']_vars

\* Two exports of the same code with equivalent environments are the same callback.
IdenticalCallbacks == \A g1, g2 \in got : g1[1] = g2[1] /\ g1[2] = g2[2] => g1[3] = g2[3]

\* A callback has a trampoline code when its pointer is given out.
HasTrampolineCode == \A g \in got : g[4]
==============================================================================
