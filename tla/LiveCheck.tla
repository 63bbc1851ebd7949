------------------------------ MODULE LiveCheck ------------------------------
(***************************************************************************)
(* The naive tracer of src/runtime/livecheck.c, a debugging aid for the     *)
(* collectors: it visits everything reachable and remembers for every       *)
(* object where it was met first.                                           *)
(***************************************************************************)
EXTENDS Integers, Sequences, FiniteSets, SequencesExt

CONSTANTS Objs,      \* the objects, numbers
          Slots,     \* the pointer slots of an object
          SkipObjs,  \* the objects that may have OBJ_FLAG_SKIP
          GlobalObjs, EnvObjs, StackObjs,  \* the objects that may be roots of each kind
          Null,
          GlobalRoot \* global_root

LiveConstants == Objs \subseteq Nat /\ Slots \subseteq Nat /\ {Null, GlobalRoot} \cap Objs = {}

VARIABLES field, skip,          \* the heap: field[o][k], OBJ_FLAG_SKIP
          globals, env, stack,  \* the slots of the three kinds of roots
          user,                 \* whether a user was given
          tree,                 \* tree[o] for o in its domain: where o was met, from which parent
          top, parent,          \* struct sml_livecheck; the list from top is a sequence
          pc

heapVars == <<field, skip, globals, env, stack, user>>
vars == <<heapVars, tree, top, parent, pc>>

Init ==
    /\ field \in [Objs -> [Slots -> Objs \cup {Null}]]
    /\ skip \in SUBSET SkipObjs
    /\ globals \in GlobalObjs \cup {Null}
    /\ env \in EnvObjs \cup {Null}
    /\ stack \in StackObjs \cup {Null}
    /\ user \in BOOLEAN
    /\ tree = << >> /\ top = << >> /\ parent = Null
    /\ pc = "global"

\* An object is put on the list again whenever it is met.
MarksAgain(s, at, obj, from) ==
    IF obj = Null THEN s
    ELSE [tree |-> [o \in DOMAIN s.tree \cup {obj} |->
                       IF o = obj THEN [at |-> at, parent |-> from] ELSE s.tree[o]],
          top |-> <<obj>> \o s.top]

\* livecheck_mark of a slot "at" that holds obj.
livecheck_mark(s, at, obj, from) ==
    IF obj = Null \/ obj \in DOMAIN s.tree THEN s
    ELSE [tree |-> [o \in DOMAIN s.tree \cup {obj} |->
                       IF o = obj THEN [at |-> at, parent |-> from] ELSE s.tree[o]],
          top |-> <<obj>> \o s.top]

State == [tree |-> tree, top |-> top]
Become(s) == tree' = s.tree /\ top' = s.top

\* livecheck_trace: sml_global_enum_ptr and sml_callback_enum_ptr ...
TraceGlobal ==
    /\ pc = "global"
    /\ parent' = GlobalRoot
    /\ Become(livecheck_mark(livecheck_mark(State, <<"global">>, globals, GlobalRoot), <<"env">>, env, GlobalRoot))
    /\ pc' = IF user THEN "stack" ELSE "loop"
    /\ UNCHANGED heapVars

\* ... sml_stack_enum_ptr, with no parent ...
TraceStack ==
    /\ pc = "stack"
    /\ parent' = Null
    /\ Become(livecheck_mark(State, <<"stack">>, stack, Null))
    /\ pc' = "loop"
    /\ UNCHANGED heapVars

\* Objects with the flag are looked into as well.
Always(o) == TRUE
LooksInto(o) == o \notin skip

\* The list goes on only behind an object that is looked into.
RestIfTraced(o) == IF o \in skip THEN top ELSE Tail(top)
Rest(o) == Tail(top)

\* ... and the loop over the list.
TraceTop ==
    /\ pc = "loop" /\ top # << >>
    /\ parent' = Head(top)
    /\ LET o == Head(top)
           popped == [tree |-> tree, top |-> Rest(o)]
           Mark(s, k) == livecheck_mark(s, <<o, k>>, field[o][k], o)
       IN  Become(IF LooksInto(o) THEN FoldLeft(Mark, popped, SetToSortSeq(Slots, <)) ELSE popped)
    /\ UNCHANGED <<heapVars, pc>>

TraceDone ==
    /\ pc = "loop" /\ top = << >>
    /\ pc' = "done"
    /\ UNCHANGED <<heapVars, tree, top, parent>>

Next == TraceGlobal \/ TraceStack \/ TraceTop \/ TraceDone

\* The tracer is a sequential procedure: it takes its next step.
Spec == Init /\ [][Next]_vars /\ WF_vars(Next)

\* sml_livecheck_print_parents: the objects it prints for o; a parent that is
\* global_root has no parent of its own.  At most n of them.
Printed(o, n) ==
    LET chain[k \in 0..n, x \in Objs \cup {Null, GlobalRoot}] ==
          IF k = 0 \/ x \notin DOMAIN tree THEN <<x>> ELSE <<x>> \o chain[k - 1, tree[x].parent]
    IN  chain[n, o]
------------------------------------------------------------------------------
TypeOK ==
    /\ DOMAIN tree \subseteq Objs
    /\ \A o \in DOMAIN tree : tree[o].parent \in DOMAIN tree \cup {Null, GlobalRoot}
    /\ \A n \in DOMAIN top : top[n] \in DOMAIN tree
    /\ Len(top) <= Cardinality(Objs)

\* The objects reachable from the roots without a look into those that are
\* managed by something other than the collector.
RootObjs == ({globals, env} \cup IF user THEN {stack} ELSE {}) \ {Null}
Pointed(S) == UNION {{field[o][k] : k \in Slots} : o \in S \ skip} \ {Null}
Reachable ==
    LET reach[n \in 0..Cardinality(Objs)] ==
          IF n = 0 THEN RootObjs ELSE LET R == reach[n - 1] IN R \cup Pointed(R)
    IN  reach[Cardinality(Objs)]

\* When the tracer is done, sml_livecheck_each passes on exactly the reachable
\* objects.
VisitsReachable == pc = "done" => DOMAIN tree = Reachable

\* sml_livecheck_at and sml_livecheck_parent tell the truth: the slot holds the
\* object and belongs to the parent, and from parent to parent one comes to a
\* root, so that sml_livecheck_print_parents ends.
ParentsLeadToRoot ==
    \A o \in DOMAIN tree :
        LET t == tree[o] IN
        /\ CASE t.at = <<"global">> -> globals = o /\ t.parent = GlobalRoot
             [] t.at = <<"env">>    -> env = o /\ t.parent = GlobalRoot
             [] t.at = <<"stack">>  -> stack = o /\ user /\ t.parent = Null
             [] OTHER -> t.at[1] = t.parent /\ field[t.parent][t.at[2]] = o /\ t.parent \notin skip
        /\ Last(Printed(o, Cardinality(Objs))) \in {Null, GlobalRoot}

\* The loop comes to an end, on cyclic structures too.
TraceEnds == <>(pc = "done")
==============================================================================
