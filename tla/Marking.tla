------------------------------ MODULE Marking ------------------------------
(***************************************************************************)
(* Marking and reclaiming in heap_concurrent.c.                            *)
(*                                                                         *)
(* The mutators run while the collector traces what was reachable when     *)
(* each of them took its snapshot (SYNC2).  A write barrier remembers what *)
(* a store overwrites, and from SYNC1 to SYNC2 also what it stores.        *)
(* Tracing is over when every worker has traced and every remembered set   *)
(* is empty.  Each worker then reclaims its own objects.                   *)
(*                                                                         *)
(* The rounds are those of GCPhases, which Handshake implements; the       *)
(* signal reaches the workers one by one (phase).  Every step is one       *)
(* access to memory that other threads share, with the local work around   *)
(* it.  A worker outside ML code is acted for by a helper; since its own   *)
(* thread then rests, that is the same as acting for itself.               *)
(***************************************************************************)
EXTENDS SyncPhases, FiniteSets, GCPhases

CONSTANTS Objs,      \* the blocks of the heap
          Global,    \* a reference cell among the global variables
          Nil,       \* NULL
          Home,      \* the worker whose segment a block is in
          Heap0,     \* bound: the heap the behaviours start with
          Members0,  \* bound: the workers registered at the start
          Finalize0, \* bound: the blocks given a finalizer at the start
          Program,   \* bound: the operations the mutators use
          MaxGC,     \* bound: collections in a behaviour
          MaxOps     \* bound: operations in a behaviour; 0 for no bound

ASSUME ConstantsDiffer ==
  /\ Nil \notin Objs \cup Workers \cup {Global} /\ Global \notin Objs
  /\ Members0 # {} /\ Members0 \subseteq Workers
ASSUME HomeType == Home \in [Objs -> Workers]
ASSUME Heap0Type == Heap0 \in [Objs \cup {Global} -> Objs \cup {Nil}]
ASSUME Heap0Owned == \A x \in Objs \cup {Global} : Heap0[x] \in Objs =>
                        Home[Heap0[x]] \in Members0

VARIABLES
  field,       \* the pointer in each block, and in the global variable
  allocated,   \* the blocks in use
  target,      \* the blocks visit considers: bit in bitmap[0], or below
               \* allocptr_snapshot; mseg->bit for a malloc segment
  mark,        \* collect_bitmap, or mseg->collect_bit
  finset,      \* the blocks with a finalizer that has not run
  phase,       \* PHASE(worker->state)
  genum,       \* the worker with GLOBALENUM_FLAG, or Nil
  roots,       \* the pointers in the stack frames of each worker's user
  unsent,      \* the workers change_phase has still to signal
  gray,        \* alloc->root_set, and the stack of trace
  remembered,  \* alloc->remembered_set
  pc, op,      \* the next step of each worker, and its locals
  look,        \* locals of sml_heap_mark_finish
  gc, ops,     \* bounds
  missed       \* history: the ways in which a barrier has missed an object

control == <<members, round, waiting, unsent, phase, genum, look, gc>>
objects == <<field, allocated, target>>
sets    == <<gray, remembered, finset>>
frames  == <<roots, pc, op>>
vars == <<members, round, waiting, unsent, phase, genum, look, gc, field, allocated,
          target, mark, gray, remembered, finset, roots, pc, op, ops, missed>>

\* The steps of sml_write and sml_cmpswap after the first.
Writing == {"barrier", "visitnew", "pushnew", "visitold", "pushold", "store",
            "return"}

Ptr  == Objs \cup {Nil}
Cell == Objs \cup {Global}
NoOp   == [obj |-> Nil, old |-> Nil, new |-> Nil, cas |-> FALSE]
NoLook == [c1 |-> {}, left |-> {}, pass |-> 0, busy |-> FALSE]

Init ==
  /\ members = Members0 /\ round = ASYNC /\ waiting = {} /\ unsent = {}
  /\ phase = [w \in Workers |-> ASYNC] /\ genum = Nil
  /\ field = Heap0
  /\ allocated = {o \in Objs : \E x \in Cell : Heap0[x] = o}
  /\ target = allocated /\ mark = {} /\ finset = Finalize0
  /\ roots = [w \in Workers |-> {}]
  /\ gray = [w \in Workers |-> {}] /\ remembered = [w \in Workers |-> {}]
  /\ pc = [w \in Workers |-> "run"] /\ op = [w \in Workers |-> NoOp]
  /\ look = NoLook
  /\ gc = 0 /\ ops = 0 /\ missed = {}

Goto(w, label) == pc' = [pc EXCEPT ![w] = label]

-----------------------------------------------------------------------------
(* visit: test-and-set of the collect bit.                                  *)

\* Mutant: the bit is set without testing it.
VisitsAgain(o) == o \in target

\* visit(o) returns a stack slot.
Visits(o) == o \in target \ mark

\* The owner of o has reclaimed and cleared its collect bits.
Late(o) == round = ASYNC /\ phase[Home[o]] = ASYNC

\* visit(o) by a write barrier.  A thread that has not answered ASYNC yet may
\* mark a block whose owner has, and nobody will clear that bit.
BarrierVisit(o) ==
  /\ mark' = IF Visits(o) THEN mark \cup {o} ELSE mark
  /\ missed' = IF Visits(o) /\ Late(o) THEN missed \cup {"late"} ELSE missed

-----------------------------------------------------------------------------
(* Mutators, in ML code.                                                    *)

\* The next operation of w.
Does(w, name) ==
  /\ w \in members /\ pc[w] = "run" /\ name \in Program
  /\ IF MaxOps = 0 THEN UNCHANGED ops ELSE ops < MaxOps /\ ops' = ops + 1

\* Mutant: the phase is compared with SYNC2 instead of PRESYNC2.
TargetInSync2(w, o) == IF phase[w] \in ASYNC..SYNC2 THEN {o} ELSE {}

\* A block allocated by w is a target until w has taken its snapshot.
NewTarget(w, o) == IF BeforeSnapshot(phase[w]) THEN {o} ELSE {}

\* sml_alloc, and the initialisation of the object before the next poll.
Alloc(w, o, v) ==
  /\ Does(w, "alloc")
  /\ o \notin allocated /\ Home[o] = w /\ v \in roots[w] \cup {Nil}
  /\ allocated' = allocated \cup {o}
  /\ target' = (target \ {o}) \cup NewTarget(w, o)
  /\ field' = [field EXCEPT ![o] = v]
  /\ roots' = [roots EXCEPT ![w] = @ \cup {o}]
  /\ UNCHANGED <<control, mark, sets, pc, op, missed>>

Load(w, x) ==
  /\ Does(w, "load")
  /\ x \in roots[w] \cup {Global} /\ field[x] # Nil
  /\ roots' = [roots EXCEPT ![w] = @ \cup {field[x]}]
  /\ UNCHANGED <<control, objects, mark, sets, pc, op, missed>>

Drop(w, o) ==
  /\ Does(w, "drop")
  /\ o \in roots[w]
  /\ roots' = [roots EXCEPT ![w] = @ \ {o}]
  /\ UNCHANGED <<control, objects, mark, sets, pc, op, missed>>

\* sml_write(x, v): the overwritten value is loaded first.
Write(w, x, v) ==
  /\ Does(w, "write")
  /\ x \in roots[w] \cup {Global} /\ v \in roots[w] \cup {Nil}
  /\ op' = [op EXCEPT ![w] = [obj |-> x, old |-> field[x], new |-> v,
                              cas |-> FALSE]]
  /\ Goto(w, "barrier")
  /\ UNCHANGED <<control, objects, mark, sets, roots, missed>>

\* sml_cmpswap(x, e, v): the barrier follows the swap.
CmpSwap(w, x, e, v) ==
  /\ Does(w, "cmpswap")
  /\ x \in roots[w] \cup {Global} /\ {e, v} \subseteq roots[w] \cup {Nil}
  /\ IF field[x] = e
     THEN /\ field' = [field EXCEPT ![x] = v]
          /\ op' = [op EXCEPT ![w] = [obj |-> x, old |-> e, new |-> v,
                                      cas |-> TRUE]]
          /\ Goto(w, "barrier")
     ELSE UNCHANGED <<field, op, pc>>
  /\ UNCHANGED <<control, allocated, target, mark, sets, roots, missed>>

-----------------------------------------------------------------------------
(* barrier, step by step.                                                   *)

\* After the barrier: sml_write stores, sml_cmpswap is done.
AfterBarrier(w) == IF op[w].cas THEN "return" ELSE "store"

\* Mutant: the new value is only remembered in SYNC2.
BarrierSkipsNew(p) == IF p >= SYNC1 THEN "visitold" ELSE "off"

\* What the phase loaded by barrier makes it do.
BarrierMode(p) == IF p < SYNC1 THEN "off"
                  ELSE IF p <= SYNC2 THEN "visitnew" ELSE "visitold"

Barrier(w) ==
  /\ pc[w] = "barrier"
  /\ Goto(w, IF BarrierMode(phase[w]) = "off" THEN AfterBarrier(w)
             ELSE BarrierMode(phase[w]))
  /\ UNCHANGED <<control, objects, mark, sets, roots, op, ops, missed>>

\* remember(alloc, new_value), remember(alloc, old_value): visit, ...
RememberVisit(w) ==
  /\ pc[w] \in {"visitnew", "visitold"}
  /\ LET new == pc[w] = "visitnew"
         o   == IF new THEN op[w].new ELSE op[w].old
     IN  /\ BarrierVisit(o)
         /\ Goto(w, IF Visits(o)
                    THEN (IF new THEN "pushnew" ELSE "pushold")
                    ELSE (IF new THEN "visitold" ELSE AfterBarrier(w)))
  /\ UNCHANGED <<control, objects, sets, roots, op, ops>>

\* ... then push the object on the worker's own remembered set.
RememberPush(w) ==
  /\ pc[w] \in {"pushnew", "pushold"}
  /\ LET new == pc[w] = "pushnew"
         o   == IF new THEN op[w].new ELSE op[w].old
     IN  /\ remembered' = [remembered EXCEPT ![w] = @ \cup {o}]
         /\ Goto(w, IF new THEN "visitold" ELSE AfterBarrier(w))
  /\ UNCHANGED <<control, objects, mark, gray, finset, roots, op, ops, missed>>

Return(w) == Goto(w, "run") /\ op' = [op EXCEPT ![w] = NoOp]

Store(w) ==
  /\ pc[w] \in {"store", "return"}
  /\ field' = IF pc[w] = "store"
              THEN [field EXCEPT ![op[w].obj] = op[w].new] ELSE field
  /\ Return(w)
  /\ UNCHANGED <<control, allocated, target, mark, sets, roots, ops, missed>>

-----------------------------------------------------------------------------
(* The answers to the signals, between two operations of the mutator.       *)

Accepts(w, r) == pc[w] = "run" /\ w \in waiting /\ phase[w] = Pre(r)
                 /\ round = r

Phase(w, p) == phase' = [phase EXCEPT ![w] = p]

Sync1(w) ==
  /\ Accepts(w, SYNC1)
  /\ Phase(w, SYNC1)
  /\ Respond(w)
  /\ genum' = IF waiting = {w} THEN w ELSE genum
  /\ UNCHANGED <<unsent, look, gc, objects, mark, sets, frames, ops, missed>>

\* Mutant: the stack is not enumerated when it is small.
NoRoots(w) == IF Cardinality(roots[w]) > 1 THEN roots[w] ELSE {}

\* What sml_stack_enum_ptr finds.
StackRoots(w) == roots[w]

\* sml_heap_user_sync2 and sml_heap_worker_sync2.
Sync2(w) ==
  /\ Accepts(w, SYNC2)
  /\ Phase(w, SYNC2)
  /\ LET vs == {o \in StackRoots(w) : Visits(o)} IN
     /\ mark' = mark \cup vs
     /\ gray' = [gray EXCEPT ![w] = @ \cup vs]
  /\ IF genum = w
     THEN Goto(w, "global") /\ UNCHANGED <<members, round, waiting>>
     ELSE Respond(w) /\ UNCHANGED pc
  /\ UNCHANGED <<unsent, genum, look, gc, objects, remembered, finset, roots,
                 op, ops, missed>>

\* sml_heap_global_sync2, by the worker that answered SYNC1 last.
GlobalSync2(w) ==
  /\ pc[w] = "global"
  /\ LET vs == {o \in {field[Global]} : Visits(o)} IN
     /\ mark' = mark \cup vs
     /\ gray' = [gray EXCEPT ![w] = @ \cup vs]
  /\ genum' = Nil
  /\ Goto(w, "run")
  /\ Respond(w)
  /\ UNCHANGED <<unsent, phase, look, gc, objects, remembered, finset, roots,
                 op, ops, missed>>

\* move_all_to_root.
SetTaken(w) == [remembered EXCEPT ![w] = {}]

\* sml_heap_worker_mark: trace the root set and the remembered set.
StartTrace(w) ==
  /\ Accepts(w, MARK)
  /\ Phase(w, MARK)
  /\ gray' = [gray EXCEPT ![w] = @ \cup remembered[w]]
  /\ remembered' = SetTaken(w)
  /\ Goto(w, "trace")
  /\ UNCHANGED <<members, round, waiting, unsent, genum, look, gc, objects,
                 mark, finset, roots, op, ops, missed>>

\* Mutant: the object is traced, and stays on the stack.
TracePeek(w, o) ==
  /\ pc[w] = "trace" /\ o \in gray[w]
  /\ op' = [op EXCEPT ![w] = [NoOp EXCEPT !.old = field[o]]]
  /\ Goto(w, "push")
  /\ UNCHANGED <<control, objects, mark, sets, roots, ops, missed>>

\* Pop an object and load its pointer, ...
TracePop(w, o) ==
  /\ pc[w] = "trace" /\ o \in gray[w]
  /\ gray' = [gray EXCEPT ![w] = @ \ {o}]
  /\ op' = [op EXCEPT ![w] = [obj |-> Nil, old |-> field[o], new |-> Nil,
                              cas |-> FALSE]]
  /\ Goto(w, "push")
  /\ UNCHANGED <<control, objects, mark, remembered, finset, roots, ops, missed>>

\* ... then visit the pointer and push it.
TracePush(w) ==
  /\ pc[w] = "push"
  /\ LET vs == {o \in {op[w].old} : Visits(o)} IN
     /\ mark' = mark \cup vs
     /\ gray' = [gray EXCEPT ![w] = @ \cup vs]
  /\ op' = [op EXCEPT ![w] = NoOp]
  /\ Goto(w, "trace")
  /\ UNCHANGED <<control, objects, remembered, finset, roots, ops, missed>>

TraceEnd(w) ==
  /\ pc[w] = "trace" /\ gray[w] = {}
  /\ Goto(w, "run")
  /\ Respond(w)
  /\ look' = IF waiting = {w}
             THEN [c1 |-> members, left |-> members, pass |-> 1, busy |-> FALSE]
             ELSE look
  /\ UNCHANGED <<unsent, phase, genum, gc, objects, mark, sets, roots, op, ops,
                 missed>>

\* The blocks of w that sml_heap_worker_async gives back.
Garbage(w) == {o \in target \ mark : Home[o] = w}

\* The collect bits cleared by it.
Cleared(w) == {o \in mark : Home[o] = w}

\* sml_heap_worker_async: the survivors, and what was allocated behind the
\* snapshot, are the targets of the next collection.
Async(w) ==
  /\ Accepts(w, ASYNC)
  /\ Phase(w, ASYNC)
  /\ remembered' = [remembered EXCEPT ![w] = {}]
  /\ allocated' = allocated \ Garbage(w)
  /\ target' = (target \ Garbage(w))
               \cup {o \in allocated \ Garbage(w) : Home[o] = w}
  /\ mark' = mark \ Cleared(w)
  /\ Respond(w)
  /\ UNCHANGED <<unsent, genum, look, gc, field, gray, finset, frames, ops,
                 missed>>

-----------------------------------------------------------------------------
(* The coordinator.                                                         *)

\* The signal of the round reaches a worker: change_phase.
Signal(w) ==
  /\ w \in unsent
  /\ unsent' = unsent \ {w}
  /\ Phase(w, Pre(round))
  /\ UNCHANGED <<members, round, waiting, genum, look, gc, objects, mark,
                 sets, frames, ops, missed>>

\* global_phase: a worker that registers from now on is given phase r.
Announce(r) ==
  /\ Begin(r) /\ unsent' = members
  /\ UNCHANGED <<phase, genum, objects, mark, gray, remembered, frames, ops>>

StartGC == /\ round = ASYNC /\ gc < MaxGC
           /\ gc' = gc + 1
           /\ Announce(SYNC1)
           /\ UNCHANGED <<look, finset, missed>>

\* sml_write of w is between its load and its store, and the value it will
\* overwrite is by now another one: a thread without barrier has stored it.
Overtaken(w) ==
  /\ pc[w] \in Writing /\ ~op[w].cas
  /\ field[op[w].obj] \notin {op[w].old, Nil} \cup mark

NextRound ==
  /\ round \in {SYNC1, SYNC2}
  /\ Announce(round + 2)
  /\ missed' = missed \cup (IF round = SYNC1 /\ \E w \in members : Overtaken(w)
                            THEN {"snapshot"} ELSE {})
  /\ UNCHANGED <<gc, look, finset>>

\* A worker is between the visit and the push of remember, or between the
\* swap and the end of the barrier of sml_cmpswap.
InFlight(w) == pc[w] \in {"pushnew", "pushold"} \/ op[w].cas

\* sml_heap_mark_finish finds the remembered set of w empty, in its first or
\* its second look at all of them ...
LookEmpty(w) ==
  /\ w \in look.left /\ remembered[w] = {}
  /\ look' = IF look.left = {w} /\ look.pass = 1
             THEN [c1 |-> look.c1, left |-> look.c1, pass |-> 2,
                   busy |-> \E u \in members : InFlight(u)]
             ELSE [look EXCEPT !.left = @ \ {w}]
  /\ UNCHANGED <<members, round, waiting, unsent, phase, genum, gc, objects,
                 mark, sets, frames, ops, missed>>

\* ... or not: MARK is repeated.
LookAgain(w) ==
  /\ w \in look.left /\ remembered[w] # {}
  /\ look' = NoLook
  /\ Announce(MARK)
  /\ UNCHANGED <<gc, finset, missed>>

\* is_alive: o is no target, or it is marked.
IsAlive(o) == o \notin target \/ o \in mark

\* The set of allocators is compared.  It is the same: tracing is over, and
\* the finalizers of the dead run before ASYNC is announced.
LookDone ==
  /\ look.pass = 2 /\ look.left = {} /\ members = look.c1
  /\ look' = NoLook
  /\ finset' = {o \in finset : IsAlive(o)}
  /\ Announce(ASYNC)
  /\ missed' = missed \cup (IF look.busy THEN {"finish"} ELSE {})
  /\ UNCHANGED gc

\* A worker has registered meanwhile: MARK is repeated.
LookGrown ==
  /\ look.pass = 2 /\ look.left = {} /\ members # look.c1
  /\ look' = NoLook
  /\ Announce(MARK)
  /\ UNCHANGED <<gc, finset, missed>>

\* register_worker: the new worker has answered the current signal.
Register(w) ==
  /\ Join(w)
  /\ Phase(w, round)
  /\ UNCHANGED <<unsent, genum, look, gc, objects, mark, sets, frames, ops,
                 missed>>

-----------------------------------------------------------------------------
Mutator(w) ==
  \/ \E o \in Objs, v \in Ptr : Alloc(w, o, v)
  \/ \E x \in Cell : Load(w, x)
  \/ \E o \in Objs : Drop(w, o)
  \/ \E x \in Cell, v \in Ptr : Write(w, x, v)
  \/ \E x \in Cell, e, v \in Ptr : CmpSwap(w, x, e, v)

\* What a poll between two operations does.
Poll(w) == Sync1(w) \/ Sync2(w) \/ StartTrace(w) \/ Async(w)

Runtime(w) ==
  \/ Barrier(w) \/ RememberVisit(w) \/ RememberPush(w) \/ Store(w)
  \/ GlobalSync2(w) \/ TracePush(w) \/ TraceEnd(w)
  \/ \E o \in Objs : TracePop(w, o)

Coordinator ==
  \/ NextRound \/ LookDone \/ LookGrown
  \/ \E w \in Workers : Signal(w) \/ LookEmpty(w) \/ LookAgain(w)

Next ==
  \/ \E w \in Workers : Mutator(w) \/ Poll(w) \/ Runtime(w) \/ Register(w)
  \/ StartGC \/ Coordinator

Spec == Init /\ [][Next]_vars

-----------------------------------------------------------------------------
\* Every variable has the type of the word or the local it stands for.
TypeOK ==
  /\ field \in [Cell -> Ptr]
  /\ allocated \subseteq Objs /\ target \subseteq Objs /\ mark \subseteq Objs
  /\ phase \in [Workers -> Phases] /\ genum \in Workers \cup {Nil}
  /\ roots \in [Workers -> SUBSET Objs]
  /\ gray \in [Workers -> SUBSET Objs]
  /\ remembered \in [Workers -> SUBSET Objs]
  /\ unsent \subseteq waiting /\ waiting \subseteq members
  /\ members \subseteq Workers
  /\ look.left \subseteq look.c1

\* The pointers that a collection starts from.
Roots == (UNION {roots[w] : w \in members}) \cup ({field[Global]} \ {Nil})

\* What can be reached from them: what every set has that contains them and
\* is closed under the pointers of its objects.
Live == {o \in Objs : \A S \in SUBSET Objs :
           Roots \subseteq S /\ (\A x \in S : field[x] \in S \cup {Nil}) => o \in S}

\* What the mutators can reach is never given back, as long as no barrier
\* misses an object in one of three ways: sml_heap_mark_finish looks while a
\* barrier is between visit and push ("finish"); a store without barrier
\* crosses one with it ("snapshot"); a barrier marks a block whose owner has
\* cleared its bits in ASYNC, and the mark that stays hides the block's
\* children from the next collection ("late").
KeptUnlessMissed == missed = {} => Live \subseteq allocated

\* When sml_heap_mark_finish has returned 1, everything reachable that a
\* worker will look at when it reclaims is marked (same condition).
TracedAtFinish ==
  missed = {} /\ round = ASYNC =>
     \A o \in Live \cap target : phase[Home[o]] # ASYNC => o \in mark

\* Between two collections all collect bits are clear, whatever else a barrier
\* has missed, unless a barrier came late; a bit that is left over would hide
\* an object from the next trace.
CleanUnlessLate == "late" \notin missed /\ round = ASYNC /\ waiting = {} => mark = {}

\* A block is on at most one of the lists linked through its stack slot: the
\* assertions "slot->next == NULL" of push and remember (missed = {}).
OneSlot ==
  missed = {} =>
    /\ \A u, w \in Workers : u # w =>
          (gray[u] \cup remembered[u]) \cap (gray[w] \cup remembered[w]) = {}
    /\ \A w \in Workers : gray[w] \cap remembered[w] = {}

\* sml_run_finalizer finalizes no object that is still in use (missed = {}).
FinalizesDead == [][missed' = {} => (finset \ finset') \cap Live = {}]_vars

\* heap.h on sml_heap_mark_finish: "all the remembered sets are empty and
\* therefore the tracing has finished".
FinishMeansTraced ==
  round = ASYNC =>
     \A o \in Live \cap target : phase[Home[o]] # ASYNC => o \in mark

\* The same sentence, of a finish that meets no barrier in flight.
QuietFinishMeansTraced ==
  round = ASYNC /\ "finish" \notin missed =>
     \A o \in Live \cap target : phase[Home[o]] # ASYNC => o \in mark

\* The comment in get_segment_from_pool: in ASYNC the collect bitmaps of a
\* worker's own segments are clear.  A late barrier sets such a bit again.
CleanInAsync ==
  round = ASYNC =>
     \A o \in Objs : phase[Home[o]] = ASYNC /\ Home[o] \in members
                     => o \notin mark

-----------------------------------------------------------------------------
(* Progress.                                                                *)

\* Threads are scheduled, and every thread polls again and again, although
\* not at every point: the barrier has no poll.
Fairness ==
  /\ WF_vars(Coordinator)
  /\ \A w \in Workers : WF_vars(Runtime(w)) /\ SF_vars(Poll(w))

\* A collection ends, however often MARK is repeated and whatever the
\* mutators write meanwhile.
CollectionEnds == round # ASYNC ~> round = ASYNC /\ waiting = {}
=============================================================================
