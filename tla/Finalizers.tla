----------------------------- MODULE Finalizers ------------------------------
(* The finalizers of src/runtime/finalize.c with the objects that use them:  *)
(* a big integer (sml_intinf_new of object.c) owns memory outside the heap   *)
(* that its finalizer intinf_free gives back.                                *)
(*                                                                           *)
(* Mutators make, share and drop objects.  The collector decides which       *)
(* objects are dead, runs their finalizers one by one under finalizer_lock,  *)
(* and only then lets the heap use their addresses again.                    *)
EXTENDS Integers, FiniteSets

CONSTANTS Mutators,    \* ML threads
          BlockAddrs   \* addresses of blocks in the heap: positive integers

FinalizerConstants == BlockAddrs \subseteq Nat \ {0}

VARIABLES used,        \* blocks with an object in them
          held,        \* held[m]: the objects mutator m can reach
          set,         \* finalizer_set: the objects with a finalizer
          limbs,       \* objects whose big integer has been initialised and not cleared
          dead,        \* what the collection in progress found unmarked
          cursor,      \* sml_run_finalizer: the last item asked
          lock,        \* who holds finalizer_lock
          gc,          \* the collector: idle, marked, finalizing, reclaiming
          pc, obj      \* each mutator: its place in sml_intinf_new and the new object

vars == <<used, held, set, limbs, dead, cursor, lock, gc, pc, obj>>

None == 0
Nobody == "nobody"
Collector == "collector"

Init ==
    /\ used = {} /\ set = {} /\ limbs = {} /\ dead = {} /\ cursor = None
    /\ lock = Nobody /\ gc = "idle"
    /\ held = [m \in Mutators |-> {}]
    /\ pc = [m \in Mutators |-> "ml"]
    /\ obj = [m \in Mutators |-> None]

\* sml_intinf_new: sml_alloc; a new object is alive for the collection in progress.
Alloc(m) ==
    /\ pc[m] = "ml"
    /\ \E a \in BlockAddrs \ used :
          /\ used' = used \cup {a}
          /\ held' = [held EXCEPT ![m] = @ \cup {a}]
          /\ obj' = [obj EXCEPT ![m] = a]
    /\ pc' = [pc EXCEPT ![m] = "set"]
    /\ UNCHANGED <<set, limbs, dead, cursor, lock, gc>>

\* A registration lost when finalizers have run since the last collection.
RegisteredIfIdle(m) == IF cursor = None THEN set \cup {obj[m]} ELSE set
Registered(m) == set \cup {obj[m]}

\* sml_set_finalizer(obj, intinf_free): the tree is searched and changed under the lock.
sml_set_finalizer(m) ==
    /\ pc[m] = "set"
    /\ lock = Nobody
    /\ set' = Registered(m)
    /\ pc' = [pc EXCEPT ![m] = "init"]
    /\ UNCHANGED <<used, held, limbs, dead, cursor, lock, gc, obj>>

\* sml_intinf_init
sml_intinf_init(m) ==
    /\ pc[m] = "init"
    /\ limbs' = limbs \cup {obj[m]}
    /\ pc' = [pc EXCEPT ![m] = "ml"]
    /\ obj' = [obj EXCEPT ![m] = None]
    /\ UNCHANGED <<used, held, set, dead, cursor, lock, gc>>

\* The program: a mutator stores an object where another reads it, or forgets it.
Share(m, n, a) ==
    /\ a \in held[m] \ held[n] /\ a # obj[m]
    /\ held' = [held EXCEPT ![n] = @ \cup {a}]
    /\ UNCHANGED <<used, set, limbs, dead, cursor, lock, gc, pc, obj>>

Drop(m, a) ==
    /\ a \in held[m] /\ a # obj[m]
    /\ held' = [held EXCEPT ![m] = @ \ {a}]
    /\ UNCHANGED <<used, set, limbs, dead, cursor, lock, gc, pc, obj>>

Reachable == UNION {held[m] : m \in Mutators}

\* The marking of the concurrent heap: what is unreachable now is dead.  A
\* mutator answers the handshake between two operations, so none is inside
\* sml_intinf_new with the lock.
FinishMark ==
    /\ gc = "idle"
    /\ dead' = used \ Reachable
    /\ gc' = "marked"
    /\ UNCHANGED <<used, held, set, limbs, cursor, lock, pc, obj>>

\* sml_run_finalizer: mutex_lock
LockFinalizers ==
    /\ gc = "marked"
    /\ lock = Nobody
    /\ lock' = Collector
    /\ cursor' = None
    /\ gc' = "finalizing"
    /\ UNCHANGED <<used, held, set, limbs, dead, pc, obj>>

\* The answer of sml_heap_check_alive the wrong way round.
Refused(a) == a \in dead

\* sml_heap_check_alive asks the mark bit of the block.
Alive(a) == a \notin dead

\* The item sml_tree_reject asks next: the smallest address above the last.
IsNext(a) == a > cursor /\ \A b \in set : b > cursor => a <= b

\* The item stays although its finalizer ran.
KeptAll(a) == set
Kept(a) == set \ {a}

\* each_run for one item: a dead object's finalizer runs and its item goes.
RunNext ==
    \E a \in set :
        /\ gc = "finalizing"
        /\ IsNext(a)
        /\ cursor' = a
        /\ IF Alive(a) THEN UNCHANGED <<set, limbs>>
                       ELSE set' = Kept(a) /\ limbs' = limbs \ {a}
        /\ UNCHANGED <<used, held, dead, lock, gc, pc, obj>>

\* The last item has been asked: sml_tree_rebuild, mutex_unlock.
UnlockFinalizers ==
    /\ gc = "finalizing"
    /\ \A a \in set : a <= cursor
    /\ lock' = Nobody
    /\ gc' = "reclaiming"
    /\ UNCHANGED <<used, held, set, limbs, dead, cursor, pc, obj>>

\* sml_heap_global_before_async and what follows it: the blocks are free again.
Reclaim ==
    /\ gc = "reclaiming"
    /\ used' = used \ dead
    /\ dead' = {}
    /\ cursor' = None
    /\ gc' = "idle"
    /\ UNCHANGED <<held, set, limbs, lock, pc, obj>>

\* sml_finalize_destroy at exit: every finalizer runs.  The other threads
\* have answered the exit and run no ML code, so none is in sml_intinf_new;
\* nothing of the module runs after it.
sml_finalize_destroy ==
    /\ gc = "idle" /\ \A m \in Mutators : pc[m] = "ml"
    /\ limbs' = limbs \ set
    /\ gc' = "destroyed"
    /\ pc' = [m \in Mutators |-> "exited"]
    /\ UNCHANGED <<used, held, set, dead, cursor, lock, obj>>

Next ==
    \/ \E m \in Mutators :
          \/ Alloc(m) \/ sml_set_finalizer(m) \/ sml_intinf_init(m)
          \/ \E a \in BlockAddrs : Drop(m, a) \/ \E n \in Mutators : Share(m, n, a)
    \/ FinishMark \/ LockFinalizers \/ RunNext \/ UnlockFinalizers \/ Reclaim
    \/ sml_finalize_destroy

\* The collector does not stop half way; whether one starts is up to the heap.
Fairness == WF_vars(LockFinalizers \/ RunNext \/ UnlockFinalizers \/ Reclaim)
            /\ \A m \in Mutators : WF_vars(sml_set_finalizer(m) \/ sml_intinf_init(m))

Spec == Init /\ [][Next]_vars
FairSpec == Spec /\ Fairness
------------------------------------------------------------------------------
TypeOK ==
    /\ used \subseteq BlockAddrs /\ set \subseteq used /\ dead \subseteq used
    /\ \A m \in Mutators : obj[m] # None => obj[m] \in held[m]
    /\ lock = Collector <=> gc = "finalizing"

\* What a mutator can reach has its integer: it is cleared by the finalizer
\* only once nobody can reach the object, although objects are dropped, shared
\* and made while the finalizers run.
LiveIntact ==
    \A m \in Mutators : \A a \in held[m] : gc # "destroyed" =>
        a \in limbs \/ \E n \in Mutators : obj[n] = a

\* No integer is forgotten: memory outside the heap belongs to an object that
\* is still registered, so a block is used again only after its finalizer ran
\* and no finalizer ever clears the integer of a later object at the address.
NoLimbsLost == limbs \subseteq set /\ (gc = "destroyed" => limbs = {})

\* A finalizer clears an integer that was initialised, and no integer twice.
ClearsOnce == [][\A a \in set : a \notin set' => a \in limbs /\ a \notin limbs']_vars

\* An object with a finalizer that a collection found dead is finalized.
DeadIsFinalized == \A a \in BlockAddrs : (a \in dead /\ a \in set) ~> (a \notin set)
==============================================================================
