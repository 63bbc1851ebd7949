-------------------------- MODULE FinalizersProofs ---------------------------
(***************************************************************************)
(* Proofs about Finalizers, for any number of threads and addresses.       *)
(*                                                                         *)
(* The invariant follows an object through its life: between sml_alloc and *)
(* sml_intinf_init it is known to one thread only (NewInv), then it has an *)
(* integer as long as it has a finalizer (LimbInv), and a collection that  *)
(* has found it dead comes to it before its block is free (DeadInv).       *)
(***************************************************************************)
EXTENDS Finalizers, TLAPS

\* The types that TypeOK leaves open.
Shape ==
    /\ limbs \subseteq BlockAddrs /\ cursor \in BlockAddrs \cup {None}
    /\ held \in [Mutators -> SUBSET used]
    /\ obj \in [Mutators -> BlockAddrs \cup {None}]
    /\ pc \in [Mutators -> {"ml", "set", "init", "exited"}]
    /\ gc \in {"idle", "marked", "finalizing", "reclaiming", "destroyed"}
    /\ lock \in {Nobody, Collector}

\* A new object: its maker alone can reach it, it is registered from the second
\* step on, and its integer is not there yet.
NewInv ==
    \A m \in Mutators :
        /\ obj[m] = None <=> pc[m] \in {"ml", "exited"}
        /\ pc[m] = "exited" <=> gc = "destroyed"
        /\ obj[m] # None => /\ obj[m] \notin limbs
                            /\ obj[m] \in set <=> pc[m] = "init"
                            /\ \A n \in Mutators \ {m} : obj[m] \notin held[n]

\* Integers and finalizers belong together, except in new objects.
LimbInv ==
    gc # "destroyed" => \A a \in set : a \in limbs \/ \E m \in Mutators : obj[m] = a

\* What a collection found dead stays unreachable, and what the loop of
\* sml_run_finalizer has passed has no finalizer any more.
DeadInv ==
    /\ \A m \in Mutators : held[m] \cap dead = {}
    /\ gc \in {"idle", "destroyed"} => dead = {}
    /\ gc = "finalizing" => \A a \in set \cap dead : a > cursor
    /\ gc = "reclaiming" => set \cap dead = {}

FInv == TypeOK /\ Shape /\ NewInv /\ LimbInv /\ DeadInv /\ LiveIntact /\ NoLimbsLost
------------------------------------------------------------------------------
LEMMA InitInv == Init => FInv
  BY DEF Init, FInv, TypeOK, Shape, NewInv, LimbInv, DeadInv, LiveIntact, NoLimbsLost,
         None, Nobody, Collector

LEMMA AllocInv ==
  ASSUME FinalizerConstants, FInv, NEW m \in Mutators, Alloc(m)
  PROVE  FInv'
<1>1. PICK a \in BlockAddrs \ used :
         /\ used' = used \cup {a}
         /\ held' = [held EXCEPT ![m] = @ \cup {a}]
         /\ obj' = [obj EXCEPT ![m] = a]
         /\ pc[m] = "ml"
         /\ pc' = [pc EXCEPT ![m] = "set"]
         /\ UNCHANGED <<set, limbs, dead, cursor, lock, gc>>
  BY DEF Alloc
<1>2. a # None
  BY DEF FinalizerConstants, None
<1>3. Shape'
  BY <1>1 DEF FInv, Shape
<1>4. TypeOK'
  BY <1>1 DEF FInv, Shape, TypeOK
<1>5. NewInv'
  BY <1>1, <1>2 DEF FInv, Shape, TypeOK, NewInv, NoLimbsLost
<1>6. LimbInv'
  <2>1. obj[m] = None /\ None \notin set
    BY <1>1 DEF FInv, TypeOK, NewInv, FinalizerConstants, None
  <2> SUFFICES ASSUME gc # "destroyed", NEW x \in set, x \notin limbs
               PROVE  \E n \in Mutators : obj'[n] = x
    BY <1>1 DEF LimbInv
  <2>2. PICK n \in Mutators : obj[n] = x
    BY DEF FInv, LimbInv
  <2> QED BY <1>1, <2>1, <2>2 DEF FInv, Shape
<1>7. DeadInv'
  BY <1>1 DEF FInv, Shape, TypeOK, DeadInv
<1>8. LiveIntact'
  <2>1. obj[m] = None /\ \A n \in Mutators : None \notin held[n]
    BY <1>1 DEF FInv, Shape, TypeOK, NewInv, FinalizerConstants, None
  <2> SUFFICES ASSUME gc # "destroyed", NEW k \in Mutators, NEW x \in held[k], x \notin limbs
               PROVE  \E n \in Mutators : obj'[n] = x
    BY <1>1 DEF LiveIntact, FInv, Shape
  <2>2. PICK n \in Mutators : obj[n] = x
    BY DEF FInv, LiveIntact
  <2> QED BY <1>1, <2>1, <2>2 DEF FInv, Shape
<1>9. NoLimbsLost'
  BY <1>1 DEF FInv, NoLimbsLost
<1> QED BY <1>3, <1>4, <1>5, <1>6, <1>7, <1>8, <1>9 DEF FInv

LEMMA SetInv ==
  ASSUME FInv, NEW m \in Mutators, sml_set_finalizer(m)
  PROVE  FInv'
<1> USE DEF sml_set_finalizer, Registered, FInv
<1>1. obj[m] \in BlockAddrs /\ obj[m] # None /\ obj[m] \in held[m]
  BY DEF Shape, NewInv, TypeOK
<1>2. Shape' /\ TypeOK'
  BY <1>1 DEF Shape, TypeOK
<1>3. NewInv'
  BY <1>1 DEF Shape, TypeOK, NewInv
<1>4. LimbInv' /\ LiveIntact' /\ NoLimbsLost'
  BY <1>1 DEF LimbInv, LiveIntact, NoLimbsLost
<1>5. DeadInv'
  BY <1>1 DEF DeadInv, TypeOK, Nobody, Collector
<1> QED BY <1>2, <1>3, <1>4, <1>5

LEMMA InitIntInv ==
  ASSUME FInv, NEW m \in Mutators, sml_intinf_init(m)
  PROVE  FInv'
<1> USE DEF sml_intinf_init, FInv
<1>1. obj[m] \in BlockAddrs /\ obj[m] # None /\ obj[m] \in held[m] /\ obj[m] \in set
  BY DEF Shape, NewInv, TypeOK
<1>2. Shape' /\ TypeOK'
  BY <1>1 DEF Shape, TypeOK
<1>3. \A n \in Mutators \ {m} : obj[n] # None => obj[n] # obj[m]
  BY <1>1 DEF NewInv, TypeOK
<1>4. NewInv'
  BY <1>1, <1>3 DEF Shape, NewInv
<1>5. LimbInv' /\ LiveIntact'
  <2> SUFFICES ASSUME NEW x, x \notin limbs', NEW n \in Mutators, obj[n] = x
               PROVE  \E k \in Mutators : obj'[k] = x
    BY DEF LimbInv, LiveIntact
  <2>1. n # m
    OBVIOUS
  <2> QED BY <2>1 DEF Shape
<1>6. DeadInv' /\ NoLimbsLost'
  BY <1>1 DEF DeadInv, NoLimbsLost, Shape, NewInv
<1> QED BY <1>2, <1>4, <1>5, <1>6

LEMMA ShareInv ==
  ASSUME FInv, NEW m \in Mutators, NEW n \in Mutators, NEW a \in BlockAddrs, Share(m, n, a)
  PROVE  FInv'
<1> USE DEF Share, FInv
<1>1. held' \in [Mutators -> SUBSET used] /\ \A k \in Mutators : held[k] \subseteq held'[k]
  BY DEF Shape
<1>2. Shape' /\ TypeOK'
  BY <1>1 DEF Shape, TypeOK
<1>3. \A k \in Mutators : obj[k] # None => obj[k] # a
  BY DEF NewInv
<1>4. NewInv'
  BY <1>3 DEF Shape, NewInv
<1>5. DeadInv' /\ LimbInv' /\ NoLimbsLost' /\ LiveIntact'
  BY DEF Shape, DeadInv, LimbInv, NoLimbsLost, LiveIntact
<1> QED BY <1>2, <1>4, <1>5

LEMMA DropInv ==
  ASSUME FInv, NEW m \in Mutators, NEW a \in BlockAddrs, Drop(m, a)
  PROVE  FInv'
<1> USE DEF Drop, FInv
<1>1. held' \in [Mutators -> SUBSET used] /\ \A k \in Mutators : held'[k] \subseteq held[k]
  BY DEF Shape
<1>2. Shape' /\ TypeOK'
  BY <1>1 DEF Shape, TypeOK
<1>3. NewInv'
  BY <1>1 DEF Shape, NewInv
<1>4. DeadInv' /\ LimbInv' /\ NoLimbsLost' /\ LiveIntact'
  BY <1>1 DEF Shape, DeadInv, LimbInv, NoLimbsLost, LiveIntact
<1> QED BY <1>2, <1>3, <1>4

LEMMA FinishMarkInv ==
  ASSUME FInv, FinishMark
  PROVE  FInv'
<1> USE DEF FInv, FinishMark
<1>1. Shape' /\ TypeOK' /\ NewInv'
  BY DEF Shape, TypeOK, NewInv, Collector, Nobody
<1>2. DeadInv'
  BY DEF Shape, DeadInv, Reachable
<1>3. LimbInv' /\ LiveIntact' /\ NoLimbsLost'
  BY DEF LimbInv, LiveIntact, NoLimbsLost
<1> QED BY <1>1, <1>2, <1>3

LEMMA LockInv ==
  ASSUME FinalizerConstants, FInv, LockFinalizers
  PROVE  FInv'
<1> USE DEF FInv, LockFinalizers
<1>1. Shape' /\ TypeOK' /\ NewInv'
  BY DEF Shape, TypeOK, NewInv, Collector, Nobody
<1>2. DeadInv'
  BY DEF Shape, DeadInv, TypeOK, FinalizerConstants, None
<1>3. LimbInv' /\ LiveIntact' /\ NoLimbsLost'
  BY DEF LimbInv, LiveIntact, NoLimbsLost
<1> QED BY <1>1, <1>2, <1>3

\* The object whose finalizer runs has an integer, and nobody can reach it.
LEMMA FinalizesDead ==
  ASSUME FinalizerConstants, FInv, NEW a \in set, gc = "finalizing", ~Alive(a)
  PROVE  a \in limbs /\ \A m \in Mutators : a \notin held[m] /\ a # obj[m]
<1>1. \A m \in Mutators : a \notin held[m]
  BY DEF FInv, DeadInv, Alive
<1>2. \A m \in Mutators : a # obj[m]
  BY <1>1 DEF FInv, TypeOK, FinalizerConstants, None
<1> QED BY <1>1, <1>2 DEF FInv, LimbInv

LEMMA RunNextInv ==
  ASSUME FinalizerConstants, FInv, RunNext
  PROVE  FInv'
<1>1. PICK a \in set :
         /\ gc = "finalizing" /\ IsNext(a) /\ cursor' = a
         /\ IF Alive(a) THEN UNCHANGED <<set, limbs>>
                        ELSE set' = set \ {a} /\ limbs' = limbs \ {a}
         /\ UNCHANGED <<used, held, dead, lock, gc, pc, obj>>
  BY DEF RunNext, Kept
<1>2. Shape' /\ TypeOK'
  BY <1>1 DEF FInv, Shape, TypeOK
<1>3. ~Alive(a) => a \in limbs /\ \A m \in Mutators : a \notin held[m] /\ a # obj[m]
  BY <1>1, FinalizesDead
<1>4. NewInv'
  BY <1>1, <1>3 DEF FInv, NewInv, TypeOK
<1>5. LimbInv' /\ LiveIntact' /\ NoLimbsLost'
  BY <1>1, <1>3 DEF FInv, LimbInv, LiveIntact, NoLimbsLost
<1>6. DeadInv'
  <2>1. \A b \in set' \cap dead : b > a
    <3> SUFFICES ASSUME NEW b \in set, b \in set', b \in dead
                 PROVE  b > a
      BY <1>1
    <3>1. b > cursor
      BY <1>1 DEF FInv, DeadInv
    <3>2. a <= b
      BY <1>1, <3>1 DEF IsNext
    <3>3. a # b
      BY <1>1 DEF Alive
    <3>4. a \in Nat /\ b \in Nat
      BY DEF FInv, TypeOK, FinalizerConstants
    <3> QED BY <3>2, <3>3, <3>4
  <2> QED BY <1>1, <2>1 DEF FInv, DeadInv
<1> QED BY <1>2, <1>4, <1>5, <1>6 DEF FInv

LEMMA UnlockInv ==
  ASSUME FinalizerConstants, FInv, UnlockFinalizers
  PROVE  FInv'
<1> USE DEF FInv, UnlockFinalizers
<1>1. Shape' /\ TypeOK' /\ NewInv'
  BY DEF Shape, TypeOK, NewInv, Collector, Nobody
<1>2. DeadInv'
  BY DEF Shape, DeadInv, TypeOK, FinalizerConstants, None
<1>3. LimbInv' /\ LiveIntact' /\ NoLimbsLost'
  BY DEF LimbInv, LiveIntact, NoLimbsLost
<1> QED BY <1>1, <1>2, <1>3

LEMMA ReclaimInv ==
  ASSUME FInv, Reclaim
  PROVE  FInv'
<1> USE DEF FInv, Reclaim
<1>1. Shape' /\ TypeOK' /\ NewInv'
  BY DEF Shape, TypeOK, NewInv, DeadInv, Collector, Nobody
<1>2. DeadInv'
  BY DEF DeadInv
<1>3. LimbInv' /\ LiveIntact' /\ NoLimbsLost'
  BY DEF LimbInv, LiveIntact, NoLimbsLost
<1> QED BY <1>1, <1>2, <1>3

LEMMA DestroyInv ==
  ASSUME FInv, sml_finalize_destroy
  PROVE  FInv'
<1> USE DEF FInv, sml_finalize_destroy
<1>1. Shape' /\ TypeOK'
  BY DEF Shape, TypeOK, Collector, Nobody
<1>2. NewInv' /\ DeadInv'
  BY DEF Shape, NewInv, DeadInv
<1>3. LimbInv' /\ LiveIntact' /\ NoLimbsLost'
  BY DEF LimbInv, LiveIntact, NoLimbsLost
<1> QED BY <1>1, <1>2, <1>3
------------------------------------------------------------------------------
\* The invariant holds in every reachable state: finalizer_set, the integers and
\* what the collection in progress has found fit each other.
THEOREM FinalizerInvariance == FinalizerConstants => (Spec => []FInv)
<1> SUFFICES ASSUME FinalizerConstants PROVE Spec => []FInv
  OBVIOUS
<1>1. FInv /\ [Next]_vars => FInv'
  <2> SUFFICES ASSUME FInv, [Next]_vars PROVE FInv'
    OBVIOUS
  <2>1. CASE \E m \in Mutators :
               \/ Alloc(m) \/ sml_set_finalizer(m) \/ sml_intinf_init(m)
               \/ \E a \in BlockAddrs : Drop(m, a) \/ \E n \in Mutators : Share(m, n, a)
    BY <2>1, AllocInv, SetInv, InitIntInv, DropInv, ShareInv
  <2>2. CASE FinishMark \/ LockFinalizers \/ RunNext \/ UnlockFinalizers \/ Reclaim
             \/ sml_finalize_destroy
    BY <2>2, FinishMarkInv, LockInv, RunNextInv, UnlockInv, ReclaimInv, DestroyInv
  <2>3. CASE UNCHANGED vars
    BY <2>3 DEF vars, FInv, TypeOK, Shape, NewInv, LimbInv, DeadInv, LiveIntact, NoLimbsLost
  <2> QED BY <2>1, <2>2, <2>3 DEF Next
<1> QED BY <1>1, InitInv, PTL DEF Spec

\* What a mutator can reach has its integer.
THEOREM LiveIntactHolds == FinalizerConstants => (Spec => []LiveIntact)
<1>1. FInv => LiveIntact
  BY DEF FInv
<1> QED BY <1>1, FinalizerInvariance, PTL

\* BlockAddrs outside the heap belongs to an object that is still registered.
THEOREM NoLimbsLostHolds == FinalizerConstants => (Spec => [](TypeOK /\ NoLimbsLost))
<1>1. FInv => TypeOK /\ NoLimbsLost
  BY DEF FInv
<1> QED BY <1>1, FinalizerInvariance, PTL

\* A finalizer clears an integer that was initialised, and no integer twice.
THEOREM ClearsOnceHolds == FinalizerConstants => (Spec => ClearsOnce)
<1> SUFFICES ASSUME FinalizerConstants PROVE Spec => ClearsOnce
  OBVIOUS
<1>1. FInv /\ [Next]_vars
        => [\A a \in set : a \notin set' => a \in limbs /\ a \notin limbs']_vars
  <2> SUFFICES ASSUME FInv, Next, NEW a \in set, a \notin set'
               PROVE  a \in limbs /\ a \notin limbs'
    OBVIOUS
  <2>1. RunNext
    BY DEF Next, Alloc, sml_set_finalizer, Registered, sml_intinf_init, Drop, Share, FinishMark,
           LockFinalizers, UnlockFinalizers, Reclaim, sml_finalize_destroy
  <2>2. gc = "finalizing" /\ ~Alive(a) /\ limbs' = limbs \ {a}
    BY <2>1 DEF RunNext, Kept
  <2> QED BY <2>2, FinalizesDead
<1> QED BY <1>1, FinalizerInvariance, PTL DEF ClearsOnce, Spec
==============================================================================
