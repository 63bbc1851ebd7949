---------------------------- MODULE MarkingProofs ----------------------------
(***************************************************************************)
(* Proof that the concurrent collector of heap_concurrent.c loses nothing  *)
(* as long as no barrier misses an object (missed = {}), for any number of *)
(* threads and objects, any heap and any program.                          *)
(*                                                                         *)
(* MInv is inductive.  Its control part is so by itself, the clearing of   *)
(* collect bits until a barrier comes late, and the heap part until a      *)
(* barrier misses an object in one of the three ways (finish, snapshot,    *)
(* late) that missed records.  The heart of it is that a step              *)
(* never makes a safe object unsafe (Scan, ScanGrows): whatever leads to   *)
(* an object is scanned or stays to be scanned, and a store either leaves  *)
(* the path alone or its barrier has marked what was at its end.  When     *)
(* sml_heap_mark_finish has looked at every remembered set for the last    *)
(* time no source is left, so the safe objects are those that the workers  *)
(* will keep (LastLookTraces), and until ASYNC has been answered by all    *)
(* they stay closed under the stores of the mutators (KeptStep).           *)
(***************************************************************************)
EXTENDS MarkingInv, TLAPS
------------------------------------------------------------------------------
(* Control.                                                                   *)

\* Every action keeps the control part, whatever a barrier misses.
LEMMA ControlStep ==
  ASSUME ControlInv, Next
  PROVE  ControlInv'
<1> USE ConstantsDiffer, HomeType DEF ControlInv, Writing, Labels, Ops, Cell,
       Ptr, Phases, Successors, Pre, NoOp, control, objects, sets, frames, Goto,
       Phase, Respond, Does, Accepts, Return, ASYNC, MARK, PREASYNC, PREMARK,
       PRESYNC1, PRESYNC2, SYNC1, SYNC2
<1>1. ASSUME NEW w \in Workers, NEW o \in Objs, NEW v \in Ptr, Alloc(w, o, v) PROVE ControlInv'
  <2>1. TypeInv'
    BY <1>1 DEF Alloc, TypeInv, TypeOK, NewTarget
  <2>2. (PhaseInv /\ GenumInv /\ LookInv)'
    BY <1>1 DEF Alloc, PhaseInv, GenumInv, LookInv
  <2>3. OpInv'
    BY <1>1 DEF Alloc, OpInv, TypeInv, Resting, Working
  <2>4. OwnInv'
    BY <1>1 DEF Alloc, OwnInv, TypeInv, PhaseInv, NewTarget, Young, BeforeSnapshot
  <2> QED BY <2>1, <2>2, <2>3, <2>4
<1>2. ASSUME NEW w \in Workers, NEW x \in Cell, Load(w, x) PROVE ControlInv'
  <2>1. TypeInv'
    BY <1>2 DEF Load, TypeInv, TypeOK
  <2>2. (PhaseInv /\ GenumInv /\ LookInv)'
    BY <1>2 DEF Load, PhaseInv, GenumInv, LookInv
  <2>3. OpInv'
    BY <1>2 DEF Load, OpInv, TypeInv, Resting, Working
  <2>4. OwnInv'
    BY <1>2 DEF Load, OwnInv, Young
  <2> QED BY <2>1, <2>2, <2>3, <2>4
<1>3. ASSUME NEW w \in Workers, NEW o \in Objs, Drop(w, o) PROVE ControlInv'
  <2>1. TypeInv'
    BY <1>3 DEF Drop, TypeInv, TypeOK
  <2>2. (PhaseInv /\ GenumInv /\ LookInv)'
    BY <1>3 DEF Drop, PhaseInv, GenumInv, LookInv
  <2>3. OpInv'
    BY <1>3 DEF Drop, OpInv, TypeInv, TypeOK, Resting, Working
  <2>4. OwnInv'
    BY <1>3 DEF Drop, OwnInv, Young
  <2> QED BY <2>1, <2>2, <2>3, <2>4
<1>4. ASSUME NEW w \in Workers, NEW x \in Cell, NEW v \in Ptr, Write(w, x, v) PROVE ControlInv'
  <2>1. TypeInv'
    BY <1>4 DEF Write, TypeInv, TypeOK
  <2>2. (PhaseInv /\ GenumInv /\ LookInv)'
    BY <1>4 DEF Write, PhaseInv, GenumInv, LookInv
  <2>3. OpInv'
    BY <1>4 DEF Write, OpInv, TypeInv, Resting, Working
  <2>4. OwnInv'
    BY <1>4 DEF Write, OwnInv, Young
  <2> QED BY <2>1, <2>2, <2>3, <2>4
<1>5. ASSUME NEW w \in Workers, NEW x \in Cell, NEW e \in Ptr, NEW v \in Ptr, CmpSwap(w, x, e, v) PROVE ControlInv'
  <2>1. TypeInv'
    <3>1. CASE field[x] = e
      <4>1. /\ field' = [field EXCEPT ![x] = v] /\ UNCHANGED <<roots, missed>>
            /\ op' = [op EXCEPT ![w] = [obj |-> x, old |-> e, new |-> v, cas |-> TRUE]]
            /\ pc' = [pc EXCEPT ![w] = "barrier"]
        BY <1>5, <3>1 DEF CmpSwap
      <4>2. op' \in [Workers -> Ops] /\ field' \in [Cell -> Ptr] /\ pc' \in [Workers -> Labels]
        BY <4>1 DEF TypeInv, TypeOK
      <4> QED BY <4>1, <4>2, <1>5 DEF CmpSwap, TypeInv, TypeOK
    <3>2. CASE field[x] # e
      BY <1>5, <3>2 DEF CmpSwap, TypeInv, TypeOK
    <3> QED BY <3>1, <3>2
  <2>2. (PhaseInv /\ GenumInv /\ LookInv)'
    BY <1>5 DEF CmpSwap, PhaseInv, GenumInv, LookInv, TypeInv, TypeOK
  <2>3. OpInv'
    <3>1. CASE field[x] = e
      <4>1. /\ op' = [op EXCEPT ![w] = [obj |-> x, old |-> e, new |-> v, cas |-> TRUE]]
            /\ pc' = [pc EXCEPT ![w] = "barrier"]
            /\ UNCHANGED <<members, roots, gray, remembered>>
        BY <1>5, <3>1 DEF CmpSwap
      <4>2. x \in roots[w] \cup {Global} /\ e \in roots[w] \cup {Nil} /\ v \in roots[w] \cup {Nil}
        BY <1>5 DEF CmpSwap
      <4>3. w \in members
        BY <1>5 DEF CmpSwap
      <4>4. op'[w] = [obj |-> x, old |-> e, new |-> v, cas |-> TRUE] /\ pc'[w] = "barrier"
        BY <4>1 DEF TypeInv
      <4>5. \A u \in Workers \ {w} : op'[u] = op[u] /\ pc'[u] = pc[u]
        BY <4>1
      <4>6. Working(w)'
        BY <4>1, <4>2, <4>4 DEF Working
      <4>7. \A u \in Workers \ {w} : Working(u)' /\ (Resting(u) => Resting(u)')
        BY <4>1, <4>5 DEF OpInv, Working, Resting
      <4> QED BY <4>1, <4>3, <4>6, <4>7 DEF OpInv
    <3>2. CASE field[x] # e
      BY <1>5, <3>2 DEF CmpSwap, OpInv, Working, Resting, TypeInv
    <3> QED BY <3>1, <3>2
  <2>4. OwnInv'
    BY <1>5 DEF CmpSwap, OwnInv, Young
  <2> QED BY <2>1, <2>2, <2>3, <2>4
<1>6. ASSUME NEW w \in Workers, Barrier(w) PROVE ControlInv'
  <2>1. TypeInv'
    BY <1>6 DEF Barrier, TypeInv, TypeOK, BarrierMode, AfterBarrier
  <2>2. (PhaseInv /\ GenumInv /\ LookInv)'
    BY <1>6 DEF Barrier, PhaseInv, GenumInv, LookInv, BarrierMode, AfterBarrier
  <2>3. OpInv'
    BY <1>6 DEF Barrier, OpInv, TypeInv, BarrierMode, AfterBarrier, Resting,
       Working
  <2>4. OwnInv'
    BY <1>6 DEF Barrier, OwnInv, Young
  <2> QED BY <2>1, <2>2, <2>3, <2>4
<1>7. ASSUME NEW w \in Workers, RememberVisit(w) PROVE ControlInv'
  <2>1. TypeInv'
    BY <1>7 DEF RememberVisit, TypeInv, TypeOK, BarrierVisit, Visits, AfterBarrier
  <2>2. (PhaseInv /\ GenumInv /\ LookInv)'
    BY <1>7 DEF RememberVisit, PhaseInv, GenumInv, LookInv, AfterBarrier
  <2>3. OpInv'
    BY <1>7 DEF RememberVisit, OpInv, TypeInv, TypeOK, Visits, AfterBarrier,
       Resting,
       Working
  <2>4. OwnInv'
    BY <1>7 DEF RememberVisit, OwnInv, BarrierVisit, Visits, Young
  <2> QED BY <2>1, <2>2, <2>3, <2>4
<1>8. ASSUME NEW w \in Workers, RememberPush(w) PROVE ControlInv'
  <2>1. TypeInv'
    BY <1>8 DEF RememberPush, TypeInv, TypeOK, OpInv, AfterBarrier, Working
  <2>2. (PhaseInv /\ GenumInv /\ LookInv)'
    BY <1>8 DEF RememberPush, PhaseInv, GenumInv, LookInv, AfterBarrier
  <2>3. OpInv'
    BY <1>8 DEF RememberPush, OpInv, TypeInv, AfterBarrier, Resting, Working
  <2>4. OwnInv'
    BY <1>8 DEF RememberPush, OwnInv, Young
  <2> QED BY <2>1, <2>2, <2>3, <2>4
<1>9. ASSUME NEW w \in Workers, Store(w) PROVE ControlInv'
  <2>1. TypeInv'
    BY <1>9 DEF Store, TypeInv, TypeOK
  <2>2. (PhaseInv /\ GenumInv /\ LookInv)'
    BY <1>9 DEF Store, PhaseInv, GenumInv, LookInv
  <2>3. OpInv'
    BY <1>9 DEF Store, OpInv, TypeInv, Resting, Working
  <2>4. OwnInv'
    BY <1>9 DEF Store, OwnInv, Young
  <2> QED BY <2>1, <2>2, <2>3, <2>4
<1>10. ASSUME NEW w \in Workers, Sync1(w) PROVE ControlInv'
  <2>1. TypeInv'
    BY <1>10 DEF Sync1, TypeInv, TypeOK, PhaseInv
  <2>2. (PhaseInv /\ GenumInv /\ LookInv)'
    BY <1>10 DEF Sync1, PhaseInv, GenumInv, LookInv, TypeInv, TypeOK
  <2>3. OpInv'
    BY <1>10 DEF Sync1, OpInv, TypeInv, Resting, Working
  <2>4. OwnInv'
    BY <1>10 DEF Sync1, OwnInv, Young
  <2> QED BY <2>1, <2>2, <2>3, <2>4
<1>11. ASSUME NEW w \in Workers, Sync2(w) PROVE ControlInv'
  <2>1. TypeInv'
    <3>1. TypeOK'
      BY <1>11 DEF Sync2, TypeInv, TypeOK, PhaseInv, Visits
    <3> QED BY <3>1, <1>11 DEF Sync2, TypeInv, TypeOK
  <2>2. (PhaseInv /\ GenumInv /\ LookInv)'
    BY <1>11 DEF Sync2, PhaseInv, GenumInv, LookInv, TypeInv, TypeOK
  <2>3. OpInv'
    BY <1>11 DEF Sync2, OpInv, TypeInv, TypeOK, StackRoots, Resting, Working
  <2>4. OwnInv'
    BY <1>11 DEF Sync2, OwnInv, Visits, Young
  <2> QED BY <2>1, <2>2, <2>3, <2>4
<1>12. ASSUME NEW w \in Workers, GlobalSync2(w) PROVE ControlInv'
  <2>1. TypeInv'
    BY <1>12 DEF GlobalSync2, TypeInv, TypeOK, PhaseInv, Visits
  <2>2. (PhaseInv /\ GenumInv /\ LookInv)'
    BY <1>12 DEF GlobalSync2, PhaseInv, GenumInv, LookInv, TypeInv, TypeOK
  <2>3. OpInv'
    BY <1>12 DEF GlobalSync2, OpInv, TypeInv, Resting, Working
  <2>4. OwnInv'
    BY <1>12 DEF GlobalSync2, OwnInv, Visits, Young
  <2> QED BY <2>1, <2>2, <2>3, <2>4
<1>13. ASSUME NEW w \in Workers, StartTrace(w) PROVE ControlInv'
  <2>1. TypeInv'
    BY <1>13 DEF StartTrace, TypeInv, TypeOK, SetTaken
  <2>2. (PhaseInv /\ GenumInv /\ LookInv)'
    BY <1>13 DEF StartTrace, PhaseInv, GenumInv, LookInv, TypeInv, TypeOK
  <2>3. OpInv'
    BY <1>13 DEF StartTrace, OpInv, TypeInv, TypeOK, SetTaken, Resting, Working
  <2>4. OwnInv'
    BY <1>13 DEF StartTrace, OwnInv, Young
  <2> QED BY <2>1, <2>2, <2>3, <2>4
<1>14. ASSUME NEW w \in Workers, NEW o \in Objs, TracePop(w, o) PROVE ControlInv'
  <2>1. TypeInv'
    BY <1>14 DEF TracePop, TypeInv, TypeOK
  <2>2. (PhaseInv /\ GenumInv /\ LookInv)'
    BY <1>14 DEF TracePop, PhaseInv, GenumInv, LookInv
  <2>3. OpInv'
    BY <1>14 DEF TracePop, OpInv, TypeInv, TypeOK, Resting, Working
  <2>4. OwnInv'
    BY <1>14 DEF TracePop, OwnInv, Young
  <2> QED BY <2>1, <2>2, <2>3, <2>4
<1>15. ASSUME NEW w \in Workers, TracePush(w) PROVE ControlInv'
  <2>1. TypeInv'
    BY <1>15 DEF TracePush, TypeInv, TypeOK, Visits
  <2>2. (PhaseInv /\ GenumInv /\ LookInv)'
    BY <1>15 DEF TracePush, PhaseInv, GenumInv, LookInv, OpInv, Resting
  <2>3. OpInv'
    BY <1>15 DEF TracePush, OpInv, TypeInv, Resting, Working
  <2>4. OwnInv'
    BY <1>15 DEF TracePush, OwnInv, Visits, Young
  <2> QED BY <2>1, <2>2, <2>3, <2>4
<1>16. ASSUME NEW w \in Workers, TraceEnd(w) PROVE ControlInv'
  <2>1. TypeInv'
    BY <1>16 DEF TraceEnd, TypeInv, TypeOK, PhaseInv
  <2>2. (PhaseInv /\ GenumInv /\ LookInv)'
    BY <1>16 DEF TraceEnd, PhaseInv, GenumInv, LookInv, TypeInv, TypeOK
  <2>3. OpInv'
    BY <1>16 DEF TraceEnd, OpInv, TypeInv, Resting, Working
  <2>4. OwnInv'
    BY <1>16 DEF TraceEnd, OwnInv, Young
  <2> QED BY <2>1, <2>2, <2>3, <2>4
<1>17. ASSUME NEW w \in Workers, Async(w) PROVE ControlInv'
  <2>1. TypeInv'
    BY <1>17 DEF Async, TypeInv, TypeOK, PhaseInv
  <2>2. (PhaseInv /\ GenumInv /\ LookInv)'
    BY <1>17 DEF Async, PhaseInv, GenumInv, LookInv, TypeInv, TypeOK
  <2>3. OpInv'
    BY <1>17 DEF Async, OpInv, TypeInv, Resting, Working
  <2>4. OwnInv'
    BY <1>17 DEF Async, OwnInv, Garbage, Young
  <2> QED BY <2>1, <2>2, <2>3, <2>4
<1>18. ASSUME NEW w \in Workers, Signal(w) PROVE ControlInv'
  <2>1. TypeInv'
    BY <1>18 DEF Signal, TypeInv, TypeOK
  <2>2. (PhaseInv /\ GenumInv /\ LookInv)'
    BY <1>18 DEF Signal, PhaseInv, GenumInv, LookInv, TypeInv, TypeOK
  <2>3. OpInv'
    BY <1>18 DEF Signal, OpInv, Resting, Working
  <2>4. OwnInv'
    BY <1>18 DEF Signal, OwnInv, PhaseInv, Young
  <2> QED BY <2>1, <2>2, <2>3, <2>4
<1>19. ASSUME StartGC PROVE ControlInv'
  <2>1. TypeInv'
    BY <1>19 DEF StartGC, TypeInv, TypeOK, Announce, Begin
  <2>2. (PhaseInv /\ GenumInv /\ LookInv)'
    BY <1>19 DEF StartGC, PhaseInv, GenumInv, LookInv, TypeInv, Announce, Begin
  <2>3. OpInv'
    BY <1>19 DEF StartGC, OpInv, Announce, Resting, Working, Begin
  <2>4. OwnInv'
    BY <1>19 DEF StartGC, OwnInv, Announce, Young, Begin
  <2> QED BY <2>1, <2>2, <2>3, <2>4
<1>20. ASSUME NextRound PROVE ControlInv'
  <2>1. TypeInv'
    BY <1>20 DEF NextRound, TypeInv, TypeOK, Announce, Begin
  <2>2. (PhaseInv /\ GenumInv /\ LookInv)'
    BY <1>20 DEF NextRound, PhaseInv, GenumInv, LookInv, OpInv, Announce, Resting,
       Begin
  <2>3. OpInv'
    BY <1>20 DEF NextRound, OpInv, Announce, Resting, Working, Begin
  <2>4. OwnInv'
    BY <1>20 DEF NextRound, OwnInv, Announce, Young, Begin
  <2> QED BY <2>1, <2>2, <2>3, <2>4
<1>21. ASSUME NEW w \in Workers, LookEmpty(w) PROVE ControlInv'
  <2>1. TypeInv'
    <3> DEFINE busy == \E u \in members : InFlight(u)
    <3>1. look = [c1 |-> look.c1, left |-> look.left, pass |-> look.pass, busy |-> look.busy]
      BY DEF TypeInv
    <3>2. /\ look.c1 \subseteq members /\ look.left \subseteq Workers /\ look.pass \in 0..2
          /\ look.busy \in BOOLEAN /\ busy \in BOOLEAN
      BY DEF TypeInv
    <3>3. look' \in {[c1 |-> look.c1, left |-> look.c1, pass |-> 2, busy |-> busy],
                     [c1 |-> look.c1, left |-> look.left \ {w}, pass |-> look.pass,
                      busy |-> look.busy]}
      BY <3>1, <1>21 DEF LookEmpty
    <3>4. look' \in [c1 : SUBSET members, left : SUBSET Workers, pass : 0..2, busy : BOOLEAN]
      <4> HIDE DEF busy
      <4> QED BY <3>2, <3>3 DEF TypeInv, TypeOK
    <3> QED BY <3>4, <1>21 DEF LookEmpty, TypeInv, TypeOK
  <2>2. (PhaseInv /\ GenumInv /\ LookInv)'
    BY <1>21 DEF LookEmpty, PhaseInv, GenumInv, LookInv
  <2>3. OpInv'
    BY <1>21 DEF LookEmpty, OpInv, Resting, Working
  <2>4. OwnInv'
    BY <1>21 DEF LookEmpty, OwnInv, Young
  <2> QED BY <2>1, <2>2, <2>3, <2>4
<1>22. ASSUME NEW w \in Workers, LookAgain(w) PROVE ControlInv'
  <2>1. TypeInv'
    BY <1>22 DEF LookAgain, TypeInv, TypeOK, NoLook, Announce, Begin
  <2>2. (PhaseInv /\ GenumInv /\ LookInv)'
    BY <1>22 DEF LookAgain, PhaseInv, GenumInv, LookInv, NoLook, Announce, Begin
  <2>3. OpInv'
    BY <1>22 DEF LookAgain, OpInv, Announce, Resting, Working, Begin
  <2>4. OwnInv'
    BY <1>22 DEF LookAgain, OwnInv, Announce, Young, Begin
  <2> QED BY <2>1, <2>2, <2>3, <2>4
<1>23. ASSUME LookDone PROVE ControlInv'
  <2>1. TypeInv'
    BY <1>23 DEF LookDone, TypeInv, TypeOK, NoLook, Announce, Begin
  <2>2. (PhaseInv /\ GenumInv /\ LookInv)'
    BY <1>23 DEF LookDone, PhaseInv, GenumInv, LookInv, NoLook, Announce, Begin
  <2>3. OpInv'
    BY <1>23 DEF LookDone, OpInv, Announce, Resting, Working, Begin
  <2>4. OwnInv'
    BY <1>23 DEF LookDone, OwnInv, Announce, Young, Begin
  <2> QED BY <2>1, <2>2, <2>3, <2>4
<1>24. ASSUME LookGrown PROVE ControlInv'
  <2>1. TypeInv'
    BY <1>24 DEF LookGrown, TypeInv, TypeOK, NoLook, Announce, Begin
  <2>2. (PhaseInv /\ GenumInv /\ LookInv)'
    BY <1>24 DEF LookGrown, PhaseInv, GenumInv, LookInv, NoLook, Announce, Begin
  <2>3. OpInv'
    BY <1>24 DEF LookGrown, OpInv, Announce, Resting, Working, Begin
  <2>4. OwnInv'
    BY <1>24 DEF LookGrown, OwnInv, Announce, Young, Begin
  <2> QED BY <2>1, <2>2, <2>3, <2>4
<1>25. ASSUME NEW w \in Workers, Register(w) PROVE ControlInv'
  <2>1. TypeInv'
    BY <1>25 DEF Register, TypeInv, TypeOK, Join
  <2>2. (PhaseInv /\ GenumInv /\ LookInv)'
    BY <1>25 DEF Register, PhaseInv, GenumInv, LookInv, TypeInv, TypeOK, OpInv,
       Join,
       Resting
  <2>3. OpInv'
    BY <1>25 DEF Register, OpInv, Join, Resting, Working
  <2>4. OwnInv'
    BY <1>25 DEF Register, OwnInv, Join, Young
  <2> QED BY <2>1, <2>2, <2>3, <2>4
<1> QED BY <1>1, <1>2, <1>3, <1>4, <1>5, <1>6, <1>7, <1>8, <1>9, <1>10, <1>11,
       <1>12, <1>13, <1>14, <1>15, <1>16, <1>17, <1>18, <1>19, <1>20, <1>21,
       <1>22, <1>23, <1>24, <1>25 DEF Next, Mutator, Poll, Runtime, Coordinator

------------------------------------------------------------------------------
(* The heap, as long as no barrier misses an object.                         *)

\* What is to be scanned stays marked and in one place.
LEMMA HeldStep ==
  ASSUME ControlInv, ControlInv', HeapInv, Next, missed = {}, missed' = {}
  PROVE  HeldInv'
<1> USE ConstantsDiffer, HomeType DEF HeapInv, Writing, Labels, Ops, Cell, Ptr,
       Phases, Successors, Pre, NoOp, control, objects, sets, frames, Goto,
       Phase, Respond, Does, Accepts, Return, ASYNC, MARK, PREASYNC, PREMARK,
       PRESYNC1, PRESYNC2, SYNC1, SYNC2
<1>1. ASSUME NEW w \in Workers, NEW o \in Objs, NEW v \in Ptr, Alloc(w, o, v) PROVE HeldInv'
  BY <1>1 DEF Alloc, HeldInv, Pending, Held, Pushed
<1>2. ASSUME NEW w \in Workers, NEW x \in Cell, Load(w, x) PROVE HeldInv'
  BY <1>2 DEF Load, HeldInv, Pending, Held, Pushed
<1>3. ASSUME NEW w \in Workers, NEW o \in Objs, Drop(w, o) PROVE HeldInv'
  BY <1>3 DEF Drop, HeldInv, Pending, Held, Pushed
<1>4. ASSUME NEW w \in Workers, NEW x \in Cell, NEW v \in Ptr, Write(w, x, v) PROVE HeldInv'
  BY <1>4 DEF Write, HeldInv, Pending, Held, Pushed
<1>5. ASSUME NEW w \in Workers, NEW x \in Cell, NEW e \in Ptr, NEW v \in Ptr, CmpSwap(w, x, e, v) PROVE HeldInv'
  <2>1. \A u \in Workers : Pushed(u)' = Pushed(u) /\ Held(u)' = Held(u)
    <3>1. /\ pc[w] = "run" /\ pc'[w] \in {"run", "barrier"}
          /\ \A u \in Workers \ {w} : pc'[u] = pc[u] /\ op'[u] = op[u]
          /\ UNCHANGED <<gray, remembered>>
      BY <1>5 DEF CmpSwap, ControlInv, TypeInv
    <3> QED BY <3>1 DEF Held, Pushed
  <2>2. UNCHANGED <<mark, gray, remembered>>
    BY <1>5 DEF CmpSwap
  <2> QED BY <2>1, <2>2 DEF HeldInv, Pending
<1>6. ASSUME NEW w \in Workers, Barrier(w) PROVE HeldInv'
  BY <1>6 DEF Barrier, BarrierMode, AfterBarrier, HeldInv, Pending, Held,
     Pushed, ControlInv, TypeInv, TypeOK, PhaseInv, OpInv, Working, Resting,
     OwnInv
<1>7. ASSUME NEW w \in Workers, RememberVisit(w) PROVE HeldInv'
  <2> DEFINE o == IF pc[w] = "visitnew" THEN op[w].new ELSE op[w].old
  <2>1. /\ UNCHANGED <<gray, remembered, op>> /\ Pushed(w) = {}
        /\ \A u \in Workers \ {w} : pc'[u] = pc[u]
    BY <1>7 DEF RememberVisit, Pushed, ControlInv, TypeInv
  <2>2. \A u \in Workers \ {w} : Pushed(u)' = Pushed(u) /\ Held(u)' = Held(u)
    BY <2>1 DEF Pushed, Held
  <2>3. CASE Visits(o)
    <3>1. mark' = mark \cup {o} /\ o \notin mark
      BY <1>7, <2>3 DEF RememberVisit, BarrierVisit, Visits
    <3>2. pc'[w] = IF pc[w] = "visitnew" THEN "pushnew" ELSE "pushold"
      BY <1>7, <2>3 DEF RememberVisit, ControlInv, TypeInv
    <3>3. Pushed(w)' = {o} /\ Held(w)' = Held(w) \cup {o}
      BY <2>1, <3>2 DEF Pushed, Held
    <3>4. \A u \in Workers : Held(u) \subseteq mark
      BY DEF HeldInv, Pending
    <3> HIDE DEF o
    <3> QED BY <2>1, <2>2, <3>1, <3>3, <3>4 DEF HeldInv, Pending, Held
  <2>4. CASE ~Visits(o)
    <3>1. mark' = mark /\ pc'[w] \in {"visitold", "store", "return"}
      BY <1>7, <2>4 DEF RememberVisit, BarrierVisit, AfterBarrier, ControlInv, TypeInv
    <3>2. Pushed(w)' = {} /\ Held(w)' = Held(w)
      BY <2>1, <3>1 DEF Pushed, Held
    <3> QED BY <2>1, <2>2, <3>1, <3>2 DEF HeldInv, Pending
  <2> QED BY <2>3, <2>4
<1>8. ASSUME NEW w \in Workers, RememberPush(w) PROVE HeldInv'
  BY <1>8 DEF RememberPush, AfterBarrier, HeldInv, Pending, Held, Pushed,
     ControlInv,
     TypeInv
<1>9. ASSUME NEW w \in Workers, Store(w) PROVE HeldInv'
  BY <1>9 DEF Store, HeldInv, Pending, Held, Pushed
<1>10. ASSUME NEW w \in Workers, Sync1(w) PROVE HeldInv'
  BY <1>10 DEF Sync1, HeldInv, Pending, Held, Pushed
<1>11. ASSUME NEW w \in Workers, Sync2(w) PROVE HeldInv'
  BY <1>11 DEF Sync2, Visits, HeldInv, Pending, Held, Pushed, ControlInv, TypeInv
<1>12. ASSUME NEW w \in Workers, GlobalSync2(w) PROVE HeldInv'
  <2> DEFINE vs == {o \in {field[Global]} : Visits(o)}
  <2>1. /\ vs \subseteq target /\ vs \cap mark = {} /\ mark' = mark \cup vs
        /\ gray' = [gray EXCEPT ![w] = @ \cup vs] /\ UNCHANGED remembered
    BY <1>12 DEF GlobalSync2, Visits
  <2> HIDE DEF vs
  <2>2. \A u \in Workers : Pushed(u)' = Pushed(u)
    BY <1>12 DEF GlobalSync2, Pushed
  <2> QED BY <2>1, <2>2 DEF HeldInv, Pending, Held
<1>13. ASSUME NEW w \in Workers, StartTrace(w) PROVE HeldInv'
  BY <1>13 DEF StartTrace, SetTaken, HeldInv, Pending, Held, Pushed, ControlInv,
     TypeInv,
     TypeOK
<1>14. ASSUME NEW w \in Workers, NEW o \in Objs, TracePop(w, o) PROVE HeldInv'
  BY <1>14 DEF TracePop, HeldInv, Pending, Held, Pushed, ControlInv, TypeInv,
     TypeOK, PhaseInv, OpInv, Working, Resting, OwnInv
<1>15. ASSUME NEW w \in Workers, TracePush(w) PROVE HeldInv'
  BY <1>15 DEF TracePush, Visits, HeldInv, Pending, Held, Pushed
<1>16. ASSUME NEW w \in Workers, TraceEnd(w) PROVE HeldInv'
  BY <1>16 DEF TraceEnd, HeldInv, Pending, Held, Pushed
<1>17. ASSUME NEW w \in Workers, Async(w) PROVE HeldInv'
  <2>1. Pending = {}
    BY <1>17 DEF Async, TracedInv, Finished, Traced
  <2>2. \A u \in Workers : Held(u)' \subseteq Held(u)
    BY <1>17 DEF Async, Held, Pushed
  <2>3. \A u \in Workers : Held(u)' = {}
    BY <2>1, <2>2 DEF Pending
  <2> QED BY <2>3 DEF HeldInv, Pending, Held
<1>18. ASSUME NEW w \in Workers, Signal(w) PROVE HeldInv'
  BY <1>18 DEF Signal, HeldInv, Pending, Held, Pushed
<1>19. ASSUME StartGC PROVE HeldInv'
  BY <1>19 DEF StartGC, Announce, HeldInv, Pending, Held, Pushed
<1>20. ASSUME NextRound PROVE HeldInv'
  BY <1>20 DEF NextRound, Announce, HeldInv, Pending, Held, Pushed
<1>21. ASSUME NEW w \in Workers, LookEmpty(w) PROVE HeldInv'
  BY <1>21 DEF LookEmpty, HeldInv, Pending, Held, Pushed
<1>22. ASSUME NEW w \in Workers, LookAgain(w) PROVE HeldInv'
  BY <1>22 DEF LookAgain, Announce, HeldInv, Pending, Held, Pushed
<1>23. ASSUME LookDone PROVE HeldInv'
  BY <1>23 DEF LookDone, Announce, HeldInv, Pending, Held, Pushed
<1>24. ASSUME LookGrown PROVE HeldInv'
  BY <1>24 DEF LookGrown, Announce, HeldInv, Pending, Held, Pushed
<1>25. ASSUME NEW w \in Workers, Register(w) PROVE HeldInv'
  BY <1>25 DEF Register, HeldInv, Pending, Held, Pushed
<1> QED BY <1>1, <1>2, <1>3, <1>4, <1>5, <1>6, <1>7, <1>8, <1>9, <1>10, <1>11,
       <1>12, <1>13, <1>14, <1>15, <1>16, <1>17, <1>18, <1>19, <1>20, <1>21,
       <1>22, <1>23, <1>24, <1>25 DEF Next, Mutator, Poll, Runtime, Coordinator

\* No pointer dangles: a block that is given back was reached by nobody.
LEMMA ClosedStep ==
  ASSUME ControlInv, ControlInv', HeapInv, Next, missed = {}, missed' = {}
  PROVE  ClosedInv'
<1> USE ConstantsDiffer, HomeType DEF HeapInv, Writing, Labels, Ops, Cell, Ptr,
       Phases, Successors, Pre, NoOp, control, objects, sets, frames, Goto,
       Phase, Respond, Does, Accepts, Return, ASYNC, MARK, PREASYNC, PREMARK,
       PRESYNC1, PRESYNC2, SYNC1, SYNC2
<1>1. ASSUME NEW w \in Workers, NEW o \in Objs, NEW v \in Ptr, Alloc(w, o, v) PROVE ClosedInv'
  BY <1>1 DEF Alloc, NewTarget, BeforeSnapshot, ClosedInv, Young, HeldInv,
     Pending, Held, Pushed, ControlInv, TypeInv, TypeOK, PhaseInv, OpInv,
     Working, Resting, OwnInv
<1>2. ASSUME NEW w \in Workers, NEW x \in Cell, Load(w, x) PROVE ClosedInv'
  BY <1>2 DEF Load, ClosedInv
<1>3. ASSUME NEW w \in Workers, NEW o \in Objs, Drop(w, o) PROVE ClosedInv'
  BY <1>3 DEF Drop, ClosedInv
<1>4. ASSUME NEW w \in Workers, NEW x \in Cell, NEW v \in Ptr, Write(w, x, v) PROVE ClosedInv'
  BY <1>4 DEF Write, ClosedInv
<1>5. ASSUME NEW w \in Workers, NEW x \in Cell, NEW e \in Ptr, NEW v \in Ptr, CmpSwap(w, x, e, v) PROVE ClosedInv'
  <2>1. CASE field[x] # e
    BY <1>5, <2>1 DEF CmpSwap, ClosedInv
  <2>2. CASE field[x] = e
    <3>1. /\ field' = [field EXCEPT ![x] = v]
          /\ op' = [op EXCEPT ![w] = [obj |-> x, old |-> e, new |-> v, cas |-> TRUE]]
          /\ pc' = [pc EXCEPT ![w] = "barrier"] /\ pc[w] = "run" /\ w \in members
          /\ e \in roots[w] \cup {Nil} /\ v \in roots[w] \cup {Nil}
          /\ UNCHANGED <<members, round, phase, roots, allocated, target, mark, gray, remembered>>
      BY <1>5, <2>2 DEF CmpSwap
    <3>2. \A u \in Workers : op'[u].old = IF u = w THEN e ELSE op[u].old
      BY <3>1 DEF ControlInv, TypeInv
    <3>3. \A y \in Cell : field'[y] = IF y = x THEN v ELSE field[y]
      BY <3>1 DEF ControlInv, TypeInv, TypeOK
    <3> QED BY <3>1, <3>2, <3>3 DEF ClosedInv
  <2> QED BY <2>1, <2>2
<1>6. ASSUME NEW w \in Workers, Barrier(w) PROVE ClosedInv'
  BY <1>6 DEF Barrier, ClosedInv
<1>7. ASSUME NEW w \in Workers, RememberVisit(w) PROVE ClosedInv'
  BY <1>7 DEF RememberVisit, ClosedInv
<1>8. ASSUME NEW w \in Workers, RememberPush(w) PROVE ClosedInv'
  BY <1>8 DEF RememberPush, ClosedInv
<1>9. ASSUME NEW w \in Workers, Store(w) PROVE ClosedInv'
  BY <1>9 DEF Store, ClosedInv, ControlInv, OpInv, Working
<1>10. ASSUME NEW w \in Workers, Sync1(w) PROVE ClosedInv'
  BY <1>10 DEF Sync1, ClosedInv
<1>11. ASSUME NEW w \in Workers, Sync2(w) PROVE ClosedInv'
  BY <1>11 DEF Sync2, ClosedInv
<1>12. ASSUME NEW w \in Workers, GlobalSync2(w) PROVE ClosedInv'
  BY <1>12 DEF GlobalSync2, ClosedInv
<1>13. ASSUME NEW w \in Workers, StartTrace(w) PROVE ClosedInv'
  BY <1>13 DEF StartTrace, ClosedInv
<1>14. ASSUME NEW w \in Workers, NEW o \in Objs, TracePop(w, o) PROVE ClosedInv'
  BY <1>14 DEF TracePop, ClosedInv, HeldInv, Pending, Held, ControlInv, OwnInv
<1>15. ASSUME NEW w \in Workers, TracePush(w) PROVE ClosedInv'
  BY <1>15 DEF TracePush, ClosedInv
<1>16. ASSUME NEW w \in Workers, TraceEnd(w) PROVE ClosedInv'
  BY <1>16 DEF TraceEnd, ClosedInv
<1>17. ASSUME NEW w \in Workers, Async(w) PROVE ClosedInv'
  BY <1>17 DEF Async, ClosedInv
<1>18. ASSUME NEW w \in Workers, Signal(w) PROVE ClosedInv'
  BY <1>18 DEF Signal, ClosedInv
<1>19. ASSUME StartGC PROVE ClosedInv'
  <2>1. Traced /\ round = ASYNC /\ waiting = {} /\ mark = {}
    <3>1. round = ASYNC /\ waiting = {}
      BY <1>19 DEF StartGC, Announce, Begin
    <3>2. \A o \in mark : phase[Home[o]] = ASYNC
      BY <3>1 DEF ControlInv, OwnInv, PhaseInv
    <3> QED BY <3>1, <3>2 DEF TracedInv, Finished, CleanInv
  <2>2. UNCHANGED <<field, allocated, roots, op>>
    BY <1>19 DEF StartGC, Announce
  <2>3. Kept \subseteq allocated
    BY DEF Kept
  <2>4. \A o \in allocated : phase[Home[o]] = ASYNC
    BY <2>1 DEF ControlInv, OwnInv, PhaseInv
  <2>5. Kept = allocated
    BY <2>4 DEF Kept
  <2> QED BY <2>1, <2>2, <2>5 DEF Traced, ClosedInv
<1>20. ASSUME NextRound PROVE ClosedInv'
  BY <1>20 DEF NextRound, Announce, ClosedInv
<1>21. ASSUME NEW w \in Workers, LookEmpty(w) PROVE ClosedInv'
  BY <1>21 DEF LookEmpty, ClosedInv
<1>22. ASSUME NEW w \in Workers, LookAgain(w) PROVE ClosedInv'
  BY <1>22 DEF LookAgain, Announce, Begin, ClosedInv
<1>23. ASSUME LookDone PROVE ClosedInv'
  BY <1>23 DEF LookDone, Announce, Begin, ClosedInv
<1>24. ASSUME LookGrown PROVE ClosedInv'
  BY <1>24 DEF LookGrown, Announce, Begin, ClosedInv
<1>25. ASSUME NEW w \in Workers, Register(w) PROVE ClosedInv'
  BY <1>25 DEF Register, Join, ClosedInv
<1> QED BY <1>1, <1>2, <1>3, <1>4, <1>5, <1>6, <1>7, <1>8, <1>9, <1>10, <1>11,
       <1>12, <1>13, <1>14, <1>15, <1>16, <1>17, <1>18, <1>19, <1>20, <1>21,
       <1>22, <1>23, <1>24, <1>25 DEF Next, Mutator, Poll, Runtime, Coordinator

\* Before SYNC2 a marked object has not been scanned.
LEMMA UnscannedStep ==
  ASSUME ControlInv, ControlInv', HeapInv, Next, missed = {}, missed' = {}
  PROVE  UnscannedInv'
<1> USE ConstantsDiffer, HomeType DEF HeapInv, Writing, Labels, Ops, Cell, Ptr,
       Phases, Successors, Pre, NoOp, control, objects, sets, frames, Goto,
       Phase, Respond, Does, Accepts, Return, ASYNC, MARK, PREASYNC, PREMARK,
       PRESYNC1, PRESYNC2, SYNC1, SYNC2
<1>1. ASSUME NEW w \in Workers, NEW o \in Objs, NEW v \in Ptr, Alloc(w, o, v) PROVE UnscannedInv'
  BY <1>1 DEF Alloc, UnscannedInv, Pending, Held, Pushed
<1>2. ASSUME NEW w \in Workers, NEW x \in Cell, Load(w, x) PROVE UnscannedInv'
  BY <1>2 DEF Load, UnscannedInv, Pending, Held, Pushed
<1>3. ASSUME NEW w \in Workers, NEW o \in Objs, Drop(w, o) PROVE UnscannedInv'
  BY <1>3 DEF Drop, UnscannedInv, Pending, Held, Pushed
<1>4. ASSUME NEW w \in Workers, NEW x \in Cell, NEW v \in Ptr, Write(w, x, v) PROVE UnscannedInv'
  BY <1>4 DEF Write, UnscannedInv, HeldInv, Pending, Held, Pushed, ControlInv,
     TypeInv, TypeOK, PhaseInv, OpInv, Working, Resting, OwnInv
<1>5. ASSUME NEW w \in Workers, NEW x \in Cell, NEW e \in Ptr, NEW v \in Ptr, CmpSwap(w, x, e, v) PROVE UnscannedInv'
  BY <1>5 DEF CmpSwap, UnscannedInv, HeldInv, Pending, Held, Pushed, ControlInv,
     TypeInv, TypeOK, PhaseInv, OpInv, Working, Resting, OwnInv
<1>6. ASSUME NEW w \in Workers, Barrier(w) PROVE UnscannedInv'
  BY <1>6 DEF Barrier, BarrierMode, AfterBarrier, UnscannedInv, HeldInv,
     Pending, Held, Pushed, ControlInv, TypeInv, TypeOK, PhaseInv, OpInv,
     Working, Resting, OwnInv
<1>7. ASSUME NEW w \in Workers, RememberVisit(w) PROVE UnscannedInv'
  <2> SUFFICES ASSUME round = SYNC1, NEW o \in mark' PROVE o \in Pending'
    BY <1>7 DEF RememberVisit, UnscannedInv
  <2>1. \A u \in Workers : Held(u) \subseteq Held(u)'
    BY <1>7 DEF RememberVisit, Held, Pushed
  <2>2. o \in mark \/ o \in Held(w)'
    BY <1>7 DEF RememberVisit, BarrierVisit, Held, Pushed, ControlInv, TypeInv
  <2> QED BY <2>1, <2>2 DEF UnscannedInv, Pending
<1>8. ASSUME NEW w \in Workers, RememberPush(w) PROVE UnscannedInv'
  <2>1. \A u \in Workers : Held(u) \subseteq Held(u)'
    BY <1>8 DEF RememberPush, Held, Pushed, ControlInv, TypeInv, TypeOK
  <2> QED BY <2>1, <1>8 DEF RememberPush, UnscannedInv, Pending
<1>9. ASSUME NEW w \in Workers, Store(w) PROVE UnscannedInv'
  BY <1>9 DEF Store, UnscannedInv, Pending, Held, Pushed
<1>10. ASSUME NEW w \in Workers, Sync1(w) PROVE UnscannedInv'
  BY <1>10 DEF Sync1, UnscannedInv, HeldInv, Pending, Held, Pushed, ControlInv,
     TypeInv, TypeOK, PhaseInv, OpInv, Working, Resting, OwnInv
<1>11. ASSUME NEW w \in Workers, Sync2(w) PROVE UnscannedInv'
  BY <1>11 DEF Sync2, UnscannedInv
<1>12. ASSUME NEW w \in Workers, GlobalSync2(w) PROVE UnscannedInv'
  BY <1>12 DEF GlobalSync2, UnscannedInv, ControlInv, TypeInv, TypeOK, PhaseInv
<1>13. ASSUME NEW w \in Workers, StartTrace(w) PROVE UnscannedInv'
  BY <1>13 DEF StartTrace, UnscannedInv
<1>14. ASSUME NEW w \in Workers, NEW o \in Objs, TracePop(w, o) PROVE UnscannedInv'
  BY <1>14 DEF TracePop, UnscannedInv, ControlInv, PhaseInv, OpInv, Resting
<1>15. ASSUME NEW w \in Workers, TracePush(w) PROVE UnscannedInv'
  BY <1>15 DEF TracePush, UnscannedInv, ControlInv, PhaseInv, OpInv, Resting
<1>16. ASSUME NEW w \in Workers, TraceEnd(w) PROVE UnscannedInv'
  BY <1>16 DEF TraceEnd, UnscannedInv, Pending, Held, Pushed
<1>17. ASSUME NEW w \in Workers, Async(w) PROVE UnscannedInv'
  BY <1>17 DEF Async, UnscannedInv
<1>18. ASSUME NEW w \in Workers, Signal(w) PROVE UnscannedInv'
  BY <1>18 DEF Signal, UnscannedInv, Pending, Held, Pushed
<1>19. ASSUME StartGC PROVE UnscannedInv'
  BY <1>19 DEF StartGC, Announce, UnscannedInv, ControlInv, PhaseInv, OwnInv,
     CleanInv
<1>20. ASSUME NextRound PROVE UnscannedInv'
  BY <1>20 DEF NextRound, Announce, Begin, UnscannedInv
<1>21. ASSUME NEW w \in Workers, LookEmpty(w) PROVE UnscannedInv'
  BY <1>21 DEF LookEmpty, UnscannedInv, Pending, Held, Pushed
<1>22. ASSUME NEW w \in Workers, LookAgain(w) PROVE UnscannedInv'
  BY <1>22 DEF LookAgain, Announce, Begin, UnscannedInv
<1>23. ASSUME LookDone PROVE UnscannedInv'
  BY <1>23 DEF LookDone, Announce, Begin, UnscannedInv
<1>24. ASSUME LookGrown PROVE UnscannedInv'
  BY <1>24 DEF LookGrown, Announce, Begin, UnscannedInv
<1>25. ASSUME NEW w \in Workers, Register(w) PROVE UnscannedInv'
  BY <1>25 DEF Register, Join, UnscannedInv, Pending, Held, Pushed
<1> QED BY <1>1, <1>2, <1>3, <1>4, <1>5, <1>6, <1>7, <1>8, <1>9, <1>10, <1>11,
       <1>12, <1>13, <1>14, <1>15, <1>16, <1>17, <1>18, <1>19, <1>20, <1>21,
       <1>22, <1>23, <1>24, <1>25 DEF Next, Mutator, Poll, Runtime, Coordinator

\* What a barrier has visited is alive when the store follows.
LEMMA BarrierStep ==
  ASSUME ControlInv, ControlInv', HeapInv, Next, missed = {}, missed' = {}
  PROVE  BarrierInv'
<1> USE ConstantsDiffer, HomeType DEF HeapInv, Writing, Labels, Ops, Cell, Ptr,
       Phases, Successors, Pre, NoOp, control, objects, sets, frames, Goto,
       Phase, Respond, Does, Accepts, Return, ASYNC, MARK, PREASYNC, PREMARK,
       PRESYNC1, PRESYNC2, SYNC1, SYNC2
<1>1. ASSUME NEW w \in Workers, NEW o \in Objs, NEW v \in Ptr, Alloc(w, o, v) PROVE BarrierInv'
  BY <1>1 DEF Alloc, NewTarget, BeforeSnapshot, BarrierInv, IsAlive, ClosedInv,
     ControlInv, TypeInv, TypeOK, OpInv, Working
<1>2. ASSUME NEW w \in Workers, NEW x \in Cell, Load(w, x) PROVE BarrierInv'
  BY <1>2 DEF Load, BarrierInv, IsAlive
<1>3. ASSUME NEW w \in Workers, NEW o \in Objs, Drop(w, o) PROVE BarrierInv'
  BY <1>3 DEF Drop, BarrierInv, IsAlive
<1>4. ASSUME NEW w \in Workers, NEW x \in Cell, NEW v \in Ptr, Write(w, x, v) PROVE BarrierInv'
  BY <1>4 DEF Write, BarrierInv, IsAlive
<1>5. ASSUME NEW w \in Workers, NEW x \in Cell, NEW e \in Ptr, NEW v \in Ptr, CmpSwap(w, x, e, v) PROVE BarrierInv'
  <2>1. CASE field[x] # e
    BY <1>5, <2>1 DEF CmpSwap, BarrierInv, IsAlive
  <2>2. CASE field[x] = e
    <3>1. /\ field' = [field EXCEPT ![x] = v]
          /\ op' = [op EXCEPT ![w] = [obj |-> x, old |-> e, new |-> v, cas |-> TRUE]]
          /\ pc' = [pc EXCEPT ![w] = "barrier"] /\ pc[w] = "run" /\ w \in members
          /\ e \in roots[w] \cup {Nil} /\ v \in roots[w] \cup {Nil}
          /\ UNCHANGED <<members, round, phase, roots, allocated, target, mark, gray, remembered>>
      BY <1>5, <2>2 DEF CmpSwap
    <3>2. \A u \in Workers \ {w} : op'[u] = op[u] /\ pc'[u] = pc[u]
      BY <3>1
    <3>3. pc'[w] = "barrier"
      BY <3>1 DEF ControlInv, TypeInv
    <3> QED BY <3>1, <3>2, <3>3 DEF BarrierInv, IsAlive
  <2> QED BY <2>1, <2>2
<1>6. ASSUME NEW w \in Workers, Barrier(w) PROVE BarrierInv'
  BY <1>6 DEF Barrier, BarrierMode, BarrierInv, IsAlive
<1>7. ASSUME NEW w \in Workers, RememberVisit(w) PROVE BarrierInv'
  BY <1>7 DEF RememberVisit, BarrierVisit, Visits, AfterBarrier, BarrierInv,
     IsAlive, ClosedInv, HeldInv, Pending, Held, Pushed, ControlInv, TypeInv,
     TypeOK, PhaseInv, OpInv, Working, Resting, OwnInv
<1>8. ASSUME NEW w \in Workers, RememberPush(w) PROVE BarrierInv'
  BY <1>8 DEF RememberPush, BarrierInv, IsAlive, HeldInv, Pending, Held, Pushed
<1>9. ASSUME NEW w \in Workers, Store(w) PROVE BarrierInv'
  BY <1>9 DEF Store, BarrierInv, IsAlive, ClosedInv, HeldInv, Pending, Held,
     Pushed, ControlInv, TypeInv, TypeOK, PhaseInv, OpInv, Working, Resting,
     OwnInv
<1>10. ASSUME NEW w \in Workers, Sync1(w) PROVE BarrierInv'
  BY <1>10 DEF Sync1, BarrierInv, IsAlive
<1>11. ASSUME NEW w \in Workers, Sync2(w) PROVE BarrierInv'
  BY <1>11 DEF Sync2, BarrierInv, IsAlive, ControlInv, TypeInv, TypeOK
<1>12. ASSUME NEW w \in Workers, GlobalSync2(w) PROVE BarrierInv'
  BY <1>12 DEF GlobalSync2, BarrierInv, IsAlive
<1>13. ASSUME NEW w \in Workers, StartTrace(w) PROVE BarrierInv'
  BY <1>13 DEF StartTrace, SetTaken, BarrierInv, IsAlive, ClosedInv, HeldInv,
     Pending, Held, Pushed, ControlInv, TypeInv, TypeOK, PhaseInv, OpInv,
     Working, Resting, OwnInv
<1>14. ASSUME NEW w \in Workers, NEW o \in Objs, TracePop(w, o) PROVE BarrierInv'
  BY <1>14 DEF TracePop, BarrierInv, IsAlive
<1>15. ASSUME NEW w \in Workers, TracePush(w) PROVE BarrierInv'
  BY <1>15 DEF TracePush, Visits, BarrierInv, IsAlive, ClosedInv, HeldInv,
     Pending, Held, Pushed, ControlInv, TypeInv, TypeOK, PhaseInv, OpInv,
     Working, Resting, OwnInv
<1>16. ASSUME NEW w \in Workers, TraceEnd(w) PROVE BarrierInv'
  BY <1>16 DEF TraceEnd, BarrierInv, IsAlive
<1>17. ASSUME NEW w \in Workers, Async(w) PROVE BarrierInv'
  BY <1>17 DEF Async, BarrierInv
<1>18. ASSUME NEW w \in Workers, Signal(w) PROVE BarrierInv'
  BY <1>18 DEF Signal, BarrierInv, IsAlive, ControlInv, PhaseInv
<1>19. ASSUME StartGC PROVE BarrierInv'
  BY <1>19 DEF StartGC, Announce, Begin, BarrierInv, ControlInv, PhaseInv
<1>20. ASSUME NextRound PROVE BarrierInv'
  BY <1>20 DEF NextRound, Announce, Begin, BarrierInv, IsAlive
<1>21. ASSUME NEW w \in Workers, LookEmpty(w) PROVE BarrierInv'
  BY <1>21 DEF LookEmpty, BarrierInv, IsAlive
<1>22. ASSUME NEW w \in Workers, LookAgain(w) PROVE BarrierInv'
  BY <1>22 DEF LookAgain, Announce, Begin, BarrierInv, IsAlive
<1>23. ASSUME LookDone PROVE BarrierInv'
  BY <1>23 DEF LookDone, Announce, Begin, BarrierInv
<1>24. ASSUME LookGrown PROVE BarrierInv'
  BY <1>24 DEF LookGrown, Announce, Begin, BarrierInv, IsAlive
<1>25. ASSUME NEW w \in Workers, Register(w) PROVE BarrierInv'
  BY <1>25 DEF Register, Join, BarrierInv, IsAlive, ControlInv, OpInv, Resting
<1> QED BY <1>1, <1>2, <1>3, <1>4, <1>5, <1>6, <1>7, <1>8, <1>9, <1>10, <1>11,
       <1>12, <1>13, <1>14, <1>15, <1>16, <1>17, <1>18, <1>19, <1>20, <1>21,
       <1>22, <1>23, <1>24, <1>25 DEF Next, Mutator, Poll, Runtime, Coordinator

\* sml_heap_worker_async leaves no collect bit of the worker behind, and only a
\* late barrier sets one again.
LEMMA CleanStep ==
  ASSUME ControlInv, ControlInv', CleanInv, Next, "late" \notin missed'
  PROVE  CleanInv'
<1> USE ConstantsDiffer, HomeType DEF Writing, Labels, Ops, Cell, Ptr,
       Phases, Successors, Pre, NoOp, control, objects, sets, frames, Goto,
       Phase, Respond, Does, Accepts, Return, ASYNC, MARK, PREASYNC, PREMARK,
       PRESYNC1, PRESYNC2, SYNC1, SYNC2
<1>1. ASSUME NEW w \in Workers, NEW o \in Objs, NEW v \in Ptr, Alloc(w, o, v) PROVE CleanInv'
  BY <1>1 DEF Alloc, CleanInv
<1>2. ASSUME NEW w \in Workers, NEW x \in Cell, Load(w, x) PROVE CleanInv'
  BY <1>2 DEF Load, CleanInv
<1>3. ASSUME NEW w \in Workers, NEW o \in Objs, Drop(w, o) PROVE CleanInv'
  BY <1>3 DEF Drop, CleanInv
<1>4. ASSUME NEW w \in Workers, NEW x \in Cell, NEW v \in Ptr, Write(w, x, v) PROVE CleanInv'
  BY <1>4 DEF Write, CleanInv
<1>5. ASSUME NEW w \in Workers, NEW x \in Cell, NEW e \in Ptr, NEW v \in Ptr, CmpSwap(w, x, e, v) PROVE CleanInv'
  BY <1>5 DEF CmpSwap, CleanInv
<1>6. ASSUME NEW w \in Workers, Barrier(w) PROVE CleanInv'
  BY <1>6 DEF Barrier, CleanInv
<1>7. ASSUME NEW w \in Workers, RememberVisit(w) PROVE CleanInv'
  <2> DEFINE o == IF pc[w] = "visitnew" THEN op[w].new ELSE op[w].old
  <2>1. mark' \subseteq mark \cup {o} /\ UNCHANGED <<round, phase>>
    BY <1>7 DEF RememberVisit, BarrierVisit
  <2>2. ~(Visits(o) /\ Late(o))
    BY <1>7 DEF RememberVisit, BarrierVisit
  <2>3. o \in mark' \ mark => Visits(o)
    BY <1>7 DEF RememberVisit, BarrierVisit
  <2> QED BY <2>1, <2>2, <2>3 DEF CleanInv, Late
<1>8. ASSUME NEW w \in Workers, RememberPush(w) PROVE CleanInv'
  BY <1>8 DEF RememberPush, CleanInv
<1>9. ASSUME NEW w \in Workers, Store(w) PROVE CleanInv'
  BY <1>9 DEF Store, CleanInv
<1>10. ASSUME NEW w \in Workers, Sync1(w) PROVE CleanInv'
  BY <1>10 DEF Sync1, CleanInv
<1>11. ASSUME NEW w \in Workers, Sync2(w) PROVE CleanInv'
  BY <1>11 DEF Sync2, CleanInv
<1>12. ASSUME NEW w \in Workers, GlobalSync2(w) PROVE CleanInv'
  BY <1>12 DEF GlobalSync2, CleanInv, ControlInv, PhaseInv, OpInv, Resting
<1>13. ASSUME NEW w \in Workers, StartTrace(w) PROVE CleanInv'
  BY <1>13 DEF StartTrace, CleanInv
<1>14. ASSUME NEW w \in Workers, NEW o \in Objs, TracePop(w, o) PROVE CleanInv'
  BY <1>14 DEF TracePop, CleanInv
<1>15. ASSUME NEW w \in Workers, TracePush(w) PROVE CleanInv'
  BY <1>15 DEF TracePush, CleanInv, ControlInv, PhaseInv, OpInv, Resting
<1>16. ASSUME NEW w \in Workers, TraceEnd(w) PROVE CleanInv'
  BY <1>16 DEF TraceEnd, CleanInv
<1>17. ASSUME NEW w \in Workers, Async(w) PROVE CleanInv'
  BY <1>17 DEF Async, Cleared, CleanInv
<1>18. ASSUME NEW w \in Workers, Signal(w) PROVE CleanInv'
  BY <1>18 DEF Signal, CleanInv
<1>19. ASSUME StartGC PROVE CleanInv'
  BY <1>19 DEF StartGC, Announce, CleanInv
<1>20. ASSUME NextRound PROVE CleanInv'
  BY <1>20 DEF NextRound, Announce, Begin, CleanInv
<1>21. ASSUME NEW w \in Workers, LookEmpty(w) PROVE CleanInv'
  BY <1>21 DEF LookEmpty, CleanInv
<1>22. ASSUME NEW w \in Workers, LookAgain(w) PROVE CleanInv'
  BY <1>22 DEF LookAgain, NoLook, Announce, Begin, CleanInv, ControlInv,
     TypeInv, TypeOK, PhaseInv, OpInv, Working, Resting, OwnInv
<1>23. ASSUME LookDone PROVE CleanInv'
  BY <1>23 DEF LookDone, Announce, CleanInv, ControlInv, PhaseInv, OwnInv
<1>24. ASSUME LookGrown PROVE CleanInv'
  BY <1>24 DEF LookGrown, Announce, Begin, CleanInv
<1>25. ASSUME NEW w \in Workers, Register(w) PROVE CleanInv'
  BY <1>25 DEF Register, Join, CleanInv, ControlInv, OwnInv
<1> QED BY <1>1, <1>2, <1>3, <1>4, <1>5, <1>6, <1>7, <1>8, <1>9, <1>10, <1>11,
       <1>12, <1>13, <1>14, <1>15, <1>16, <1>17, <1>18, <1>19, <1>20, <1>21,
       <1>22, <1>23, <1>24, <1>25 DEF Next, Mutator, Poll, Runtime, Coordinator

------------------------------------------------------------------------------
(* The safe objects.                                                          *)

\* What is safe is in the heap.
LEMMA SourcesAllocated ==
  ASSUME ControlInv, HeldInv, ClosedInv, round # ASYNC
  PROVE  Sources \subseteq allocated
<1> SUFFICES ASSUME NEW o \in Sources PROVE o \in allocated
  OBVIOUS
<1>0. \A w \in Workers : Held(w) \subseteq allocated
  BY DEF HeldInv, Pending, ControlInv, OwnInv
<1>1. CASE \E x \in Pending : field[x] = o
  BY <1>0, <1>1, ConstantsDiffer DEF Sources, Pending, ClosedInv
<1>2. CASE field[Global] = o
  BY <1>2, ConstantsDiffer DEF Sources, ClosedInv
<1>3. CASE \E w \in Workers : op[w].old = o
  BY <1>3, ConstantsDiffer DEF Sources, ClosedInv
<1>4. CASE \E w \in Workers : SwappedIn(w) /\ op[w].new = o
  <2>1. PICK w \in Workers : SwappedIn(w) /\ op[w].new = o
    BY <1>4
  <2>2. pc[w] \in Writing
    BY <2>1 DEF SwappedIn, Writing
  <2>3. o # Nil
    BY ConstantsDiffer DEF Sources
  <2>4. o \in roots[w]
    BY <2>1, <2>2, <2>3 DEF ControlInv, OpInv, Working
  <2> QED BY <2>4 DEF ClosedInv
<1> QED BY <1>1, <1>2, <1>3, <1>4 DEF Sources

\* Tracing from the sources does not leave Safe ...
LEMMA SafeComplete == TypeOK => Complete(Safe) /\ Safe \subseteq Objs
<1> SUFFICES ASSUME TypeOK PROVE Complete(Safe)
  BY DEF Safe
<1>1. Young \subseteq Objs /\ mark \subseteq Objs /\ Sources \subseteq Objs
  BY DEF TypeOK, Young, Sources
<1>2. Young \subseteq Safe /\ mark \subseteq Safe /\ Sources \subseteq Safe
  BY <1>1 DEF Safe, Complete
<1>3. ASSUME NEW x \in Safe, x \in target \ mark, ~Unsure(x), field[x] # Nil
      PROVE  field[x] \in Safe
  <2>1. field[x] \in Objs
    BY <1>3 DEF TypeOK, Safe, Cell, Ptr
  <2>2. ASSUME NEW S \in SUBSET Objs, Complete(S) PROVE field[x] \in S
    <3>1. x \in S
      BY <2>2 DEF Safe
    <3> QED BY <3>1, <2>2, <1>3 DEF Complete
  <2> QED BY <2>1, <2>2 DEF Safe
<1> QED BY <1>2, <1>3 DEF Complete

\* ... and no smaller set is complete.
LEMMA SafeLeast ==
  ASSUME NEW S \in SUBSET Objs, Complete(S)
  PROVE  Safe \subseteq S
BY DEF Safe

\* No safe object has been given back.
LEMMA SafeAllocated ==
  ControlInv /\ HeldInv /\ ClosedInv /\ round # ASYNC => Safe \subseteq allocated
<1> SUFFICES ASSUME ControlInv, HeldInv, ClosedInv, round # ASYNC PROVE Safe \subseteq allocated
  OBVIOUS
<1>1. Young \subseteq allocated /\ mark \subseteq allocated /\ allocated \subseteq Objs
  BY DEF ControlInv, TypeInv, TypeOK, OwnInv, Young
<1>2. \A x \in allocated : field[x] \in allocated \cup {Nil}
  BY DEF ClosedInv
<1>3. Complete(allocated)
  BY <1>1, <1>2, SourcesAllocated DEF Complete
<1> QED BY <1>1, <1>3, SafeLeast

\* A step after which nothing that was to be visited is forgotten, and which
\* changes no cell but c.
Scan(c) ==
  /\ \A x \in Cell \ {c} : field'[x] = field[x] /\ (Unsure(x)' => Unsure(x))
  /\ \A x \in Objs \ {c} : /\ x \in allocated' <=> x \in allocated
                           /\ x \in target' <=> x \in target
  /\ Young \subseteq Young'
  /\ mark \subseteq mark' /\ mark' \subseteq mark \cup Pending'
  /\ \A x \in Pending \ Pending' : \E w \in Workers : pc'[w] = "push" /\ op'[w].old = field[x]
  /\ genum # Nil => genum' # Nil \/ field[Global] \in mark' \cup Young' \cup {Nil}
  /\ \A w \in Workers :
       /\ ToVisit(w) => \/ ToVisit(w)' /\ op'[w].old = op[w].old
                        \/ op[w].old \in mark' \cup Young' \cup {Nil}
       /\ SwappedIn(w) => \/ SwappedIn(w)' /\ op'[w].new = op[w].new
                          \/ op[w].new \in mark' \cup Young' \cup {Nil}

\* What completeness says, one by one.
LEMMA SafeParts ==
  ASSUME ControlInv, HeldInv, ClosedInv, round # ASYNC
  PROVE  /\ Complete(Safe) /\ Safe \subseteq allocated
         /\ Young \subseteq Safe /\ mark \subseteq Safe /\ Sources \subseteq Safe
         /\ \A x \in Pending : ~Unsure(x) => field[x] \in Safe \cup {Nil}
<1>1. TypeOK
  BY DEF ControlInv, TypeInv
<1>2. Complete(Safe) /\ Safe \subseteq allocated
  BY <1>1, SafeComplete, SafeAllocated
<1>3. Young \subseteq Safe /\ mark \subseteq Safe /\ Sources \subseteq Safe
  BY <1>2 DEF Complete
<1>4. ASSUME NEW x \in Pending, ~Unsure(x), field[x] # Nil
      PROVE  field[x] \in Sources
  <2>1. x \in Objs
    BY <1>1 DEF HeldInv, TypeOK
  <2>2. field[x] \in Objs
    BY <1>1, <1>4, <2>1 DEF TypeOK, Cell, Ptr
  <2> QED BY <1>4, <2>2 DEF Sources
<1> QED BY <1>2, <1>3, <1>4

\* The same after a step.
LEMMA SafePartsNext ==
  ASSUME ControlInv', HeldInv', ClosedInv', round' # ASYNC
  PROVE  /\ Complete(Safe)' /\ Safe' \subseteq allocated'
         /\ Young' \subseteq Safe' /\ mark' \subseteq Safe' /\ Sources' \subseteq Safe'
         /\ \A x \in Pending' : ~Unsure(x)' => field'[x] \in Safe' \cup {Nil}
<1>1. (ControlInv /\ HeldInv /\ ClosedInv /\ round # ASYNC =>
         /\ Complete(Safe) /\ Safe \subseteq allocated
         /\ Young \subseteq Safe /\ mark \subseteq Safe /\ Sources \subseteq Safe
         /\ \A x \in Pending : ~Unsure(x) => field[x] \in Safe \cup {Nil})'
  BY SafeParts, PTL
<1> QED BY <1>1

\* What was safe remains safe, if what was in c does.
LEMMA ScanGrows ==
  ASSUME ControlInv, ControlInv', HeldInv, HeldInv', ClosedInv, ClosedInv',
         round # ASYNC, round' # ASYNC, NEW c \in Cell \cup {Nil}, Scan(c),
         c \in allocated \cup {Global} /\ ~Unsure(c) => field[c] \in Safe' \cup {Nil}
  PROVE  Safe \subseteq Safe'
<1> USE ConstantsDiffer
<1>1. /\ Complete(Safe)' /\ Safe' \subseteq allocated'
      /\ Young' \subseteq Safe' /\ mark' \subseteq Safe' /\ Sources' \subseteq Safe'
      /\ \A x \in Pending' : ~Unsure(x)' => field'[x] \in Safe' \cup {Nil}
  BY SafePartsNext
<1>2. TypeOK /\ TypeOK' /\ mark \subseteq allocated /\ target \subseteq allocated
  BY DEF ControlInv, TypeInv, OwnInv
<1>3. Young \subseteq Safe' /\ mark \subseteq Safe'
  BY <1>1 DEF Scan
<1>4. ASSUME NEW o \in Sources PROVE o \in Safe'
  <2>1. o \in Objs /\ o # Nil
    BY DEF Sources
  <2>2. CASE \E x \in Pending : ~Unsure(x) /\ field[x] = o
    <3>1. PICK x \in Pending : ~Unsure(x) /\ field[x] = o
      BY <2>2
    <3>2. x \in Cell /\ x \in allocated
      BY <1>2 DEF HeldInv, TypeOK, Cell
    <3>3. CASE x = c
      BY <2>1, <3>1, <3>2, <3>3
    <3>4. CASE x # c /\ x \in Pending'
      BY <1>1, <2>1, <3>1, <3>2, <3>4 DEF Scan
    <3>5. CASE x \notin Pending'
      <4>1. PICK w \in Workers : pc'[w] = "push" /\ op'[w].old = o
        BY <3>1, <3>5 DEF Scan
      <4>2. o \in Sources'
        BY <2>1, <4>1 DEF Sources, ToVisit
      <4> QED BY <1>1, <4>2
    <3> QED BY <3>3, <3>4, <3>5
  <2>3. CASE genum # Nil /\ ~Unsure(Global) /\ field[Global] = o
    <3>1. CASE Global = c
      BY <2>1, <2>3, <3>1
    <3>2. CASE Global # c /\ genum' # Nil
      <4>1. field'[Global] = o /\ ~Unsure(Global)'
        BY <2>3, <3>2 DEF Scan, Cell
      <4>2. o \in Sources'
        BY <2>1, <3>2, <4>1 DEF Sources
      <4> QED BY <1>1, <4>2
    <3>3. CASE genum' = Nil
      BY <1>1, <2>1, <2>3, <3>3 DEF Scan
    <3> QED BY <3>1, <3>2, <3>3
  <2>4. CASE \E w \in Workers : ToVisit(w) /\ op[w].old = o
    <3>1. PICK w \in Workers : ToVisit(w) /\ op[w].old = o
      BY <2>4
    <3>2. ToVisit(w)' /\ op'[w].old = o => o \in Sources'
      BY <2>1 DEF Sources
    <3> QED BY <1>1, <2>1, <3>1, <3>2 DEF Scan
  <2>5. CASE \E w \in Workers : SwappedIn(w) /\ op[w].new = o
    <3>1. PICK w \in Workers : SwappedIn(w) /\ op[w].new = o
      BY <2>5
    <3>2. SwappedIn(w)' /\ op'[w].new = o => o \in Sources'
      BY <2>1 DEF Sources
    <3> QED BY <1>1, <2>1, <3>1, <3>2 DEF Scan
  <2> QED BY <2>2, <2>3, <2>4, <2>5 DEF Sources
<1>5. ASSUME NEW x \in Safe', x \in target \ mark, ~Unsure(x)
      PROVE  field[x] \in Safe' \cup {Nil}
  <2>1. x \in Objs /\ x \in Cell /\ x \in allocated
    BY <1>2, <1>5 DEF TypeOK, Cell
  <2>2. CASE x = c
    BY <1>5, <2>1, <2>2
  <2>3. CASE x # c
    <3>1. field'[x] = field[x] /\ ~Unsure(x)' /\ x \in target'
      BY <1>5, <2>1, <2>3 DEF Scan
    <3>2. CASE x \in mark'
      BY <1>1, <1>5, <3>1, <3>2 DEF Scan
    <3>3. CASE x \notin mark'
      BY <1>1, <3>1, <3>3 DEF Complete
    <3> QED BY <3>2, <3>3
  <2> QED BY <2>2, <2>3
<1>6. Complete(Safe')
  BY <1>3, <1>4, <1>5 DEF Complete
<1>7. PICK T \in SUBSET Objs : T = Safe'
  BY <1>1, <1>2 DEF TypeOK
<1>8. Complete(T)
  BY <1>6, <1>7
<1> QED BY <1>7, <1>8, SafeLeast

\* Safe objects lead to safe objects, if what is now in c is one.
LEMMA ScanCells ==
  ASSUME ControlInv, ControlInv', HeldInv, HeldInv', ClosedInv, ClosedInv',
         round # ASYNC, round' # ASYNC, NEW c \in Cell \cup {Nil}, Scan(c),
         Safe \subseteq Safe', SafeCells,
         c \in Safe' \cup {Global} \/ Unsure(c)' => field'[c] \in Safe' \cup {Nil}
  PROVE  SafeCells'
<1> USE ConstantsDiffer
<1>1. /\ Complete(Safe)' /\ Safe' \subseteq allocated'
      /\ \A x \in Pending' : ~Unsure(x)' => field'[x] \in Safe' \cup {Nil}
  BY SafePartsNext
<1>2. Young \subseteq Safe /\ mark \subseteq Safe
  BY SafeParts
<1>3. allocated' \subseteq Objs
  BY DEF ControlInv, TypeInv, TypeOK
<1> SUFFICES ASSUME NEW x \in Cell, x \in Safe' \cup {Global} \/ Unsure(x)', x # c
             PROVE  field'[x] \in Safe' \cup {Nil}
  BY DEF SafeCells
<1>4. field'[x] = field[x] /\ (Unsure(x)' => Unsure(x))
  BY DEF Scan
<1>5. CASE Unsure(x)' \/ x = Global \/ x \in Safe
  BY <1>4, <1>5 DEF SafeCells
<1>6. CASE x \in Safe' /\ x \notin Safe /\ ~Unsure(x)'
  <2>1. x \in target'
    BY <1>1, <1>2, <1>3, <1>6 DEF Scan, Young
  <2>2. CASE x \in mark'
    BY <1>1, <1>2, <1>6, <2>2 DEF Scan
  <2>3. CASE x \notin mark'
    BY <1>1, <1>6, <2>1, <2>3 DEF Complete
  <2> QED BY <2>2, <2>3
<1> QED BY <1>5, <1>6

\* A step that only scans keeps the safe objects safe.
LEMMA ScanSafe ==
  ASSUME ControlInv, ControlInv', HeldInv, HeldInv', ClosedInv, ClosedInv',
         round # ASYNC, round' # ASYNC, Scan(Nil), SafeCells
  PROVE  Safe \subseteq Safe' /\ SafeCells'
<1>1. Nil \notin Objs /\ Nil # Global /\ Nil \notin allocated /\ Nil \notin Safe'
  BY ConstantsDiffer DEF ControlInv, TypeInv, TypeOK, Safe
<1>2. ~Unsure(Nil)'
  BY <1>1 DEF Unsure, ControlInv, TypeInv, TypeOK, OpInv, Working
<1>3. Safe \subseteq Safe'
  BY <1>1, ScanGrows
<1> QED BY <1>1, <1>2, <1>3, ScanCells

------------------------------------------------------------------------------
(* The steps that write cells.                                                *)

\* A new block points at what its worker could come to.
LEMMA AllocSafe ==
  ASSUME ControlInv, ControlInv', HeldInv, HeldInv', ClosedInv, ClosedInv',
         round \in {SYNC2, MARK}, SafeRoots, SafeCells,
         NEW w \in Workers, NEW o \in Objs, NEW v \in Ptr, Alloc(w, o, v)
  PROVE  Safe \subseteq Safe' /\ SafeCells'
<1> USE ConstantsDiffer, HomeType DEF SYNC2, MARK, ASYNC
<1>1. /\ o \notin allocated /\ allocated' = allocated \cup {o} /\ Home[o] = w
      /\ target' = (target \ {o}) \cup NewTarget(w, o)
      /\ field' = [field EXCEPT ![o] = v] /\ v \in roots[w] \cup {Nil}
      /\ w \in members
      /\ UNCHANGED <<round, members, phase, genum, mark, gray, remembered, pc, op>>
  BY DEF Alloc, Does, control, sets
<1>2. /\ mark \subseteq allocated /\ target \subseteq allocated /\ Pending \subseteq mark
      /\ allocated \subseteq Objs /\ \A u \in Workers : roots[u] \subseteq allocated
      /\ field \in [Cell -> Ptr]
  BY DEF ControlInv, OwnInv, TypeInv, TypeOK, HeldInv, ClosedInv
<1>3. Pending' = Pending
  BY <1>1 DEF Pending, Held, Pushed
<1>4. \A x \in Cell \ {o} : field'[x] = field[x]
  BY <1>1, <1>2
<1>5. ~Unsure(o) /\ ~Unsure(o)'
  <2>1. ASSUME NEW u \in Workers, pc[u] \in Writing PROVE op[u].obj # o
    BY <1>1, <1>2, <2>1 DEF ControlInv, OpInv, Working
  <2> QED BY <1>1, <2>1 DEF Unsure
<1>6. \A x \in Cell \ {o} : Unsure(x)' <=> Unsure(x)
  BY <1>1, <1>4 DEF Unsure
<1>7. \A u \in Workers : /\ ToVisit(u)' <=> ToVisit(u)
                         /\ SwappedIn(u)' <=> SwappedIn(u)
  BY <1>1 DEF ToVisit, SwappedOut, SwappedIn
<1>8. Scan(o)
  BY <1>1, <1>2, <1>3, <1>4, <1>6, <1>7 DEF Scan, Young, NewTarget
<1>9. Safe \subseteq Safe'
  BY <1>1, <1>8, ScanGrows DEF Cell
<1>10. o \in Safe' => v \in Safe' \cup {Nil}
  <2>1. CASE BeforeSnapshot(phase[w])
    <3>1. Young' \subseteq allocated /\ mark' \subseteq allocated
      BY <1>1, <1>2, <2>1 DEF Young, NewTarget
    <3>2. Sources' \subseteq allocated
      <4>1. Sources' \subseteq Sources
        BY <1>1, <1>2, <1>3, <1>4, <1>6, <1>7 DEF Sources, Cell
      <4> QED BY <4>1, SourcesAllocated
    <3>3. \A x \in allocated : field'[x] \in allocated \cup {Nil}
      BY <1>1, <1>2, <1>4 DEF ClosedInv, Cell
    <3>4. PICK A \in SUBSET Objs : A = allocated
      BY <1>2
    <3>5. Complete(A)'
      BY <3>1, <3>2, <3>3, <3>4 DEF Complete
    <3>6. Safe' \subseteq A
      BY <3>5 DEF Safe
    <3> QED BY <1>1, <3>4, <3>6
  <2>2. CASE ~BeforeSnapshot(phase[w])
    <3>1. phase[w] >= SYNC2
      BY <1>1, <2>2 DEF ControlInv, PhaseInv, TypeInv, TypeOK, Phases, BeforeSnapshot, Successors,
                        Pre, PRESYNC2
    <3> QED BY <1>1, <1>9, <3>1 DEF SafeRoots
  <2> QED BY <2>1, <2>2
<1>11. field'[o] = v /\ o # Global /\ o \in Cell
  BY <1>1, <1>2 DEF Cell
<1>12. SafeCells'
  BY <1>1, <1>5, <1>8, <1>9, <1>10, <1>11, ScanCells
<1> QED BY <1>9, <1>12

\* The value that is taken out of the cell is a source until the barrier has visited it.
LEMMA CmpSwapSafe ==
  ASSUME ControlInv, ControlInv', HeldInv, HeldInv', ClosedInv, ClosedInv',
         round \in {SYNC2, MARK}, SafeRoots, SafeCells,
         NEW w \in Workers, NEW x \in Cell, NEW e \in Ptr, NEW v \in Ptr, CmpSwap(w, x, e, v)
  PROVE  Safe \subseteq Safe' /\ SafeCells'
<1> USE ConstantsDiffer DEF SYNC2, MARK, ASYNC
<1>1. /\ pc[w] = "run" /\ op[w] = NoOp /\ w \in members
      /\ v \in roots[w] \cup {Nil} /\ e \in roots[w] \cup {Nil}
      /\ UNCHANGED <<members, round, phase, genum, roots, allocated, target, mark, gray,
                     remembered>>
  BY DEF CmpSwap, Does, control, sets, ControlInv, OpInv, Working, Writing
<1>2. CASE field[x] # e
  <2>1. UNCHANGED <<field, op, pc>>
    BY <1>2 DEF CmpSwap
  <2>2. Scan(Nil)
    BY <1>1, <2>1 DEF Scan, Unsure, Pending, Held, Pushed, Young, ToVisit, SwappedOut, SwappedIn
  <2> QED BY <1>1, <2>2, ScanSafe
<1>3. CASE field[x] = e
  <2>1. /\ field' = [field EXCEPT ![x] = v]
        /\ op' = [op EXCEPT ![w] = [obj |-> x, old |-> e, new |-> v, cas |-> TRUE]]
        /\ pc' = [pc EXCEPT ![w] = "barrier"]
    BY <1>3 DEF CmpSwap, Goto
  <2>2. /\ \A y \in Cell \ {x} : field'[y] = field[y]
        /\ field'[x] = v
        /\ \A u \in Workers \ {w} : op'[u] = op[u] /\ pc'[u] = pc[u]
        /\ op'[w] = [obj |-> x, old |-> e, new |-> v, cas |-> TRUE] /\ pc'[w] = "barrier"
    BY <2>1 DEF ControlInv, TypeInv, TypeOK
  <2>3. Pending' = Pending
    BY <1>1, <2>2 DEF Pending, Held, Pushed
  <2>4. \A y \in Cell \ {x} : Unsure(y)' => Unsure(y)
    BY <2>2 DEF Unsure
  <2>5. \A u \in Workers : /\ ToVisit(u) => ToVisit(u)' /\ op'[u].old = op[u].old
                           /\ SwappedIn(u) => SwappedIn(u)' /\ op'[u].new = op[u].new
    BY <1>1, <2>2 DEF ToVisit, SwappedOut, SwappedIn
  <2>6. Scan(x)
    BY <1>1, <2>2, <2>3, <2>4, <2>5 DEF Scan, Young
  <2>7. /\ Sources' \subseteq Safe'
        /\ e \in Sources' \cup {Nil}
        /\ phase[w] < SYNC2 => v \in Sources' \cup {Nil}
    <3>1. Sources' \subseteq Safe'
      BY <1>1, SafePartsNext
    <3>2. e \in Sources' \cup {Nil}
      BY <2>2 DEF Sources, ToVisit, SwappedOut, Ptr
    <3>3. phase[w] < SYNC2 => v \in Sources' \cup {Nil}
      BY <1>1, <2>2 DEF Sources, SwappedIn, Ptr
    <3> QED BY <3>1, <3>2, <3>3
  <2>8. Safe \subseteq Safe'
    BY <1>1, <1>3, <2>6, <2>7, ScanGrows
  <2>9. v \in Safe' \cup {Nil}
    <3>1. CASE phase[w] < SYNC2
      BY <2>7, <3>1
    <3>2. CASE ~(phase[w] < SYNC2)
      BY <1>1, <2>8, <3>2 DEF SafeRoots, ControlInv, TypeInv, TypeOK, Phases
    <3> QED BY <3>1, <3>2
  <2> QED BY <1>1, <2>2, <2>6, <2>8, <2>9, ScanCells
<1> QED BY <1>2, <1>3

\* The overwritten value is marked; what is stored is safe, or was marked too.
LEMMA StoreSafe ==
  ASSUME ControlInv, ControlInv', HeldInv, HeldInv', ClosedInv, ClosedInv',
         round \in {SYNC2, MARK}, BarrierInv, SafeRoots, SafeCells, NEW w \in Workers, Store(w)
  PROVE  Safe \subseteq Safe' /\ SafeCells'
<1> USE ConstantsDiffer DEF SYNC2, MARK, ASYNC
<1>1. /\ pc[w] \in {"store", "return"} /\ pc'[w] = "run" /\ op'[w] = NoOp
      /\ \A u \in Workers \ {w} : op'[u] = op[u] /\ pc'[u] = pc[u]
      /\ UNCHANGED <<members, round, phase, genum, roots, allocated, target, mark, gray,
                     remembered>>
  BY DEF Store, Return, Goto, control, sets, ControlInv, TypeInv
<1>2. /\ ~ToVisit(w) /\ ~SwappedIn(w)
      /\ \A u \in Workers \ {w} : /\ ToVisit(u)' <=> ToVisit(u)
                                  /\ SwappedIn(u)' <=> SwappedIn(u)
  BY <1>1 DEF ToVisit, SwappedOut, SwappedIn
<1>3. Pending' = Pending
  BY <1>1 DEF Pending, Held, Pushed
<1>4. CASE pc[w] = "return"
  <2>1. op[w].cas /\ UNCHANGED field
    BY <1>4 DEF Store, ControlInv, OpInv, Working
  <2>2. Scan(Nil)
    BY <1>1, <1>2, <1>3, <2>1 DEF Scan, Unsure, Young, Writing
  <2> QED BY <1>1, <2>2, ScanSafe
<1>5. CASE pc[w] = "store"
  <2> DEFINE c == op[w].obj
  <2>1. /\ ~op[w].cas /\ op[w].new \in roots[w] \cup {Nil} /\ c \in roots[w] \cup {Global}
        /\ op[w].old \in allocated \cup {Nil} /\ roots[w] \subseteq allocated
        /\ w \in members
    BY <1>5 DEF ControlInv, OpInv, Working, Resting, Writing, ClosedInv
  <2>2. c \in Cell /\ field' = [field EXCEPT ![c] = op[w].new]
    BY <1>5, <2>1 DEF Store, ControlInv, TypeInv, TypeOK, Cell
  <2>3. field'[c] = op[w].new /\ \A y \in Cell \ {c} : field'[y] = field[y]
    BY <2>2 DEF ControlInv, TypeInv, TypeOK
  <2>4. \A y \in Cell \ {c} : Unsure(y)' => Unsure(y)
    BY <1>1, <2>3 DEF Unsure, Writing
  <2>5. Scan(c)
    BY <1>1, <1>2, <1>3, <2>3, <2>4 DEF Scan, Young
  <2>6. Young' \subseteq Safe' /\ mark' \subseteq Safe'
    BY <1>1, SafePartsNext
  <2>7. phase[w] \in SYNC1..MARK
    BY <2>1 DEF ControlInv, PhaseInv, TypeInv, TypeOK, Phases, Successors, Pre, SYNC1
  <2>8. ~Unsure(c) => field[c] \in Safe' \cup {Nil}
    <3>1. IsAlive(op[w].old)
      BY <1>5, <2>1, <2>7 DEF BarrierInv
    <3>2. ~Unsure(c) => field[c] = op[w].old
      BY <1>5, <2>1 DEF Unsure, Writing
    <3> QED BY <1>1, <2>1, <2>6, <3>1, <3>2 DEF IsAlive, Young
  <2>9. Safe \subseteq Safe'
    BY <1>1, <2>2, <2>5, <2>8, ScanGrows
  <2>10. op[w].new \in Safe' \cup {Nil}
    <3>1. CASE phase[w] \in {SYNC1, PRESYNC2}
      <4>1. IsAlive(op[w].new)
        BY <1>5, <2>1, <3>1 DEF BarrierInv
      <4> QED BY <1>1, <2>1, <2>6, <4>1 DEF IsAlive, Young
    <3>2. CASE phase[w] >= SYNC2
      BY <2>1, <2>9, <3>2 DEF SafeRoots
    <3> QED BY <2>7, <3>1, <3>2 DEF SYNC1, PRESYNC2
  <2> HIDE DEF c
  <2> QED BY <1>1, <2>2, <2>3, <2>5, <2>9, <2>10, ScanCells
<1> QED BY <1>1, <1>4, <1>5

\* The snapshot: until now nothing has been scanned, so that every marked object
\* is still to be scanned.
\* When SYNC2 is announced everything in the heap is safe: nothing has been scanned,
\* and no thread is about to overwrite a value its barrier has not seen.
LEMMA SnapshotSafe ==
  ASSUME ControlInv, ControlInv', HeldInv, HeldInv', ClosedInv, ClosedInv', UnscannedInv,
         round = SYNC1, NextRound, missed' = {}
  PROVE  SafeInv'
<1> USE ConstantsDiffer DEF SYNC1, SYNC2, MARK, ASYNC
<1>1. /\ waiting = {} /\ round' = SYNC2 /\ \A w \in members : ~Overtaken(w)
      /\ UNCHANGED <<members, phase, genum, field, allocated, target, mark, gray, remembered,
                     roots, pc, op>>
  BY DEF NextRound, Announce, Begin, objects, frames
<1>2. \A w \in members : phase[w] = SYNC1
  BY <1>1 DEF ControlInv, PhaseInv
<1>3. Young = {} /\ genum # Nil /\ members \subseteq Workers
  BY <1>1, <1>2 DEF ControlInv, OwnInv, Young, GenumInv, TypeInv, TypeOK, PREMARK, PREASYNC
<1>4. /\ Complete(Safe)' /\ Safe' \subseteq allocated'
      /\ Young' \subseteq Safe' /\ mark' \subseteq Safe' /\ Sources' \subseteq Safe'
      /\ \A x \in Pending' : ~Unsure(x)' => field'[x] \in Safe' \cup {Nil}
  BY <1>1, SafePartsNext
<1>5. SafeRoots'
  BY <1>1, <1>2 DEF SafeRoots
<1>6. ASSUME NEW x \in Cell, x \in Safe' \cup {Global} \/ Unsure(x)'
      PROVE  field'[x] \in Safe' \cup {Nil}
  <2>1. CASE Unsure(x)'
    <3>1. PICK w \in Workers : pc[w] \in Writing /\ ~op[w].cas /\ op[w].obj = x /\ op[w].old # field[x]
      BY <1>1, <2>1 DEF Unsure
    <3>2. w \in members
      BY <3>1 DEF ControlInv, OpInv, Resting, Writing
    <3>3. field[x] \in mark \cup {Nil}
      BY <1>1, <3>1, <3>2 DEF Overtaken
    <3> QED BY <1>1, <1>4, <3>3
  <2>2. CASE x = Global /\ ~Unsure(x)'
    <3>1. field'[x] \in Ptr /\ genum' # Nil
      BY <1>1, <1>3 DEF ControlInv, TypeInv, TypeOK
    <3>2. field'[x] # Nil => field'[x] \in Sources'
      BY <2>2, <3>1 DEF Sources, Ptr
    <3> QED BY <1>4, <3>2
  <2>3. CASE x \in Safe' /\ ~Unsure(x)'
    <3>1. CASE x \in mark'
      <4>1. x \in Pending'
        BY <1>1, <3>1 DEF UnscannedInv, Pending, Held, Pushed
      <4> QED BY <1>4, <2>3, <4>1
    <3>2. CASE x \notin mark'
      <4>1. x \in target'
        BY <1>1, <1>3, <1>4, <2>3 DEF Young
      <4> QED BY <1>4, <2>3, <3>2, <4>1 DEF Complete
    <3> QED BY <3>1, <3>2
  <2> QED BY <1>6, <2>1, <2>2, <2>3
<1> QED BY <1>5, <1>6 DEF SafeInv, SafeCells

------------------------------------------------------------------------------
(* The steps of a collection keep what is safe.                               *)

\* The steps that write a cell.
WritesCell ==
  \E w \in Workers : \/ \E o \in Objs, v \in Ptr : Alloc(w, o, v)
                     \/ \E x \in Cell, e, v \in Ptr : CmpSwap(w, x, e, v)
                     \/ Store(w)

\* All other steps after SYNC2 has been announced only scan.
LEMMA ScanStep ==
  ASSUME ControlInv, ControlInv', HeldInv, HeldInv', ClosedInv, BarrierInv,
         round \in {SYNC2, MARK}, round' \in {SYNC2, MARK}, Next
  PROVE  Scan(Nil) \/ WritesCell
<1> USE ConstantsDiffer, HomeType DEF Writing, Labels, Ops, Cell, Ptr, Phases,
       Successors, Pre, NoOp, control, objects, sets, frames, Goto, Phase,
       Respond, Does, Accepts, Return, ASYNC, MARK, PREASYNC, PREMARK, PRESYNC1,
       PRESYNC2, SYNC1, SYNC2
<1>2. ASSUME NEW w \in Workers, NEW y \in Cell, Load(w, y)
      PROVE Scan(Nil)
  BY <1>2 DEF Load, Scan, SwappedOut, SwappedIn, Unsure, Pending, Held, Pushed,
     ToVisit,
     Young
<1>3. ASSUME NEW w \in Workers, NEW o \in Objs, Drop(w, o)
      PROVE Scan(Nil)
  BY <1>3 DEF Drop, Scan, SwappedOut, SwappedIn, Unsure, Pending, Held, Pushed,
     ToVisit,
     Young
<1>4. ASSUME NEW w \in Workers, NEW y \in Cell, NEW v \in Ptr, Write(w, y, v)
      PROVE Scan(Nil)
  <2>1. /\ pc[w] = "run" /\ op' = [op EXCEPT ![w] = [obj |-> y, old |-> field[y], new |-> v, cas |-> FALSE]]
        /\ pc' = [pc EXCEPT ![w] = "barrier"]
        /\ UNCHANGED <<phase, genum, field, allocated, target, mark, gray, remembered>>
    BY <1>4 DEF Write
  <2>2. /\ pc'[w] = "barrier" /\ op'[w] = [obj |-> y, old |-> field[y], new |-> v, cas |-> FALSE]
        /\ \A u \in Workers \ {w} : pc'[u] = pc[u] /\ op'[u] = op[u]
    BY <2>1 DEF ControlInv, TypeInv
  <2>3. \A u \in Workers : Held(u)' = Held(u)
    BY <2>1, <2>2 DEF Held, Pushed
  <2>4. \A x \in Cell : Unsure(x)' => Unsure(x)
    BY <2>1, <2>2 DEF Unsure
  <2>5. \A u \in Workers : /\ ToVisit(u) => ToVisit(u)' /\ op'[u].old = op[u].old
                           /\ SwappedIn(u) => SwappedIn(u)' /\ op'[u].new = op[u].new
    BY <2>1, <2>2 DEF ToVisit, SwappedOut, SwappedIn
  <2> QED BY <2>1, <2>3, <2>4, <2>5 DEF Scan, Pending, Young
<1>6. ASSUME NEW w \in Workers, Barrier(w)
      PROVE Scan(Nil)
  BY <1>6 DEF Barrier, BarrierMode, AfterBarrier, Scan, SwappedOut, SwappedIn,
     Unsure, Pending, Held, Pushed, ToVisit, Young, ClosedInv, BarrierInv,
     IsAlive, ControlInv, TypeInv, TypeOK, PhaseInv, OpInv, Working, Resting,
     OwnInv
<1>7. ASSUME NEW w \in Workers, RememberVisit(w)
      PROVE Scan(Nil)
  BY <1>7 DEF RememberVisit, BarrierVisit, Visits, AfterBarrier, Scan,
     SwappedOut, SwappedIn, Unsure, Pending, Held, Pushed, ToVisit, Young,
     ClosedInv, BarrierInv, IsAlive, ControlInv, TypeInv, TypeOK, PhaseInv,
     OpInv, Working, Resting, OwnInv
<1>8. ASSUME NEW w \in Workers, RememberPush(w)
      PROVE Scan(Nil)
  BY <1>8 DEF RememberPush, AfterBarrier, Scan, SwappedOut, SwappedIn, Unsure,
     Pending, Held, Pushed, ToVisit, Young, ClosedInv, BarrierInv, IsAlive,
     ControlInv, TypeInv, TypeOK, PhaseInv, OpInv, Working, Resting, OwnInv
<1>10. ASSUME NEW w \in Workers, Sync1(w)
      PROVE Scan(Nil)
  BY <1>10 DEF Sync1
<1>11. ASSUME NEW w \in Workers, Sync2(w)
      PROVE Scan(Nil)
  <2>1. /\ pc[w] = "run" /\ pc'[w] \in {"run", "global"} /\ op' = op
        /\ \A u \in Workers \ {w} : pc'[u] = pc[u] /\ phase'[u] = phase[u]
        /\ UNCHANGED <<genum, field, allocated, target, remembered>>
    BY <1>11 DEF Sync2, ControlInv, TypeInv
  <2>2. /\ \A u \in Workers \ {w} : gray'[u] = gray[u]
        /\ gray[w] \subseteq gray'[w] /\ mark' \subseteq mark \cup gray'[w] /\ mark \subseteq mark'
    BY <1>11 DEF Sync2, ControlInv, TypeInv, TypeOK
  <2>3. \A u \in Workers : Held(u) \subseteq Held(u)'
    BY <2>1, <2>2 DEF Held, Pushed
  <2>4. \A x \in Cell : Unsure(x)' => Unsure(x)
    BY <2>1 DEF Unsure
  <2>5. \A u \in Workers : /\ ToVisit(u) => ToVisit(u)' /\ op'[u].old = op[u].old
                           /\ SwappedIn(u) => SwappedIn(u)' /\ op'[u].new = op[u].new
    BY <2>1 DEF ToVisit, SwappedOut, SwappedIn
  <2>6. mark' \subseteq mark \cup Pending'
    BY <2>2 DEF Pending, Held
  <2> QED BY <2>1, <2>2, <2>3, <2>4, <2>5, <2>6 DEF Scan, Pending, Young
<1>12. ASSUME NEW w \in Workers, GlobalSync2(w)
      PROVE Scan(Nil)
  BY <1>12 DEF GlobalSync2, Visits, Scan, SwappedOut, SwappedIn, Unsure,
     Pending, Held, Pushed, ToVisit, Young, ClosedInv, BarrierInv, IsAlive,
     ControlInv, TypeInv, TypeOK, PhaseInv, OpInv, Working, Resting, OwnInv
<1>13. ASSUME NEW w \in Workers, StartTrace(w)
      PROVE Scan(Nil)
  BY <1>13 DEF StartTrace, SetTaken, Scan, SwappedOut, SwappedIn, Unsure,
     Pending, Held, Pushed, ToVisit, Young, ClosedInv, BarrierInv, IsAlive,
     ControlInv, TypeInv, TypeOK, PhaseInv, OpInv, Working, Resting, OwnInv
<1>14. ASSUME NEW w \in Workers, NEW q \in Objs, TracePop(w, q)
      PROVE Scan(Nil)
  BY <1>14 DEF TracePop, Scan, SwappedOut, SwappedIn, Unsure, Pending, Held,
     Pushed, ToVisit, Young, ClosedInv, BarrierInv, IsAlive, ControlInv,
     TypeInv, TypeOK, PhaseInv, OpInv, Working, Resting, OwnInv
<1>15. ASSUME NEW w \in Workers, TracePush(w)
      PROVE Scan(Nil)
  BY <1>15 DEF TracePush, Visits, Scan, SwappedOut, SwappedIn, Unsure, Pending,
     Held, Pushed, ToVisit, Young, ClosedInv, BarrierInv, IsAlive, ControlInv,
     TypeInv, TypeOK, PhaseInv, OpInv, Working, Resting, OwnInv
<1>16. ASSUME NEW w \in Workers, TraceEnd(w)
      PROVE Scan(Nil)
  BY <1>16 DEF TraceEnd, Scan, SwappedOut, SwappedIn, Unsure, Pending, Held,
     Pushed,
     ToVisit, Young
<1>18. ASSUME NEW w \in Workers, Signal(w)
      PROVE Scan(Nil)
  BY <1>18 DEF Signal, Scan, SwappedOut, SwappedIn, Unsure, Pending, Held,
     Pushed, ToVisit, Young, ClosedInv, BarrierInv, IsAlive, ControlInv,
     TypeInv, TypeOK, PhaseInv, OpInv, Working, Resting, OwnInv
<1>20. ASSUME NextRound, round = SYNC2
      PROVE Scan(Nil)
  BY <1>20 DEF NextRound, Announce, Scan, SwappedOut, SwappedIn, Unsure, Pending,
     Held,
     Pushed, ToVisit, Young
<1>21. ASSUME NEW w \in Workers, LookEmpty(w)
      PROVE Scan(Nil)
  BY <1>21 DEF LookEmpty, Scan, SwappedOut, SwappedIn, Unsure, Pending, Held,
     Pushed,
     ToVisit, Young
<1>22. ASSUME NEW w \in Workers, LookAgain(w)
      PROVE Scan(Nil)
  BY <1>22 DEF LookAgain, Announce, Scan, SwappedOut, SwappedIn, Unsure, Pending,
     Held,
     Pushed, ToVisit, Young
<1>24. ASSUME LookGrown
      PROVE Scan(Nil)
  BY <1>24 DEF LookGrown, Announce, Scan, SwappedOut, SwappedIn, Unsure, Pending,
     Held,
     Pushed, ToVisit, Young
<1>25. ASSUME NEW w \in Workers, Register(w)
      PROVE Scan(Nil)
  BY <1>25 DEF Register, Join, Scan, SwappedOut, SwappedIn, Unsure, Pending,
     Held, Pushed, ToVisit, Young, ClosedInv, BarrierInv, IsAlive, ControlInv,
     TypeInv, TypeOK, PhaseInv, OpInv, Working, Resting, OwnInv
<1>26. ASSUME NEW w \in Workers, Async(w) PROVE FALSE
  BY <1>26 DEF Async
<1>27. ~StartGC /\ ~LookDone
  BY DEF StartGC, LookDone, Announce, Begin
<1>28. NextRound => round = SYNC2
  BY DEF NextRound
<1>29. CASE \E w \in Workers : Mutator(w)
  BY <1>2, <1>3, <1>4, <1>29 DEF Mutator, WritesCell
<1>30. CASE \E w \in Workers : Poll(w)
  BY <1>10, <1>11, <1>13, <1>26, <1>30 DEF Poll
<1>31. CASE \E w \in Workers : Runtime(w)
  BY <1>6, <1>7, <1>8, <1>12, <1>14, <1>15, <1>16, <1>31 DEF Runtime, WritesCell
<1>32. CASE Coordinator
  BY <1>18, <1>20, <1>21, <1>22, <1>24, <1>27, <1>28, <1>32 DEF Coordinator
<1> QED BY <1>25, <1>27, <1>29, <1>30, <1>31, <1>32 DEF Next

\* The mutators get pointers from safe objects only.
LEMMA RootsStep ==
  ASSUME ControlInv, ControlInv', HeldInv, ClosedInv, SafeRoots, SafeCells,
         round \in {SYNC2, MARK}, round' \in {SYNC2, MARK}, Next,
         Safe \subseteq Safe', Young' \subseteq Safe', mark' \subseteq Safe'
  PROVE  SafeRoots'
<1> USE ConstantsDiffer, HomeType DEF Writing, Labels, Ops, Cell, Ptr, Phases,
       Successors, Pre, NoOp, control, objects, sets, frames, Goto, Phase,
       Respond, Does, Accepts, Return, ASYNC, MARK, PREASYNC, PREMARK, PRESYNC1,
       PRESYNC2, SYNC1, SYNC2
<1>1. ASSUME NEW w \in Workers, NEW o \in Objs, NEW v \in Ptr, Alloc(w, o, v)
      PROVE SafeRoots'
  BY <1>1 DEF Alloc, NewTarget, BeforeSnapshot, SafeRoots, Young, ClosedInv,
     ControlInv,
     PhaseInv
<1>2. ASSUME NEW w \in Workers, NEW x \in Cell, Load(w, x)
      PROVE SafeRoots'
  BY <1>2 DEF Load, SafeRoots, SafeCells, Young, ClosedInv, HeldInv, ControlInv,
     TypeInv, TypeOK, PhaseInv, OpInv, Working, Resting, OwnInv
<1>3. ASSUME NEW w \in Workers, NEW o \in Objs, Drop(w, o)
      PROVE SafeRoots'
  BY <1>3 DEF Drop, SafeRoots
<1>4. ASSUME NEW w \in Workers, NEW x \in Cell, NEW v \in Ptr, Write(w, x, v)
      PROVE SafeRoots'
  BY <1>4 DEF Write, SafeRoots, SafeCells
<1>5. ASSUME NEW w \in Workers, NEW x \in Cell, NEW e \in Ptr, NEW v \in Ptr, CmpSwap(w, x, e, v)
      PROVE SafeRoots'
  <2>1. \A u \in Workers : op'[u] = op[u] \/ (u = w /\ op'[u].old = e /\ e \in roots[w] \cup {Nil})
    <3>1. CASE field[x] = e
      BY <1>5, <3>1 DEF CmpSwap, ControlInv, TypeInv
    <3>2. CASE field[x] # e
      BY <1>5, <3>2 DEF CmpSwap
    <3> QED BY <3>1, <3>2
  <2>2. UNCHANGED <<members, phase, roots>>
    BY <1>5 DEF CmpSwap
  <2>3. ASSUME NEW u \in members, phase[u] >= SYNC2
        PROVE  roots[u] \subseteq Safe' /\ op'[u].old \in Safe' \cup {Nil}
    <3>1. roots[u] \subseteq Safe' /\ op[u].old \in Safe' \cup {Nil} /\ u \in Workers
      BY <2>3 DEF SafeRoots, ControlInv, TypeInv, TypeOK
    <3> QED BY <2>1, <3>1
  <2> QED BY <2>2, <2>3 DEF SafeRoots
<1>6. ASSUME NEW w \in Workers, Barrier(w)
      PROVE SafeRoots'
  BY <1>6 DEF Barrier, SafeRoots
<1>7. ASSUME NEW w \in Workers, RememberVisit(w)
      PROVE SafeRoots'
  BY <1>7 DEF RememberVisit, BarrierVisit, Visits, AfterBarrier, SafeRoots,
     SafeCells, Young, ClosedInv, HeldInv, ControlInv, TypeInv, TypeOK,
     PhaseInv, OpInv, Working, Resting, OwnInv
<1>8. ASSUME NEW w \in Workers, RememberPush(w)
      PROVE SafeRoots'
  BY <1>8 DEF RememberPush, SafeRoots
<1>9. ASSUME NEW w \in Workers, Store(w)
      PROVE SafeRoots'
  BY <1>9 DEF Store, SafeRoots, SafeCells, Young, ClosedInv, HeldInv,
     ControlInv, TypeInv, TypeOK, PhaseInv, OpInv, Working, Resting, OwnInv
<1>10. ASSUME NEW w \in Workers, Sync1(w)
      PROVE SafeRoots'
  BY <1>10 DEF Sync1
<1>11. ASSUME NEW w \in Workers, Sync2(w)
      PROVE SafeRoots'
  <2>1. \A o \in roots[w] : o \in mark' \cup Young'
    BY <1>11 DEF Sync2, StackRoots, Visits, Young, ClosedInv
  <2>2. /\ \A u \in Workers \ {w} : phase'[u] = phase[u]
        /\ op[w] = NoOp /\ UNCHANGED <<members, op, roots>>
    BY <1>11 DEF Sync2, ControlInv, TypeInv, TypeOK, OpInv, Working
  <2>3. roots[w] \subseteq Safe' /\ op[w].old = Nil
    BY <2>1, <2>2
  <2>4. ASSUME NEW u \in members, u # w, phase[u] >= SYNC2
        PROVE  roots[u] \subseteq Safe' /\ op[u].old \in Safe' \cup {Nil}
    BY <2>4 DEF SafeRoots
  <2>5. members \subseteq Workers
    BY DEF ControlInv, TypeInv, TypeOK
  <2> QED BY <2>2, <2>3, <2>4, <2>5 DEF SafeRoots
<1>12. ASSUME NEW w \in Workers, GlobalSync2(w)
      PROVE SafeRoots'
  BY <1>12 DEF GlobalSync2, SafeRoots
<1>13. ASSUME NEW w \in Workers, StartTrace(w)
      PROVE SafeRoots'
  BY <1>13 DEF StartTrace, SafeRoots
<1>14. ASSUME NEW w \in Workers, NEW o \in Objs, TracePop(w, o)
      PROVE SafeRoots'
  <2>1. /\ op'[w].old = field[o] /\ \A u \in Workers \ {w} : op'[u] = op[u]
        /\ UNCHANGED <<members, phase, roots>> /\ o \in gray[w]
    BY <1>14 DEF TracePop, ControlInv, TypeInv
  <2>2. o \in Safe
    BY <2>1, SafeParts DEF HeldInv, Pending, Held
  <2>3. field[o] \in Safe \cup {Nil}
    BY <2>2 DEF SafeCells
  <2> QED BY <2>1, <2>3 DEF SafeRoots, ControlInv, TypeInv, TypeOK
<1>15. ASSUME NEW w \in Workers, TracePush(w)
      PROVE SafeRoots'
  BY <1>15 DEF TracePush, Visits, SafeRoots, SafeCells, Young, ClosedInv,
     HeldInv, ControlInv, TypeInv, TypeOK, PhaseInv, OpInv, Working, Resting,
     OwnInv
<1>16. ASSUME NEW w \in Workers, TraceEnd(w)
      PROVE SafeRoots'
  BY <1>16 DEF TraceEnd, SafeRoots
<1>18. ASSUME NEW w \in Workers, Signal(w)
      PROVE SafeRoots'
  BY <1>18 DEF Signal, SafeRoots, SafeCells, Young, ClosedInv, HeldInv,
     ControlInv,
     TypeInv, PhaseInv
<1>20. ASSUME NextRound, round = SYNC2
      PROVE SafeRoots'
  BY <1>20 DEF NextRound, Announce, Begin, SafeRoots
<1>21. ASSUME NEW w \in Workers, LookEmpty(w)
      PROVE SafeRoots'
  BY <1>21 DEF LookEmpty, SafeRoots
<1>22. ASSUME NEW w \in Workers, LookAgain(w)
      PROVE SafeRoots'
  BY <1>22 DEF LookAgain, Announce, Begin, SafeRoots
<1>24. ASSUME LookGrown
      PROVE SafeRoots'
  BY <1>24 DEF LookGrown, Announce, Begin, SafeRoots
<1>25. ASSUME NEW w \in Workers, Register(w)
      PROVE SafeRoots'
  BY <1>25 DEF Register, Join, SafeRoots, HeldInv, ControlInv, OpInv, Working,
     Resting
<1>26. ASSUME NEW w \in Workers, Async(w) PROVE FALSE
  BY <1>26 DEF Async
<1>27. ~StartGC /\ ~LookDone
  BY DEF StartGC, LookDone, Announce, Begin
<1>28. NextRound => round = SYNC2
  BY DEF NextRound
<1>29. CASE \E w \in Workers : Mutator(w)
  BY <1>1, <1>2, <1>3, <1>4, <1>5, <1>29 DEF Mutator
<1>30. CASE \E w \in Workers : Poll(w)
  BY <1>10, <1>11, <1>13, <1>26, <1>30 DEF Poll
<1>31. CASE \E w \in Workers : Runtime(w)
  BY <1>6, <1>7, <1>8, <1>9, <1>12, <1>14, <1>15, <1>16, <1>31 DEF Runtime
<1>32. CASE Coordinator
  BY <1>18, <1>20, <1>21, <1>22, <1>24, <1>27, <1>28, <1>32 DEF Coordinator
<1> QED BY <1>25, <1>27, <1>29, <1>30, <1>31, <1>32 DEF Next

\* Together: the safe objects stay safe while the collector traces.
LEMMA SafeStep ==
  ASSUME ControlInv, ControlInv', HeldInv, HeldInv', ClosedInv, ClosedInv', BarrierInv,
         round \in {SYNC2, MARK}, round' \in {SYNC2, MARK}, Next, SafeRoots, SafeCells
  PROVE  SafeRoots' /\ SafeCells'
<1>1. round # ASYNC /\ round' # ASYNC
  BY DEF ASYNC, SYNC2, MARK
<1>2. Safe \subseteq Safe' /\ SafeCells'
  <2>1. CASE Scan(Nil)
    BY <1>1, <2>1, ScanSafe
  <2>2. CASE WritesCell
    BY <2>2, AllocSafe, CmpSwapSafe, StoreSafe DEF WritesCell
  <2> QED BY <2>1, <2>2, ScanStep
<1>3. Young' \subseteq Safe' /\ mark' \subseteq Safe'
  BY <1>1, SafePartsNext
<1> QED BY <1>2, <1>3, RootsStep

\* The collector comes to SYNC2 and MARK only through the snapshot.
LEMMA EntersSnapshot ==
  ASSUME ControlInv, Next, round \notin {SYNC2, MARK}, round' \in {SYNC2, MARK}
  PROVE  round = SYNC1 /\ NextRound
<1> USE DEF ASYNC, SYNC1, SYNC2, MARK, Respond, Announce, Begin, control
<1>1. round \in {ASYNC, SYNC1}
  BY DEF ControlInv, TypeInv
<1>2. ASSUME NEW w \in Workers PROVE ~Mutator(w) /\ ~Poll(w) /\ ~Runtime(w) /\ ~Register(w)
  <2>1. ~Mutator(w) /\ ~Register(w)
    BY DEF Mutator, Alloc, Load, Drop, Write, CmpSwap, Register, Join
  <2>2. ~Poll(w)
    BY DEF Poll, Sync1, Sync2, StartTrace, Async
  <2>3. ~Runtime(w)
    BY DEF Runtime, Barrier, RememberVisit, RememberPush, Store, GlobalSync2, TracePush,
           TraceEnd, TracePop
  <2> QED BY <2>1, <2>2, <2>3
<1>3. ~StartGC /\ ~LookDone /\ ~LookGrown
  BY <1>1 DEF StartGC, LookDone, LookGrown, ControlInv, LookInv
<1>4. ASSUME NEW w \in Workers PROVE ~Signal(w) /\ ~LookEmpty(w) /\ ~LookAgain(w)
  BY <1>1 DEF Signal, LookEmpty, LookAgain, ControlInv, TypeInv, LookInv
<1>5. NextRound => round = SYNC1
  BY <1>1 DEF NextRound
<1> QED BY <1>2, <1>3, <1>4, <1>5 DEF Next, Coordinator

\* From the snapshot on every worker comes to safe objects only.
LEMMA SafeInvStep ==
  ASSUME ControlInv, ControlInv', HeapInv, HeldInv', ClosedInv', Next, missed' = {}
  PROVE  SafeInv'
<1>1. HeldInv /\ ClosedInv /\ BarrierInv /\ UnscannedInv /\ SafeInv
  BY DEF HeapInv
<1>2. CASE round' \notin {SYNC2, MARK}
  BY <1>2 DEF SafeInv
<1>3. CASE round \in {SYNC2, MARK} /\ round' \in {SYNC2, MARK}
  BY <1>1, <1>3, SafeStep DEF SafeInv
<1>4. CASE round \notin {SYNC2, MARK} /\ round' \in {SYNC2, MARK}
  BY <1>1, <1>4, EntersSnapshot, SnapshotSafe
<1> QED BY <1>2, <1>3, <1>4

------------------------------------------------------------------------------
(* The end of the tracing.                                                    *)

\* Once the tracing is over no step makes a kept object point at one that is
\* not kept.
LEMMA KeptStep ==
  ASSUME ControlInv, ControlInv', Next, Traced, missed' = {},
         round = ASYNC \/ (round = MARK /\ waiting = {}), round' \in {ASYNC, MARK}
  PROVE  Traced'
<1> USE ConstantsDiffer, HomeType DEF Writing, Labels, Ops, Cell, Ptr, Phases,
       Successors, Pre, NoOp, control, objects, sets, frames, Goto, Phase,
       Respond, Does, Accepts, Return, ASYNC, MARK, PREASYNC, PREMARK, PRESYNC1,
       PRESYNC2, SYNC1, SYNC2
<1>1. ASSUME NEW w \in Workers, NEW o \in Objs, NEW v \in Ptr, Alloc(w, o, v)
      PROVE Traced'
  BY <1>1 DEF Alloc, NewTarget, BeforeSnapshot, Traced, Kept, Pending, Held,
     Pushed, ControlInv, TypeInv, TypeOK, PhaseInv, OpInv, Working, Resting,
     OwnInv
<1>2. ASSUME NEW w \in Workers, NEW x \in Cell, Load(w, x)
      PROVE Traced'
  <2>1. x \in roots[w] \cup {Global} /\ field[x] # Nil
    BY <1>2 DEF Load
  <2>2. field[x] \in Kept
    BY <2>1 DEF Traced
  <2>3. /\ UNCHANGED <<phase, field, allocated, target, mark, gray, remembered, pc, op>>
        /\ \A u \in Workers : roots'[u] \subseteq roots[u] \cup {field[x]}
    BY <1>2 DEF Load
  <2>4. Pending' = Pending /\ Kept' = Kept
    BY <2>3 DEF Pending, Held, Pushed, Kept
  <2> HIDE DEF Cell, Ptr
  <2> QED BY <2>2, <2>3, <2>4 DEF Traced
<1>3. ASSUME NEW w \in Workers, NEW o \in Objs, Drop(w, o)
      PROVE Traced'
  BY <1>3 DEF Drop, Traced, Kept, Pending, Held, Pushed
<1>4. ASSUME NEW w \in Workers, NEW x \in Cell, NEW v \in Ptr, Write(w, x, v)
      PROVE Traced'
  BY <1>4 DEF Write, Traced, Kept, Pending, Held, Pushed, ControlInv, TypeInv,
     TypeOK, PhaseInv, OpInv, Working, Resting, OwnInv
<1>5. ASSUME NEW w \in Workers, NEW x \in Cell, NEW e \in Ptr, NEW v \in Ptr, CmpSwap(w, x, e, v)
      PROVE Traced'
  <2>1. /\ pc[w] = "run" /\ op[w] = NoOp
        /\ v \in roots[w] \cup {Nil} /\ e \in roots[w] \cup {Nil}
        /\ UNCHANGED <<phase, roots, allocated, target, mark, gray, remembered>>
    BY <1>5 DEF CmpSwap, ControlInv, OpInv, Working
  <2>2. v \in Kept \cup {Nil} /\ e \in Kept \cup {Nil} /\ Kept' = Kept
    BY <2>1 DEF Traced, Kept
  <2>3. CASE field[x] = e
    <3>1. /\ field' = [field EXCEPT ![x] = v]
          /\ op' = [op EXCEPT ![w] = [obj |-> x, old |-> e, new |-> v, cas |-> TRUE]]
          /\ pc' = [pc EXCEPT ![w] = "barrier"]
      BY <1>5, <2>3 DEF CmpSwap
    <3>2. /\ \A y \in Cell : field'[y] = IF y = x THEN v ELSE field[y]
          /\ \A u \in Workers \ {w} : op'[u] = op[u] /\ pc'[u] = pc[u]
          /\ op'[w].old = e /\ pc'[w] = "barrier"
      BY <3>1 DEF ControlInv, TypeInv, TypeOK
    <3>3. Pending' = Pending
      BY <2>1, <3>2 DEF Pending, Held, Pushed
    <3>4. Kept \subseteq Cell /\ Global \in Cell /\ \A u \in Workers : roots'[u] = roots[u]
      BY <2>1 DEF Kept, ControlInv, TypeInv, TypeOK
    <3> HIDE DEF Cell, Ptr
    <3> QED BY <2>1, <2>2, <3>2, <3>3, <3>4 DEF Traced
  <2>4. CASE field[x] # e
    <3>1. UNCHANGED <<field, op, pc>>
      BY <1>5, <2>4 DEF CmpSwap
    <3>2. Pending' = Pending
      BY <2>1, <3>1 DEF Pending, Held, Pushed
    <3> HIDE DEF Cell, Ptr
    <3> QED BY <2>1, <2>2, <3>1, <3>2 DEF Traced
  <2> QED BY <2>3, <2>4
<1>6. ASSUME NEW w \in Workers, Barrier(w)
      PROVE Traced'
  BY <1>6 DEF Barrier, BarrierMode, AfterBarrier, Traced, Kept, Pending, Held,
     Pushed, ControlInv, TypeInv, TypeOK, PhaseInv, OpInv, Working, Resting,
     OwnInv
<1>7. ASSUME NEW w \in Workers, RememberVisit(w)
      PROVE Traced'
  <2> DEFINE o == IF pc[w] = "visitnew" THEN op[w].new ELSE op[w].old
  <2>1. ~Visits(o)
    <3>1. pc[w] \in Writing /\ w \in members /\ members \subseteq Workers
      BY <1>7 DEF RememberVisit, ControlInv, TypeInv, TypeOK, OpInv, Resting
    <3>2. o \in Kept \cup {Nil}
      BY <3>1 DEF Traced, ControlInv, OpInv, Working
    <3>3. CASE round = ASYNC
      <4>1. Visits(o) => Late(o)
        BY <3>2, <3>3 DEF Kept, Visits, Late, ControlInv, TypeInv, TypeOK, OwnInv
      <4>2. ~(Visits(o) /\ Late(o))
        BY <1>7 DEF RememberVisit, BarrierVisit
      <4> QED BY <4>1, <4>2
    <3>4. CASE round = MARK /\ waiting = {}
      BY <3>2, <3>4 DEF Kept, Visits, ControlInv, TypeInv, TypeOK, PhaseInv,
         OwnInv
    <3> QED BY <3>3, <3>4
  <2>2. /\ mark' = mark /\ pc'[w] \in {"visitold", "store", "return"}
        /\ \A u \in Workers \ {w} : pc'[u] = pc[u]
        /\ UNCHANGED <<phase, field, roots, allocated, target, gray, remembered, op>>
    BY <1>7, <2>1 DEF RememberVisit, BarrierVisit, AfterBarrier, ControlInv,
       TypeInv
  <2>3. Pending' \subseteq Pending /\ Kept' = Kept
    BY <2>2 DEF Pending, Held, Pushed, Kept
  <2> QED BY <2>2, <2>3 DEF Traced
<1>8. ASSUME NEW w \in Workers, RememberPush(w)
      PROVE Traced'
  BY <1>8 DEF RememberPush, AfterBarrier, Traced, Kept, Pending, Held, Pushed,
     ControlInv, TypeInv, TypeOK, PhaseInv, OpInv, Working, Resting, OwnInv
<1>9. ASSUME NEW w \in Workers, Store(w)
      PROVE Traced'
  BY <1>9 DEF Store, Traced, Kept, Pending, Held, Pushed, ControlInv, TypeInv,
     TypeOK, PhaseInv, OpInv, Working, Resting, OwnInv
<1>10. ASSUME NEW w \in Workers, Sync1(w)
      PROVE Traced'
  BY <1>10 DEF Sync1, Traced, Kept, Pending, Held, Pushed, ControlInv, TypeInv,
     TypeOK, PhaseInv, OpInv, Working, Resting, OwnInv
<1>11. ASSUME NEW w \in Workers, Sync2(w)
      PROVE Traced'
  BY <1>11 DEF Sync2, StackRoots, Visits, Traced, Kept, Pending, Held, Pushed,
     ControlInv, TypeInv, TypeOK, PhaseInv, OpInv, Working, Resting, OwnInv
<1>12. ASSUME NEW w \in Workers, GlobalSync2(w)
      PROVE Traced'
  BY <1>12 DEF GlobalSync2, Visits, Traced, Kept, Pending, Held, Pushed,
     ControlInv, TypeInv, TypeOK, PhaseInv, OpInv, Working, Resting, OwnInv
<1>13. ASSUME NEW w \in Workers, StartTrace(w)
      PROVE Traced'
  BY <1>13 DEF StartTrace, SetTaken, Traced, Kept, Pending, Held, Pushed,
     ControlInv, TypeInv, TypeOK, PhaseInv, OpInv, Working, Resting, OwnInv
<1>14. ASSUME NEW w \in Workers, NEW o \in Objs, TracePop(w, o)
      PROVE Traced'
  BY <1>14 DEF TracePop, Traced, Kept, Pending, Held, Pushed, ControlInv,
     TypeInv, TypeOK, PhaseInv, OpInv, Working, Resting, OwnInv
<1>15. ASSUME NEW w \in Workers, TracePush(w)
      PROVE Traced'
  BY <1>15 DEF TracePush, Visits, ControlInv, PhaseInv, OpInv, Resting
<1>16. ASSUME NEW w \in Workers, TraceEnd(w)
      PROVE Traced'
  BY <1>16 DEF TraceEnd, Traced, Kept, Pending, Held, Pushed, ControlInv,
     TypeInv, TypeOK, PhaseInv, OpInv, Working, Resting, OwnInv
<1>17. ASSUME NEW w \in Workers, Async(w)
      PROVE Traced'
  BY <1>17 DEF Async, Garbage, Cleared, Traced, Kept, Pending, Held, Pushed,
     ControlInv, TypeInv, TypeOK, PhaseInv, OpInv, Working, Resting, OwnInv
<1>18. ASSUME NEW w \in Workers, Signal(w)
      PROVE Traced'
  BY <1>18 DEF Signal, Traced, Kept, Pending, Held, Pushed, ControlInv, PhaseInv,
     OwnInv
<1>19. ASSUME StartGC
      PROVE Traced'
  BY <1>19 DEF StartGC, Announce, Begin
<1>20. ASSUME NextRound
      PROVE Traced'
  BY <1>20 DEF NextRound, Announce, Overtaken, Begin, Traced, Kept, Pending,
     Held, Pushed, ControlInv, TypeInv, TypeOK, PhaseInv, OpInv, Working,
     Resting, OwnInv
<1>21. ASSUME NEW w \in Workers, LookEmpty(w)
      PROVE Traced'
  BY <1>21 DEF LookEmpty, Traced, Kept, Pending, Held, Pushed
<1>22. ASSUME NEW w \in Workers, LookAgain(w)
      PROVE Traced'
  BY <1>22 DEF LookAgain, Traced, Pending, Held
<1>23. ASSUME LookDone
      PROVE Traced'
  BY <1>23 DEF LookDone, Announce, Traced, Kept, Pending, Held, Pushed
<1>24. ASSUME LookGrown
      PROVE Traced'
  BY <1>24 DEF LookGrown, Announce, Traced, Kept, Pending, Held, Pushed
<1>25. ASSUME NEW w \in Workers, Register(w)
      PROVE Traced'
  <2>1. /\ w \notin members /\ phase' = [phase EXCEPT ![w] = round]
        /\ UNCHANGED <<field, allocated, target, mark, gray, remembered, roots, pc, op>>
    BY <1>25 DEF Register, Join
  <2>2. \A o \in allocated : Home[o] \in members
    BY DEF ControlInv, OwnInv
  <2>3. Kept' = Kept
    <3>1. \A o \in allocated : phase'[Home[o]] = phase[Home[o]]
      BY <2>1, <2>2
    <3> QED BY <2>1, <3>1 DEF Kept
  <2>4. Pending' = Pending
    BY <2>1 DEF Pending, Held, Pushed
  <2> HIDE DEF Cell, Ptr
  <2> QED BY <2>1, <2>3, <2>4 DEF Traced
<1> QED BY <1>1, <1>2, <1>3, <1>4, <1>5, <1>6, <1>7, <1>8, <1>9, <1>10, <1>11,
       <1>12, <1>13, <1>14, <1>15, <1>16, <1>17, <1>18, <1>19, <1>20, <1>21, <1>22,
       <1>23, <1>24, <1>25 DEF Next, Mutator, Poll, Runtime, Coordinator

\* The turn of sml_heap_mark_finish from its first to its second look.
LastLook(w) == LookEmpty(w) /\ look.left = {w} /\ look.pass = 1

\* It is the only step that finishes the tracing.
LEMMA FinishedBefore ==
  ASSUME ControlInv, ControlInv', missed' = {}, Next, \A w \in Workers : ~LastLook(w)
  PROVE  Finished' => Finished
<1> USE ConstantsDiffer, HomeType DEF Writing, Labels, Ops, Cell, Ptr, Phases,
       Successors, Pre, NoOp, control, objects, sets, frames, Goto, Phase,
       Respond, Does, Accepts, Return, ASYNC, MARK, PREASYNC, PREMARK, PRESYNC1,
       PRESYNC2, SYNC1, SYNC2
<1>1. ASSUME NEW w \in Workers, NEW o \in Objs, NEW v \in Ptr, Alloc(w, o, v)
      PROVE Finished' => Finished
  BY <1>1 DEF Alloc, Finished
<1>2. ASSUME NEW w \in Workers, NEW x \in Cell, Load(w, x)
      PROVE Finished' => Finished
  BY <1>2 DEF Load, Finished
<1>3. ASSUME NEW w \in Workers, NEW o \in Objs, Drop(w, o)
      PROVE Finished' => Finished
  BY <1>3 DEF Drop, Finished, LookInv, GenumInv, ControlInv, TypeInv, TypeOK,
     PhaseInv, OpInv, Working, Resting, OwnInv
<1>4. ASSUME NEW w \in Workers, NEW x \in Cell, NEW v \in Ptr, Write(w, x, v)
      PROVE Finished' => Finished
  BY <1>4 DEF Write, Finished
<1>5. ASSUME NEW w \in Workers, NEW x \in Cell, NEW e \in Ptr, NEW v \in Ptr, CmpSwap(w, x, e, v)
      PROVE Finished' => Finished
  BY <1>5 DEF CmpSwap, Finished
<1>6. ASSUME NEW w \in Workers, Barrier(w)
      PROVE Finished' => Finished
  BY <1>6 DEF Barrier, Finished
<1>7. ASSUME NEW w \in Workers, RememberVisit(w)
      PROVE Finished' => Finished
  BY <1>7 DEF RememberVisit, BarrierVisit, Visits, AfterBarrier, Finished,
     LookInv, GenumInv, ControlInv, TypeInv, TypeOK, PhaseInv, OpInv, Working,
     Resting, OwnInv
<1>8. ASSUME NEW w \in Workers, RememberPush(w)
      PROVE Finished' => Finished
  BY <1>8 DEF RememberPush, Finished
<1>9. ASSUME NEW w \in Workers, Store(w)
      PROVE Finished' => Finished
  BY <1>9 DEF Store, Finished
<1>10. ASSUME NEW w \in Workers, Sync1(w)
      PROVE Finished' => Finished
  BY <1>10 DEF Sync1, Finished
<1>11. ASSUME NEW w \in Workers, Sync2(w)
      PROVE Finished' => Finished
  BY <1>11 DEF Sync2, Finished
<1>12. ASSUME NEW w \in Workers, GlobalSync2(w)
      PROVE Finished' => Finished
  BY <1>12 DEF GlobalSync2, Finished
<1>13. ASSUME NEW w \in Workers, StartTrace(w)
      PROVE Finished' => Finished
  BY <1>13 DEF StartTrace, Finished, LookInv, ControlInv
<1>14. ASSUME NEW w \in Workers, NEW o \in Objs, TracePop(w, o)
      PROVE Finished' => Finished
  BY <1>14 DEF TracePop, Finished
<1>15. ASSUME NEW w \in Workers, TracePush(w)
      PROVE Finished' => Finished
  BY <1>15 DEF TracePush, Visits, Finished, LookInv, GenumInv, ControlInv,
     TypeInv, TypeOK, PhaseInv, OpInv, Working, Resting, OwnInv
<1>16. ASSUME NEW w \in Workers, TraceEnd(w)
      PROVE Finished' => Finished
  BY <1>16 DEF TraceEnd, Finished
<1>17. ASSUME NEW w \in Workers, Async(w)
      PROVE Finished' => Finished
  BY <1>17 DEF Async, Finished
<1>18. ASSUME NEW w \in Workers, Signal(w)
      PROVE Finished' => Finished
  BY <1>18 DEF Signal, Finished
<1>19. ASSUME StartGC
      PROVE Finished' => Finished
  BY <1>19 DEF StartGC, Finished
<1>20. ASSUME NextRound
      PROVE Finished' => Finished
  BY <1>20 DEF NextRound, Announce, Begin, Finished, LookInv, ControlInv
<1>21. ASSUME NEW w \in Workers, LookEmpty(w), ~LastLook(w)
      PROVE Finished' => Finished
  BY <1>21 DEF LastLook, LookEmpty, Finished
<1>22. ASSUME NEW w \in Workers, LookAgain(w)
      PROVE Finished' => Finished
  BY <1>22 DEF LookAgain, NoLook, Announce, Begin, Finished
<1>23. ASSUME LookDone
      PROVE Finished' => Finished
  BY <1>23 DEF LookDone, Announce, Begin, Finished
<1>24. ASSUME LookGrown
      PROVE Finished' => Finished
  BY <1>24 DEF LookGrown, NoLook, Announce, Begin, Finished
<1>25. ASSUME NEW w \in Workers, Register(w)
      PROVE Finished' => Finished
  BY <1>25 DEF Register, Join, Finished, LookInv, GenumInv, ControlInv, TypeInv,
     TypeOK, PhaseInv, OpInv, Working, Resting, OwnInv
<1> QED BY <1>1, <1>2, <1>3, <1>4, <1>5, <1>6, <1>7, <1>8, <1>9, <1>10, <1>11,
       <1>12, <1>13, <1>14, <1>15, <1>16, <1>17, <1>18, <1>19, <1>20, <1>21, <1>22,
       <1>23, <1>24, <1>25 DEF Next, Mutator, Poll, Runtime, Coordinator

\* When it finds that the sets it looks at again are empty, and no barrier is in
\* flight, nothing is left to scan.
LEMMA LastLookTraces ==
  ASSUME ControlInv, HeldInv, ClosedInv, SafeInv, NEW w \in Workers, LastLook(w), Finished'
  PROVE  Traced'
<1> USE ConstantsDiffer, HomeType DEF ASYNC, MARK, SYNC2
<1>1. /\ round = MARK /\ waiting = {} /\ genum = Nil
      /\ \A u \in Workers : gray[u] = {}
  BY DEF LastLook, ControlInv, LookInv, GenumInv
<1>2. /\ look' = [c1 |-> look.c1, left |-> look.c1, pass |-> 2,
                  busy |-> \E u \in members : InFlight(u)]
      /\ UNCHANGED <<members, round, phase, field, allocated, target, mark, gray, remembered,
                     roots, pc, op>>
  BY DEF LastLook, LookEmpty, objects, sets, frames
<1>3. \A u \in members : remembered[u] = {} /\ ~InFlight(u) /\ phase[u] = MARK
  <2>1. /\ ~look'.busy /\ \A u \in look'.left \cup (members \ look'.c1) : remembered[u] = {}
        /\ look'.busy = \E u \in members : InFlight(u)
        /\ look'.left = look.c1 /\ look'.c1 = look.c1
    BY <1>1, <1>2 DEF Finished
  <2> QED BY <1>1, <2>1 DEF ControlInv, PhaseInv
<1>4. \A u \in Workers \ members : Resting(u)
  BY DEF ControlInv, OpInv
<1>5. \A u \in Workers : /\ remembered[u] = {} /\ ~op[u].cas
                         /\ pc[u] \notin {"pushnew", "pushold", "push"}
  <2>1. ASSUME NEW u \in members
        PROVE  remembered[u] = {} /\ ~op[u].cas /\ pc[u] \notin {"pushnew", "pushold", "push"}
    BY <1>1, <1>3, <2>1 DEF InFlight, ControlInv, PhaseInv
  <2>2. ASSUME NEW u \in Workers \ members
        PROVE  remembered[u] = {} /\ ~op[u].cas /\ pc[u] \notin {"pushnew", "pushold", "push"}
    BY <1>4, <2>2 DEF Resting, NoOp, Writing, ControlInv, OpInv, Working
  <2> QED BY <2>1, <2>2
<1>6. Pending = {}
  BY <1>1, <1>5 DEF Pending, Held, Pushed
<1>7. Sources = {}
  BY <1>1, <1>5, <1>6 DEF Sources, ToVisit, SwappedOut, SwappedIn
<1>8. /\ mark \subseteq target /\ target \subseteq allocated /\ allocated \subseteq Objs
      /\ \A o \in allocated : Home[o] \in members
  BY DEF ControlInv, TypeInv, TypeOK, OwnInv
<1>9. Kept = Young \cup mark
  BY <1>3, <1>8 DEF Kept, Young
<1>10. Kept \in SUBSET Objs /\ Complete(Kept)
  BY <1>7, <1>8, <1>9 DEF Complete, Young
<1>11. Safe \subseteq Kept
  BY <1>10, SafeLeast
<1>12. Kept \subseteq Safe
  BY <1>1, <1>9, SafeParts
<1>13. SafeRoots /\ SafeCells
  BY <1>1 DEF SafeInv
<1>14. \A u \in Workers : roots[u] \subseteq Kept /\ op[u].old \in Kept \cup {Nil}
  <2>1. ASSUME NEW u \in members PROVE roots[u] \subseteq Kept /\ op[u].old \in Kept \cup {Nil}
    BY <1>3, <1>11, <1>13, <2>1 DEF SafeRoots
  <2>2. ASSUME NEW u \in Workers \ members
        PROVE  roots[u] \subseteq Kept /\ op[u].old \in Kept \cup {Nil}
    BY <1>4, <2>2 DEF Resting, NoOp, Writing, ControlInv, OpInv, Working
  <2> QED BY <2>1, <2>2
<1>15. field[Global] \in Kept \cup {Nil} /\ \A x \in Kept : field[x] \in Kept \cup {Nil}
  BY <1>10, <1>11, <1>12, <1>13 DEF SafeCells, Cell
<1>16. Traced
  BY <1>6, <1>14, <1>15 DEF Traced
<1> QED BY <1>2, <1>16 DEF Traced, Pending, Held, Pushed, Kept

\* From then on everything that can be reached is kept.
LEMMA TracedStep ==
  ASSUME ControlInv, ControlInv', HeapInv, Next, missed' = {}
  PROVE  TracedInv'
<1>1. HeldInv /\ ClosedInv /\ SafeInv /\ TracedInv
  BY DEF HeapInv
<1> SUFFICES ASSUME Finished' PROVE Traced'
  BY DEF TracedInv
<1>2. CASE \E w \in Workers : LastLook(w)
  BY <1>1, <1>2, LastLookTraces
<1>3. CASE \A w \in Workers : ~LastLook(w)
  <2>1. Finished /\ Traced
    BY <1>1, <1>3, FinishedBefore DEF TracedInv
  <2>2. round = ASYNC \/ (round = MARK /\ waiting = {})
    BY <2>1 DEF Finished, ControlInv, LookInv
  <2>3. round' \in {ASYNC, MARK}
    BY DEF Finished
  <2> QED BY <2>1, <2>2, <2>3, KeptStep
<1> QED BY <1>2, <1>3

------------------------------------------------------------------------------
(* The invariant.                                                             *)

\* No pointer leads out of the heap that the program starts with.
LEMMA InitInv == Init => MInv
<1> SUFFICES ASSUME Init PROVE MInv
  OBVIOUS
<1> USE ConstantsDiffer, HomeType, Heap0Type, Heap0Owned DEF Init, ASYNC, SYNC1, SYNC2, MARK,
      Cell, Ptr, NoOp, NoLook, Phases
<1>1. TypeInv
  BY DEF TypeInv, TypeOK, Labels, Ops, Writing
<1>2. PhaseInv /\ GenumInv /\ LookInv
  BY DEF PhaseInv, GenumInv, LookInv
<1>3. OpInv /\ OwnInv
  BY DEF OpInv, Resting, Working, Writing, OwnInv, Young
<1>4. ControlInv
  BY <1>1, <1>2, <1>3 DEF ControlInv
<1>5. Pending = {}
  BY DEF Pending, Held, Pushed
<1>6. HeldInv
  BY <1>5 DEF HeldInv, Held, Pushed
<1>7. ClosedInv /\ UnscannedInv /\ BarrierInv /\ SafeInv /\ CleanInv
  BY DEF ClosedInv, UnscannedInv, BarrierInv, SafeInv, CleanInv
<1>8. TracedInv
  BY <1>5 DEF TracedInv, Traced, Kept
<1> QED BY <1>4, <1>6, <1>7, <1>8 DEF MInv, HeapInv

\* What a barrier has missed is not forgotten.
LEMMA MissedGrows == Next => missed \subseteq missed'
<1> SUFFICES ASSUME Next PROVE missed \subseteq missed'
  OBVIOUS
<1>1. ASSUME NEW w \in Workers, Mutator(w) PROVE missed' = missed
  BY <1>1 DEF Mutator, Alloc, Load, Drop, Write, CmpSwap
<1>2. ASSUME NEW w \in Workers, Poll(w) \/ Register(w) PROVE missed' = missed
  BY <1>2 DEF Poll, Sync1, Sync2, StartTrace, Async, Register
<1>3. ASSUME NEW w \in Workers, Runtime(w) PROVE missed \subseteq missed'
  BY <1>3 DEF Runtime, Barrier, RememberVisit, BarrierVisit, RememberPush, Store, GlobalSync2,
              TracePush, TraceEnd, TracePop
<1>4. ASSUME StartGC \/ Coordinator PROVE missed \subseteq missed'
  BY <1>4 DEF StartGC, Coordinator, NextRound, LookDone, LookGrown, Signal, LookEmpty, LookAgain
<1> QED BY <1>1, <1>2, <1>3, <1>4 DEF Next

\* The heap part is kept by every step in which no barrier misses an object.
LEMMA HeapStep ==
  ASSUME MInv, Next, missed' = {}
  PROVE  ControlInv' /\ HeapInv /\ HeapInv'
<1>1. missed = {} /\ ControlInv /\ HeapInv
  BY MissedGrows DEF MInv
<1>2. ControlInv'
  BY <1>1, ControlStep
<1>3. HeldInv' /\ ClosedInv' /\ UnscannedInv' /\ BarrierInv' /\ CleanInv'
  <2>1. CleanInv'
    BY <1>1, <1>2, CleanStep DEF HeapInv
  <2> QED BY <1>1, <1>2, <2>1, HeldStep, ClosedStep, UnscannedStep, BarrierStep
<1>4. SafeInv' /\ TracedInv'
  BY <1>1, <1>2, <1>3, SafeInvStep, TracedStep
<1> QED BY <1>1, <1>2, <1>3, <1>4 DEF HeapInv

\* MInv depends on the variables of Marking only.
LEMMA Stutter == MInv /\ UNCHANGED vars => MInv'
<1> SUFFICES ASSUME MInv, UNCHANGED vars PROVE MInv'
  OBVIOUS
<1> USE DEF vars
<1>1. Pending' = Pending
  BY DEF Pending, Held, Pushed
<1>2. ControlInv' <=> ControlInv
  BY DEF ControlInv, TypeInv, TypeOK, PhaseInv, GenumInv, LookInv, OpInv, Resting, Working,
         OwnInv, Young
<1>3. /\ HeldInv' <=> HeldInv
      /\ ClosedInv' <=> ClosedInv
      /\ UnscannedInv' <=> UnscannedInv
      /\ BarrierInv' <=> BarrierInv
      /\ CleanInv' <=> CleanInv
  BY <1>1 DEF HeldInv, Held, Pushed, ClosedInv, UnscannedInv, BarrierInv, IsAlive, CleanInv
<1>4. Safe' = Safe
  <2>1. \A x : Unsure(x)' <=> Unsure(x)
    BY DEF Unsure
  <2>2. Sources' = Sources
    BY <1>1, <2>1 DEF Sources, ToVisit, SwappedOut, SwappedIn
  <2>3. ASSUME NEW S \in SUBSET Objs PROVE Complete(S)' <=> Complete(S)
    BY <2>1, <2>2 DEF Complete, Young
  <2> QED BY <2>3 DEF Safe
<1>5. SafeInv' <=> SafeInv
  BY <1>4 DEF SafeInv, SafeRoots, SafeCells, Unsure
<1>6. TracedInv' <=> TracedInv
  BY <1>1 DEF TracedInv, Finished, Traced, Kept
<1> QED BY <1>2, <1>3, <1>5, <1>6 DEF MInv, HeapInv

\* MInv is an invariant.
THEOREM Invariance == Spec => []MInv
<1>1. MInv /\ [Next]_vars => MInv'
  <2> SUFFICES ASSUME MInv, [Next]_vars PROVE MInv'
    OBVIOUS
  <2>1. CASE Next
    <3>1. ControlInv'
      BY <2>1, ControlStep DEF MInv
    <3>2. "late" \notin missed' => CleanInv'
      BY <2>1, <3>1, MissedGrows, CleanStep DEF MInv
    <3> QED BY <2>1, <3>1, <3>2, HeapStep DEF MInv
  <2>2. CASE UNCHANGED vars
    BY <2>2, Stutter
  <2> QED BY <2>1, <2>2
<1> QED BY <1>1, InitInv, PTL DEF Spec

------------------------------------------------------------------------------
(* What it shows.                                                             *)

\* What contains the roots and is closed under pointers contains all that is
\* reachable.
LEMMA LiveLeast ==
  ASSUME NEW S \in SUBSET Objs, Roots \subseteq S, \A x \in S : field[x] \in S \cup {Nil}
  PROVE  Live \subseteq S
BY DEF Live

LEMMA RootsIn ==
  ASSUME NEW S, \A w \in members : roots[w] \subseteq S, field[Global] \in S \cup {Nil}
  PROVE  Roots \subseteq S
<1> SUFFICES ASSUME NEW o \in Roots PROVE o \in S
  OBVIOUS
<1>1. CASE o \in UNION {roots[w] : w \in members}
  <2>1. PICK w \in members : o \in roots[w]
    BY <1>1
  <2> QED BY <2>1
<1>2. CASE o \in {field[Global]} \ {Nil}
  BY <1>2
<1> QED BY <1>1, <1>2 DEF Roots

\* When the tracing is over the reachable objects are kept.
LEMMA TracedKeeps == ControlInv /\ Traced => Live \subseteq Kept
<1> SUFFICES ASSUME ControlInv, Traced PROVE Live \subseteq Kept
  OBVIOUS
<1>1. allocated \subseteq Objs /\ members \subseteq Workers
  BY DEF ControlInv, TypeInv, TypeOK
<1>2. Kept \in SUBSET Objs
  BY <1>1 DEF Kept
<1>3. Roots \subseteq Kept /\ \A x \in Kept : field[x] \in Kept \cup {Nil}
  BY <1>1, RootsIn DEF Traced
<1> QED BY <1>2, <1>3, LiveLeast

LEMMA MInvImplies ==
  MInv => TypeOK /\ OneSlot /\ KeptUnlessMissed /\ TracedAtFinish /\ CleanUnlessLate
<1> SUFFICES ASSUME MInv
             PROVE  TypeOK /\ OneSlot /\ KeptUnlessMissed /\ TracedAtFinish /\ CleanUnlessLate
  OBVIOUS
<1>1. ControlInv /\ TypeOK
  BY DEF MInv, ControlInv, TypeInv
<1>2. OneSlot
  BY DEF MInv, HeapInv, HeldInv, Held, OneSlot
<1>5. CleanUnlessLate
  <2>1. ASSUME "late" \notin missed, round = ASYNC, waiting = {}, NEW o \in mark PROVE FALSE
    <3>1. Home[o] \in members /\ mark \subseteq allocated
      BY <1>1, <2>1 DEF ControlInv, OwnInv
    <3>2. phase[Home[o]] = ASYNC
      BY <1>1, <2>1, <3>1 DEF ControlInv, PhaseInv
    <3> QED BY <2>1, <3>2 DEF MInv, CleanInv
  <2> QED BY <2>1 DEF CleanUnlessLate
<1>3. CASE missed # {}
  BY <1>1, <1>2, <1>3, <1>5 DEF KeptUnlessMissed, TracedAtFinish
<1>4. CASE missed = {}
  <2>1. ClosedInv /\ TracedInv
    BY <1>4 DEF MInv, HeapInv
  <2>2. round = ASYNC => Live \subseteq Kept
    BY <1>1, <2>1, TracedKeeps DEF TracedInv, Finished
  <2>3. Live \subseteq allocated
    <3>1. CASE round = ASYNC
      BY <2>2, <3>1 DEF Kept
    <3>2. CASE round # ASYNC
      <4>1. allocated \in SUBSET Objs /\ members \subseteq Workers
        BY <1>1 DEF TypeOK
      <4>2. Roots \subseteq allocated /\ \A x \in allocated : field[x] \in allocated \cup {Nil}
        BY <2>1, <3>2, <4>1, RootsIn DEF ClosedInv
      <4> QED BY <4>1, <4>2, LiveLeast
    <3> QED BY <3>1, <3>2
  <2>4. TracedAtFinish
    BY <2>2 DEF TracedAtFinish, Kept
  <2> QED BY <1>1, <1>2, <1>5, <2>3, <2>4 DEF KeptUnlessMissed
<1> QED BY <1>3, <1>4

\* Every variable has its type.
THEOREM TypeCorrect == Spec => []TypeOK
BY Invariance, MInvImplies, PTL

\* The assertion "slot->next == NULL" of push and remember: unless a barrier has
\* missed an object, no block is on two of the lists linked through its slot.
THEOREM NoSharedSlot == Spec => []OneSlot
BY Invariance, MInvImplies, PTL

\* sml_heap_worker_async gives back nothing that a mutator can reach, unless a
\* barrier has missed an object in one of the three ways: between visit and push
\* when marking was declared finished, crossed by a store without barrier, or
\* late, on a block whose owner had cleared its bits.
THEOREM NothingLost == Spec => []KeptUnlessMissed
BY Invariance, MInvImplies, PTL

\* When ASYNC is announced, all that is reachable and to be reclaimed is marked,
\* unless a barrier has missed an object.
THEOREM FinishTraced == Spec => []TracedAtFinish
BY Invariance, MInvImplies, PTL

\* A collection leaves no collect bit behind, whatever else a barrier has missed,
\* unless a barrier came late.
THEOREM BitsCleared == Spec => []CleanUnlessLate
BY Invariance, MInvImplies, PTL

\* What the run "marking" asks of the marks: control in every behaviour, one stack
\* slot while missed = {}, and no old marks unless a barrier came late.
THEOREM Marks == Spec => []MarksSound
<1>1. MInv => ControlInv
  BY DEF MInv
<1>. QED
  BY <1>1, Invariance, NoSharedSlot, BitsCleared, PTL DEF MarksSound

\* sml_run_finalizer, called by sml_heap_mark_finish before ASYNC is announced,
\* takes only finalizers of objects that cannot be reached, unless a barrier has
\* missed an object.
THEOREM FinalizersOfTheDead == Spec => FinalizesDead
<1>1. MInv /\ [Next]_vars => [missed' = {} => (finset \ finset') \cap Live = {}]_vars
  <2> SUFFICES ASSUME MInv, Next, missed' = {} PROVE (finset \ finset') \cap Live = {}
    OBVIOUS
  <2>1. ControlInv /\ HeapInv
    BY HeapStep DEF MInv
  <2>2. CASE LookDone
    <3>1. look.pass = 2 /\ look.left = {} /\ members = look.c1 /\ ~look.busy
      BY <2>2 DEF LookDone
    <3>2. Finished
      BY <2>1, <3>1 DEF Finished, ControlInv, LookInv
    <3>3. Live \subseteq Kept
      BY <2>1, <3>2, TracedKeeps DEF HeapInv, TracedInv
    <3>4. \A o \in Kept : IsAlive(o)
      <4>1. \A u \in members : phase[u] = MARK
        <5>1. round = MARK /\ waiting = {}
          BY <2>1, <3>1 DEF ControlInv, LookInv
        <5> QED BY <2>1, <5>1 DEF ControlInv, PhaseInv
      <4>2. \A o \in allocated : phase[Home[o]] # ASYNC
        BY <2>1, <4>1 DEF ControlInv, OwnInv, MARK, ASYNC
      <4> QED BY <4>2 DEF Kept, IsAlive
    <3> QED BY <2>2, <3>3, <3>4 DEF LookDone
  <2>3. CASE ~LookDone
    <3>1. ASSUME NEW w \in Workers, Mutator(w) PROVE finset' = finset
      BY <3>1 DEF Mutator, Alloc, Load, Drop, Write, CmpSwap, sets
    <3>2. ASSUME NEW w \in Workers, Poll(w) \/ Register(w) PROVE finset' = finset
      BY <3>2 DEF Poll, Sync1, Sync2, StartTrace, Async, Register, sets
    <3>3. ASSUME NEW w \in Workers, Runtime(w) PROVE finset' = finset
      BY <3>3 DEF Runtime, Barrier, RememberVisit, RememberPush, Store, GlobalSync2, TracePush,
                  TraceEnd, TracePop, sets
    <3>4. ASSUME StartGC \/ Coordinator PROVE finset' = finset
      BY <2>3, <3>4 DEF StartGC, Coordinator, NextRound, LookGrown, Signal, LookEmpty, LookAgain,
                        sets
    <3> QED BY <3>1, <3>2, <3>3, <3>4 DEF Next
  <2> QED BY <2>2, <2>3
<1> QED BY <1>1, Invariance, PTL DEF Spec, FinalizesDead
==============================================================================
