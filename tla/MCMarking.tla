----------------------------- MODULE MCMarking -----------------------------
(* A global variable that leads to a chain of objects, and two workers, who  *)
(* collect once, of whom the second registers in the course of the           *)
(* collection, or who collect twice; a script of crossing stores; and a      *)
(* second worker that loads and stores without end.                          *)
EXTENDS MarkingInv, Sequences, TLC
CONSTANTS w1, w2, a, b, c
VARIABLES start, turn

Owner == [o \in Objs |-> IF o = c THEN w2 ELSE w1]
Heap(next) == [x \in Cell |-> IF x = Global THEN a
                              ELSE IF x \in DOMAIN next THEN next[x] ELSE Nil]
Single == Heap(<< >>)
Long   == Heap((a :> b) @@ (b :> c))
Pair   == Heap(a :> b)
Across == Heap(a :> c)
Both   == {w1, w2}
One    == {w1}
Last   == {c}
AllOps  == {"alloc", "load", "drop", "write", "cmpswap"}
NoSwaps == AllOps \ {"cmpswap"}

Joins == INSTANCE Marking WITH Members0 <- One, Heap0 <- Heap(a :> b),
                               Finalize0 <- {}
Again == INSTANCE Marking WITH Finalize0 <- {}, MaxGC <- 2, MaxOps <- 2

\* Two programs: while one thread overwrites a cell, the other stores a new
\* object there, forgets it and loads it again.
Script == [w \in Workers |-> IF w = w1 THEN <<"load", "write">>
                             ELSE <<"load", "alloc", "write", "drop", "load">>]
Free == INSTANCE Marking WITH Heap0 <- Single, Finalize0 <- {}, MaxOps <- 0
ByScript(w) ==
  /\ start = "script" /\ turn[w] <= Len(Script[w])
  /\ CASE Script[w][turn[w]] = "load"  -> \E x \in Cell : Free!Load(w, x)
       [] Script[w][turn[w]] = "alloc" -> \E o \in Objs : Free!Alloc(w, o, Nil)
       [] Script[w][turn[w]] = "write" -> \E v \in Ptr : Free!Write(w, a, v)
       [] Script[w][turn[w]] = "drop"  -> \E o \in Objs : Free!Drop(w, o)
  /\ turn' = [turn EXCEPT ![w] = @ + 1]

\* As many operations as it likes, but of the second thread and on objects only.
Endless == INSTANCE Marking WITH
             Heap0 <- Heap(a :> b), Members0 <- One, Finalize0 <- {},
             Program <- {"load", "write"}, MaxOps <- 0
EndlessNext ==
  \/ \E w \in Workers : Poll(w) \/ Runtime(w) \/ Register(w)
  \/ Endless!Mutator(w2) /\ (op'[w2].obj # Global)
  \/ StartGC \/ Coordinator

MCInit ==
  /\ turn = [w \in Workers |-> 1]
  /\ \/ start = "both"   /\ Init
     \/ start = "joins"  /\ Joins!Init
     \/ start = "again"  /\ Again!Init
     \/ start = "script" /\ Free!Init
     \/ start = "endless" /\ Endless!Init

MCNext ==
  /\ \/ start \in {"both", "joins"} /\ Next /\ UNCHANGED turn
     \/ start = "again" /\ Again!Next /\ UNCHANGED turn
     \/ start = "endless" /\ EndlessNext /\ UNCHANGED turn
     \/ \E w \in Workers : ByScript(w)
     \/ /\ start = "script" /\ UNCHANGED turn
        /\ \/ \E w \in Workers : Poll(w) \/ Runtime(w)
           \/ StartGC \/ Coordinator
  /\ UNCHANGED start

MCSpec   == MCInit /\ [][MCNext]_<<vars, start, turn>>

\* One start only.
OneInit == Init /\ start = "both" /\ turn = << >>
OneSpec  == OneInit /\ [][Next /\ UNCHANGED <<start, turn>>]_<<vars, start, turn>>
ScriptSpec == (MCInit /\ start = "script") /\ [][MCNext]_<<vars, start, turn>>

\* A collection that has begun ends (CollectionEnds), under the fairness of the
\* threads, although the second one goes on storing into the objects it reaches and
\* the barrier makes sml_heap_mark_finish find remembered objects.
TracingEnds == start = "endless" /\ Fairness => CollectionEnds
=============================================================================
