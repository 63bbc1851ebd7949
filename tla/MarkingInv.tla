----------------------------- MODULE MarkingInv ------------------------------
(***************************************************************************)
(* The inductive invariant of Marking.                                     *)
(*                                                                         *)
(* From SYNC2 on the objects that the mutators can still come to are all   *)
(* Safe: allocated since the snapshot, marked, or to be marked before the  *)
(* tracing ends, because the tracer gets there from an object it has still *)
(* to scan (Pending), from the global variable or from a value that a      *)
(* compare-and-swap has taken out of a cell and not yet remembered.  When  *)
(* sml_heap_mark_finish has found nothing left to scan, the safe objects   *)
(* are those that no worker will reclaim (Kept).                           *)
(***************************************************************************)
EXTENDS Marking

\* Allocated since its worker's snapshot.
Young == allocated \ target

\* The object that w has visited and is about to push on its remembered set.
Pushed(w) == CASE pc[w] = "pushnew" -> {op[w].new}
               [] pc[w] = "pushold" -> {op[w].old}
               [] OTHER -> {}
Held(w)   == gray[w] \cup remembered[w] \cup Pushed(w)
Pending   == UNION {Held(w) : w \in Workers}

\* An sml_write of the cell is under way that has loaded another value than the
\* one its store will overwrite.
Unsure(x) == \E w \in Workers : /\ pc[w] \in Writing /\ ~op[w].cas
                                /\ op[w].obj = x /\ op[w].old # field[x]

\* What sml_cmpswap has overwritten, or stored before the snapshot, and the
\* barrier has still to visit.
SwappedOut(w) == op[w].cas /\ pc[w] \in {"barrier", "visitnew", "pushnew", "visitold"}
SwappedIn(w)  == op[w].cas /\ pc[w] \in {"barrier", "visitnew"} /\ phase[w] < SYNC2

\* op[w].old is to be visited: by the barrier, or by the tracer that loaded it.
ToVisit(w) == SwappedOut(w) \/ pc[w] = "push"

\* The objects the collector will visit next.
Sources ==
  {o \in Objs :
     \/ \E x \in Pending : ~Unsure(x) /\ field[x] = o
     \/ genum # Nil /\ ~Unsure(Global) /\ field[Global] = o
     \/ \E w \in Workers : \/ ToVisit(w) /\ op[w].old = o
                           \/ SwappedIn(w) /\ op[w].new = o}

\* A set that tracing from the sources does not leave.
Complete(S) ==
  /\ Young \subseteq S /\ mark \subseteq S /\ Sources \subseteq S
  /\ \A x \in S : x \in target \ mark /\ ~Unsure(x) => field[x] \in S \cup {Nil}
Safe == {o \in Objs : \A S \in SUBSET Objs : Complete(S) => o \in S}

\* The objects that no sml_heap_worker_async will give back.
Kept == {o \in allocated : o \notin target \/ o \in mark \/ phase[Home[o]] = ASYNC}

Traced ==
  /\ Pending = {}
  /\ \A w \in Workers : roots[w] \subseteq Kept /\ op[w].old \in Kept \cup {Nil}
  /\ field[Global] \in Kept \cup {Nil}
  /\ \A x \in Kept : field[x] \in Kept \cup {Nil}

-----------------------------------------------------------------------------
(* Control: these hold whatever a barrier misses.                           *)

Labels == {"run", "global", "trace", "push"} \cup Writing
Ops    == [obj : Cell \cup {Nil}, old : Ptr, new : Ptr, cas : BOOLEAN]

TypeInv ==
  /\ TypeOK
  /\ round \in {ASYNC, SYNC1, SYNC2, MARK} /\ members # {}
  /\ pc \in [Workers -> Labels] /\ op \in [Workers -> Ops]
  /\ look \in [c1 : SUBSET members, left : SUBSET Workers, pass : 0..2, busy : BOOLEAN]
  /\ missed \subseteq {"finish", "snapshot", "late"}

\* Where a worker is in the handshake.
PhaseInv ==
  \A w \in members :
    /\ w \notin waiting => phase[w] = round
    /\ w \in unsent => <<phase[w], round>> \in Successors
    /\ w \in waiting \ unsent =>
          \/ phase[w] = Pre(round)
          \/ phase[w] = round /\ pc[w] \in {"global", "trace", "push"}
    /\ pc[w] = "global" =>
          w \in waiting \ unsent /\ round = SYNC2 /\ phase[w] = SYNC2 /\ genum = w
    /\ pc[w] \in {"trace", "push"} =>
          w \in waiting \ unsent /\ round = MARK /\ phase[w] = MARK

\* The worker that answered SYNC1 last enumerates the global variables.
GenumInv ==
  /\ round = SYNC1 => IF waiting = {} THEN genum \in members ELSE genum = Nil
  /\ round = SYNC2 => genum \in waiting \cup {Nil}
  /\ round \in {MARK, ASYNC} => genum = Nil

\* sml_heap_mark_finish runs when all workers have traced.
LookInv ==
  /\ look.pass = 0 => look.left = {}
  /\ look.pass = 1 => look.left # {}
  /\ look.pass # 0 => round = MARK /\ waiting = {}
  /\ round = MARK => \A w \in Workers \ waiting : gray[w] = {}

\* A thread that is not registered does nothing; an operation is under way
\* only between its first and its last step, and keeps what it works on alive.
Resting(w) == pc[w] = "run" /\ roots[w] = {} /\ gray[w] = {} /\ remembered[w] = {}
Working(w) ==
  /\ pc[w] \notin Writing \cup {"push"} => op[w] = NoOp
  /\ pc[w] \in Writing => op[w].new \in roots[w] \cup {Nil} /\ op[w].obj \in roots[w] \cup {Global}
  /\ pc[w] = "pushnew" => op[w].new \in Objs
  /\ pc[w] = "pushold" => op[w].old \in Objs
  /\ pc[w] \in {"store", "push"} => ~op[w].cas
  /\ pc[w] = "return" => op[w].cas
  /\ op[w].cas => op[w].old \in roots[w] \cup {Nil}
OpInv == /\ \A w \in Workers \ members : Resting(w)
         /\ \A w \in Workers : Working(w)

\* What the bitmaps say of a block, and of the worker it belongs to.
OwnInv ==
  /\ mark \subseteq target /\ target \subseteq allocated
  /\ \A o \in allocated : Home[o] \in members
  /\ \A o \in Young : phase[Home[o]] \in {SYNC2, PREMARK, MARK, PREASYNC}

ControlInv == TypeInv /\ PhaseInv /\ GenumInv /\ LookInv /\ OpInv /\ OwnInv

-----------------------------------------------------------------------------
(* The heap, as long as no barrier misses an object.                        *)

\* What is to be scanned is marked, and in one place.
HeldInv ==
  /\ Pending \subseteq mark
  /\ \A u, w \in Workers : u # w => Held(u) \cap Held(w) = {}
  /\ \A w \in Workers : /\ gray[w] \cap remembered[w] = {}
                        /\ (gray[w] \cup remembered[w]) \cap Pushed(w) = {}

\* There is no dangling pointer.
ClosedInv ==
  round # ASYNC =>
    /\ \A w \in Workers : roots[w] \subseteq allocated /\ op[w].old \in allocated \cup {Nil}
    /\ field[Global] \in allocated \cup {Nil}
    /\ \A x \in allocated : field[x] \in allocated \cup {Nil}

\* Nothing is scanned before SYNC2.
UnscannedInv == round = SYNC1 => mark \subseteq Pending

\* What the barrier has done before the store.
BarrierInv ==
  round # ASYNC =>
    \A w \in members :
      /\ phase[w] \in {SYNC1, PRESYNC2} /\ pc[w] \in {"visitold", "pushold", "store", "return"}
            => IsAlive(op[w].new)
      /\ phase[w] \in SYNC1..MARK /\ pc[w] \in {"store", "return"} => IsAlive(op[w].old)

\* From its snapshot on, a worker comes to safe objects only.
SafeRoots == \A w \in members : phase[w] >= SYNC2 =>
                roots[w] \subseteq Safe /\ op[w].old \in Safe \cup {Nil}
SafeCells == \A x \in Cell : x \in Safe \cup {Global} \/ Unsure(x) => field[x] \in Safe \cup {Nil}
SafeInv == round \in {SYNC2, MARK} => SafeRoots /\ SafeCells

\* The tracing is over in ASYNC, and from the turn of sml_heap_mark_finish on
\* unless a remembered set it has still to look at shows that it is not.
Finished ==
  \/ round = ASYNC
  \/ /\ round = MARK /\ look.pass = 2 /\ ~look.busy
     /\ \A w \in look.left \cup (members \ look.c1) : remembered[w] = {}
TracedInv == Finished => Traced

\* A worker that has reclaimed has cleared its collect bits.
CleanInv == round = ASYNC => \A o \in mark : phase[Home[o]] # ASYNC

HeapInv == HeldInv /\ ClosedInv /\ UnscannedInv /\ BarrierInv /\ SafeInv /\ TracedInv /\ CleanInv

MInv == /\ ControlInv
        /\ "late" \notin missed => CleanInv
        /\ missed = {} => HeapInv

\* Marks: every thread, the mutators' operations, the handshake and the bitmaps
\* are as ControlInv says; an object has one stack slot and is in one set at most,
\* unless a barrier missed an object in one of the three ways; and the next
\* collection begins without marks, unless a barrier came late.
MarksSound == ControlInv /\ OneSlot /\ CleanUnlessLate
==============================================================================
