-------------------------- MODULE SegmentPoolProofs --------------------------
(***************************************************************************)
(* Proofs that the invariant of SegmentPoolInv holds, and with it the      *)
(* properties of SegmentPool, for every number of segments and workers.    *)
(*                                                                         *)
(* Every part of the invariant has its own steps: ControlInv and RoomInv   *)
(* from themselves; OwnerInv from ControlInv, until a race; SnapInv from   *)
(* OwnerInv; YoungInv from SnapInv; BitsInv from OwnerInv; and AbaInv from *)
(* OwnerInv and SnapInv.  A part has one lemma per action that changes     *)
(* what it is about, and one that puts them together.                      *)
(***************************************************************************)
EXTENDS SegmentPoolInv, WellFoundedInduction, FiniteSetTheorems, TLAPS

Below == {p \in Nat \X Nat : p[1] < p[2]}
LEMMA BelowWF == IsWellFoundedOn(Below, Nat)
BY NatLessThanWellFounded DEF OpToRel, Below

LEMMA LeastExists ==
  ASSUME NEW S \in SUBSET Nat, S # {}
  PROVE  \E x \in S : \A y \in S : x <= y
<1>1. PICK x \in S : \A y \in S : <<y, x>> \notin Below
  BY BelowWF, WFMin
<1>2. \A y \in S : ~(y < x)
  <2>1. TAKE y \in S
  <2>2. <<y, x>> \in Nat \X Nat /\ <<y, x>> \notin Below
    BY <1>1
  <2>. QED
    BY <2>2 DEF Below
<1>. QED
  BY <1>2

LEMMA GreatestExists ==
  ASSUME NEW n \in Nat, NEW S \in SUBSET (0..n), S # {}
  PROVE  \E x \in S : \A y \in S : y <= x
<1>1. DEFINE T == {m \in Nat : \E x \in S : m = n - x}
<1>2. T \in SUBSET Nat /\ \A x \in S : n - x \in T
  OBVIOUS
<1>3. PICK t \in T : \A u \in T : t <= u
  BY <1>2, LeastExists
<1>4. PICK x \in S : t = n - x
  BY <1>3
<1>. QED
  BY <1>2, <1>3, <1>4

-----------------------------------------------------------------------------
(* The lists.                                                               *)

\* A segment is a number that is not the null pointer.
LEMMA SegType == \A s \in Segs : s \in Nat /\ s <= Count /\ s # Null /\ s \in Link
BY CountType DEF Segs, Null, Link

\* A list contains its head and the successors of its elements, and nothing
\* that a set with these properties does not.
LEMMA ChainClosed ==
  ASSUME NEW nx \in [Segs -> Link], NEW s \in Link
  PROVE  /\ Chain(nx, s) \subseteq Segs
         /\ s # Null => s \in Chain(nx, s)
         /\ \A x \in Chain(nx, s) : nx[x] \in Chain(nx, s) \cup {Null}
BY DEF Chain, Leaves, Link, Segs, Null

LEMMA ChainLeast ==
  ASSUME NEW nx \in [Segs -> Link], NEW s \in Link, NEW S, S \subseteq Segs,
         s \in S \cup {Null}, \A x \in S : nx[x] \in S \cup {Null}
  PROVE  Chain(nx, s) \subseteq S
BY DEF Chain, Leaves

LEMMA ChainNull == ASSUME NEW nx \in [Segs -> Link] PROVE Chain(nx, Null) = {}
<1>1. PICK S : S = {}
  OBVIOUS
<1>2. Chain(nx, Null) \subseteq S
  BY <1>1, ChainLeast DEF Link
<1>. QED
  BY <1>1, <1>2

\* The part of a list behind one of its elements.
LEMMA ChainTail ==
  ASSUME NEW nx \in [Segs -> Link], NEW s \in Link, NEW x \in Chain(nx, s)
  PROVE  /\ Chain(nx, x) \subseteq Chain(nx, s)
         /\ Chain(nx, nx[x]) \subseteq Chain(nx, s)
<1>1. x \in Segs /\ x \in Link /\ nx[x] \in Link /\ Chain(nx, s) \in SUBSET Segs
  BY ChainClosed DEF Link
<1>. QED
  BY <1>1, ChainClosed, ChainLeast

\* A list is its head and the rest.
LEMMA ChainStep ==
  ASSUME NEW nx \in [Segs -> Link], NEW s \in Segs
  PROVE  Chain(nx, s) = {s} \cup Chain(nx, nx[s])
<1>0. s \in Link /\ nx[s] \in Link /\ s # Null
  BY DEF Link, Segs, Null
<1>1. s \in Chain(nx, s)
  BY <1>0, ChainClosed
<1>2. Chain(nx, nx[s]) \subseteq Chain(nx, s)
  BY <1>0, <1>1, ChainTail
<1>. DEFINE S == {s} \cup Chain(nx, nx[s])
<1>3. S \subseteq Segs /\ s \in S \cup {Null} /\ \A x \in S : nx[x] \in S \cup {Null}
  BY <1>0, ChainClosed
<1>. HIDE DEF S
<1>4. Chain(nx, s) \subseteq S
  BY <1>0, <1>3, ChainLeast
<1>. USE DEF S
<1>. QED
  BY <1>1, <1>2, <1>4

\* A list does not depend on the links of other segments.
LEMMA ChainFrame ==
  ASSUME NEW nx \in [Segs -> Link], NEW ny \in [Segs -> Link], NEW s \in Link,
         \A x \in Chain(nx, s) : ny[x] = nx[x]
  PROVE  Chain(ny, s) = Chain(nx, s)
<1>1. Chain(ny, s) \subseteq Chain(nx, s)
  BY ChainClosed, ChainLeast
<1>2. Chain(nx, s) \subseteq Chain(ny, s)
  BY <1>1, ChainClosed, ChainLeast
<1>. QED
  BY <1>1, <1>2

\* Nor does it become cyclic by them.
LEMMA AcyclicFrame ==
  ASSUME NEW nx \in [Segs -> Link], NEW ny \in [Segs -> Link], NEW s \in Link,
         \A x \in Chain(nx, s) : ny[x] = nx[x], Acyclic(nx, s)
  PROVE  Acyclic(ny, s)
<1>1. Chain(ny, s) = Chain(nx, s)
  BY ChainFrame
<1>2. ASSUME NEW x \in Chain(nx, s) PROVE x \notin Chain(ny, ny[x])
  <2>1. x \in Segs /\ nx[x] \in Link /\ ny[x] = nx[x]
    BY ChainClosed
  <2>2. Chain(nx, nx[x]) \subseteq Chain(nx, s)
    BY ChainTail
  <2>3. Chain(ny, nx[x]) = Chain(nx, nx[x])
    BY <2>1, <2>2, ChainFrame
  <2>. QED
    BY <2>1, <2>3 DEF Acyclic
<1>. QED
  BY <1>1, <1>2 DEF Acyclic

\* segment_pop: the rest of the list is the list without its head.
LEMMA PopChain ==
  ASSUME NEW nx \in [Segs -> Link], NEW s \in Segs, Acyclic(nx, s)
  PROVE  Chain(nx, nx[s]) = Chain(nx, s) \ {s} /\ Acyclic(nx, nx[s])
<1>1. s \in Link /\ s # Null
  BY DEF Link, Segs, Null
<1>2. s \in Chain(nx, s) /\ Chain(nx, s) = {s} \cup Chain(nx, nx[s])
  BY <1>1, ChainClosed, ChainStep
<1>. QED
  BY <1>2 DEF Acyclic

\* The links of pushed segments lead from each to the next greater one.
LEMMA LeastType ==
  ASSUME NEW S \in SUBSET Segs, S # {}
  PROVE  Least(S) \in S /\ \A y \in S : Least(S) <= y
<1>1. S \in SUBSET Nat
  BY CountType DEF Segs
<1>2. \E x \in S : \A y \in S : x <= y
  BY <1>1, LeastExists
<1>. QED
  BY <1>2 DEF Least

\* segment_push_list: the segments come in front of the list.
LEMMA PushChain ==
  ASSUME NEW nx \in [Segs -> Link], NEW ny \in [Segs -> Link], NEW old \in Link,
         NEW S \in SUBSET Segs, S # {}, S \cap Chain(nx, old) = {}, Acyclic(nx, old),
         \A s \in Segs : ny[s] = IF s \in S THEN Linked(S, old)[s] ELSE nx[s]
  PROVE  /\ Chain(ny, Least(S)) = S \cup Chain(nx, old)
         /\ Acyclic(ny, Least(S))
<1>. DEFINE rest(s) == {t \in S : s < t}
            first == Least(S)
<1>0. first \in S /\ first \in Link /\ first # Null /\ \A y \in S : first <= y
  BY LeastType, SegType
<1>1. ASSUME NEW s \in S, rest(s) # {}
      PROVE  /\ ny[s] = Least(rest(s)) /\ ny[s] \in S /\ s < ny[s]
             /\ \A t \in S : s < t => ny[s] <= t
  <2>1. rest(s) \in SUBSET Segs /\ \E t \in S : s < t
    BY <1>1
  <2>2. Least(rest(s)) \in rest(s) /\ \A y \in rest(s) : Least(rest(s)) <= y
    BY <1>1, <2>1, LeastType
  <2>3. ny[s] = Least(rest(s))
    BY <2>1 DEF Linked
  <2>. QED
    BY <2>2, <2>3
<1>2. ASSUME NEW s \in S, rest(s) = {} PROVE ny[s] = old
  BY <1>2 DEF Linked
<1>3. Chain(ny, old) = Chain(nx, old) /\ \A x \in Chain(nx, old) : ny[x] = nx[x]
  BY ChainFrame, ChainClosed
<1>. DEFINE U == S \cup Chain(nx, old)
<1>4. Chain(ny, first) \subseteq U
  <2>1. U \subseteq Segs /\ first \in U
    BY <1>0, ChainClosed
  <2>2. ASSUME NEW x \in U PROVE ny[x] \in U \cup {Null}
    <3>1. CASE x \in Chain(nx, old)
      BY <3>1, <1>3, ChainClosed
    <3>2. CASE x \in S /\ rest(x) = {}
      BY <3>2, <1>2, ChainClosed DEF Link
    <3>3. CASE x \in S /\ rest(x) # {}
      BY <3>3, <1>1
    <3>. QED
      BY <3>1, <3>2, <3>3
  <2>. HIDE DEF U
  <2>. QED
    BY <1>0, <2>1, <2>2, ChainLeast
<1>. DEFINE D == Chain(ny, first)
<1>5. D \subseteq Segs /\ first \in D /\ \A x \in D : ny[x] \in D \cup {Null}
  BY <1>0, ChainClosed
<1>6. S \subseteq D
  <2>1. SUFFICES ASSUME S \ D # {} PROVE FALSE
    OBVIOUS
  <2>2. PICK m \in S \ D : \A y \in S \ D : m <= y
    <3>1. S \ D \in SUBSET Segs
      OBVIOUS
    <3>. QED
      BY <2>1, <3>1, LeastType
  <2>3. PICK p \in S : p < m /\ \A y \in S : y < m => y <= p
    <3>. DEFINE L == {y \in S : y < m}
    <3>1. L # {} /\ L \in SUBSET (0..Count) /\ Count \in Nat
      BY <1>0, <1>5, <2>2, SegType, CountType
    <3>. QED
      BY <3>1, GreatestExists
  <2>4. p \in D
    BY <2>2, <2>3, SegType
  <2>5. ny[p] \in S /\ p < ny[p] /\ ny[p] <= m
    BY <1>1, <2>2, <2>3
  <2>6. ny[p] = m
    BY <2>2, <2>3, <2>5, SegType
  <2>. QED
    BY <1>5, <2>2, <2>4, <2>6, SegType
<1>7. Chain(nx, old) \subseteq D
  <2>1. PICK g \in S : \A y \in S : y <= g
    <3>1. S \in SUBSET (0..Count) /\ Count \in Nat
      BY SegType, CountType
    <3>. QED
      BY <3>1, GreatestExists
  <2>2. rest(g) = {}
    BY <2>1, SegType
  <2>3. old \in D \cup {Null}
    BY <1>2, <1>5, <1>6, <2>2
  <2>. QED
    BY <1>3, <1>5, <2>3, ChainLeast
<1>8. D = S \cup Chain(nx, old)
  BY <1>4, <1>6, <1>7
<1>9. ASSUME NEW x \in S PROVE x \notin Chain(ny, ny[x])
  <2>. DEFINE R == rest(x) \cup Chain(nx, old)
  <2>1. R \subseteq Segs
    BY ChainClosed
  <2>2. ASSUME NEW y \in R PROVE ny[y] \in R \cup {Null}
    <3>1. CASE y \in Chain(nx, old)
      BY <3>1, <1>3, ChainClosed
    <3>2. CASE y \in rest(x)
      <4>1. CASE rest(y) = {}
        BY <3>2, <4>1, <1>2, ChainClosed DEF Link
      <4>2. CASE rest(y) # {}
        <5>1. ny[y] \in S /\ y < ny[y]
          BY <3>2, <4>2, <1>1
        <5>2. x < y /\ x \in Nat /\ y \in Nat /\ ny[y] \in Nat
          BY <3>2, <5>1, SegType
        <5>. QED
          BY <5>1, <5>2
      <4>. QED
        BY <4>1, <4>2
    <3>. QED
      BY <3>1, <3>2
  <2>3. ny[x] \in R \cup {Null}
    <3>1. CASE rest(x) = {}
      BY <3>1, <1>2, ChainClosed DEF Link
    <3>2. CASE rest(x) # {}
      BY <3>2, <1>1, SegType
    <3>. QED
      BY <3>1, <3>2
  <2>4. ny[x] \in Link
    OBVIOUS
  <2>5. x \notin R
    BY SegType
  <2>. HIDE DEF R
  <2>6. Chain(ny, ny[x]) \subseteq R
    BY <2>1, <2>2, <2>3, <2>4, ChainLeast
  <2>. QED
    BY <2>5, <2>6
<1>10. ASSUME NEW x \in Chain(nx, old) PROVE x \notin Chain(ny, ny[x])
  BY <1>3, AcyclicFrame DEF Acyclic
<1>. QED
  BY <1>8, <1>9, <1>10 DEF Acyclic

\* The types of what a push does.
LEMMA PushTypes ==
  ASSUME top \in [Stacks -> Link], next \in [Segs -> Link], NEW st \in Stacks,
         NEW S \in SUBSET Segs, Push(st, S)
  PROVE  /\ top' \in [Stacks -> Link] /\ next' \in [Segs -> Link]
         /\ \A t \in Stacks \ {st} : top'[t] = top[t]
         /\ \A s \in Segs \ S : next'[s] = next[s]
         /\ S = {} => UNCHANGED <<top, next>>
         /\ S # {} => top'[st] = Least(S) /\ top'[st] \in S
<1>1. CASE S = {}
  BY <1>1 DEF Push
<1>2. CASE S # {}
  <2>1. /\ next' = [s \in Segs |-> IF s \in S THEN Linked(S, top[st])[s] ELSE next[s]]
        /\ top' = [top EXCEPT ![st] = Least(S)]
    BY <1>2 DEF Push
  <2>2. ASSUME NEW s \in S PROVE Linked(S, top[st])[s] \in Link
    <3>1. CASE \E t \in S : s < t
      <4>. DEFINE R == {t \in S : s < t}
      <4>1. R \in SUBSET Segs /\ R # {}
        BY <3>1
      <4>2. Least(R) \in Link
        BY <4>1, LeastType, SegType
      <4>. QED
        BY <3>1, <4>2 DEF Linked
    <3>2. CASE ~\E t \in S : s < t
      BY <3>2 DEF Linked
    <3>. QED
      BY <3>1, <3>2
  <2>3. Least(S) \in S /\ Least(S) \in Link
    BY <1>2, LeastType, SegType
  <2>. QED
    BY <1>2, <2>1, <2>2, <2>3
<1>. QED
  BY <1>1, <1>2

-----------------------------------------------------------------------------
(* Locals.                                                                  *)

LEMMA NullType == Null \in Link
BY DEF Link

LEMMA RoomType == \A n \in 0..MaxRoom : n \in Int /\ (n # 0 => n > 0)
BY CountType

LEMMA PhaseTypes == {ASYNC, SYNC1, SYNC2, MARK} \subseteq Phases
BY DEF Phases, ASYNC, SYNC1, SYNC2, MARK

LEMMA FieldTypes ==
  ASSUME NEW l \in LocalType
  PROVE  /\ l.use \in {"", "find", "init", "sweep"} /\ l.st \in Stacks \cup {""}
         /\ l.old \in Link /\ l.nxt \in Link /\ l.seg \in Link
         /\ l.lp \in Phases \cup {DUMMY_PHASE} /\ l.tries \in 0..2 /\ l.goal \in Nat
BY DEF LocalType

LEMMA LoadsType ==
  ASSUME NEW l \in LocalType, NEW st \in Stacks, NEW old \in Link, NEW nxt \in Link
  PROVE  LET r == Loads(l, st, old, nxt) IN
         /\ r \in LocalType
         /\ r.use = l.use /\ r.st = st /\ r.old = old /\ r.nxt = nxt /\ r.seg = Null
         /\ r.lp = l.lp /\ r.tries = l.tries /\ r.goal = l.goal
BY NullType DEF Loads, Locals, LocalType

LEMMA GetsType ==
  ASSUME NEW l \in LocalType, NEW seg \in Link
  PROVE  LET r == Gets(l, seg) IN
         /\ r \in LocalType
         /\ r.use = l.use /\ r.st = l.st /\ r.old = Null /\ r.nxt = Null /\ r.seg = seg
         /\ r.lp = l.lp /\ r.tries = l.tries /\ r.goal = l.goal
BY NullType DEF Gets, Locals, LocalType

LEMMA NoLocals ==
  /\ Local \in LocalType
  /\ Local.use = "" /\ Local.st = "" /\ Local.old = Null /\ Local.nxt = Null
  /\ Local.seg = Null /\ Local.lp = ASYNC /\ Local.tries = 0 /\ Local.goal = 0
BY NullType, PhaseTypes DEF Local, Locals, LocalType

\* Thread w goes to label l, with locals r.
Moves(w, l, r) ==
  /\ pc' \in [Workers -> Labels] /\ loc' \in [Workers -> LocalType]
  /\ pc'[w] = l /\ loc'[w] = r
  /\ \A u \in Workers \ {w} : pc'[u] = pc[u] /\ loc'[u] = loc[u]

LEMMA MovesBoth ==
  ASSUME pc \in [Workers -> Labels], loc \in [Workers -> LocalType], NEW w \in Workers,
         NEW l \in Labels, NEW r \in LocalType,
         pc' = [pc EXCEPT ![w] = l], loc' = [loc EXCEPT ![w] = r]
  PROVE  Moves(w, l, r)
BY DEF Moves

LEMMA MovesOn ==
  ASSUME pc \in [Workers -> Labels], loc \in [Workers -> LocalType], NEW w \in Workers,
         NEW l \in Labels, pc' = [pc EXCEPT ![w] = l], loc' = loc
  PROVE  Moves(w, l, loc[w])
BY DEF Moves

LEMMA MovesBack ==
  ASSUME pc \in [Workers -> Labels], loc \in [Workers -> LocalType], NEW w \in Workers,
         NEW r \in LocalType, pc' = pc, loc' = [loc EXCEPT ![w] = r]
  PROVE  Moves(w, pc[w], r)
BY DEF Moves

\* What a thread is doing depends on its own label and locals.
LEMMA Others ==
  ASSUME NEW w \in Workers, NEW l, NEW r, Moves(w, l, r), NEW u \in Workers, u # w
  PROVE  /\ Finding(u)' <=> Finding(u)
         /\ Sweeping(u)' <=> Sweeping(u)
         /\ Registering(u)' <=> Registering(u)
         /\ LocalOf(u) /\ (u \in members' <=> u \in members) => LocalOf(u)'
<1>1. pc'[u] = pc[u] /\ loc'[u] = loc[u]
  BY DEF Moves
<1>2. Registering(u)' <=> Registering(u)
  BY <1>1 DEF Registering
<1>3. LocalOf(u) /\ (u \in members' <=> u \in members) => LocalOf(u)'
  BY <1>1, <1>2 DEF LocalOf
<1>. QED
  BY <1>1, <1>2, <1>3 DEF Finding, Sweeping

-----------------------------------------------------------------------------
(* The control, step by step.                                               *)

\* What PopLoad does to the locals of w.
PopLoads(w, l, r) ==
  LET old == top[loc[w].st] IN
  /\ Moves(w, l, r)
  /\ r.use = loc[w].use /\ r.lp = loc[w].lp /\ r.tries = loc[w].tries
  /\ r.goal = loc[w].goal /\ r.seg = Null
  /\ \/ l = "cas" /\ old # Null /\ r.old = old /\ r.nxt = next[old] /\ r.st = loc[w].st
     \/ l = "poolfilled" /\ old = Null /\ r = loc[w] /\ r.use = "sweep"
     \/ l = "extend" /\ r = loc[w] /\ r.use # "sweep"
     \/ l = "load" /\ r.use # "sweep" /\ r.st \in Stacks /\ (r.st = "marked" => r.use # "init")

LEMMA PopLoadMoves ==
  ASSUME TypeInv, LocalInv, NEW w \in Workers, PopLoad(w)
  PROVE  \E l \in Labels, r \in LocalType : PopLoads(w, l, r)
<1>. DEFINE st == loc[w].st
            old == top[st]
            other == LookNext(st, loc[w].lp)
<1>0. /\ loc[w] \in LocalType /\ loc[w].seg = Null /\ st \in Stacks
      /\ pc \in [Workers -> Labels] /\ loc \in [Workers -> LocalType]
      /\ (loc[w].use = "init" => st # "marked" /\ loc[w].lp = DUMMY_PHASE)
  BY DEF PopLoad, LocalInv, LocalOf, TypeInv, InPoolCode
<1>1. old \in Link /\ (old # Null => old \in Segs /\ next[old] \in Link)
  BY <1>0 DEF TypeInv, TypeOK, Link
<1>2. CASE old # Null
  <2>. DEFINE r == Loads(loc[w], st, old, next[old])
  <2>1. pc' = [pc EXCEPT ![w] = "cas"] /\ loc' = [loc EXCEPT ![w] = r]
    BY <1>2 DEF PopLoad, Goto
  <2>2. r \in LocalType /\ r.use = loc[w].use /\ r.st = st /\ r.old = old /\ r.nxt = next[old]
        /\ r.seg = Null /\ r.lp = loc[w].lp /\ r.tries = loc[w].tries /\ r.goal = loc[w].goal
    BY <1>0, <1>1, <1>2, LoadsType
  <2>. HIDE DEF r
  <2>a. r \in LocalType /\ "cas" \in Labels
    BY <2>2 DEF Labels
  <2>3. Moves(w, "cas", r) /\ "cas" \in Labels
    BY <1>0, <2>1, <2>a, MovesBoth
  <2>. QED
    BY <1>2, <2>2, <2>3 DEF PopLoads
<1>3. CASE old = Null /\ loc[w].use = "sweep"
  <2>1. pc' = [pc EXCEPT ![w] = "poolfilled"] /\ loc' = loc /\ "poolfilled" \in Labels
    BY <1>3 DEF PopLoad, Goto, Labels
  <2>2. Moves(w, "poolfilled", loc[w])
    BY <1>0, <2>1, MovesOn
  <2>. QED
    BY <1>0, <1>3, <2>1, <2>2 DEF PopLoads
<1>4. CASE old = Null /\ loc[w].use # "sweep" /\ other = "memory"
  <2>1. pc' = [pc EXCEPT ![w] = "extend"] /\ loc' = loc /\ "extend" \in Labels
    BY <1>4 DEF PopLoad, Goto, Labels
  <2>2. Moves(w, "extend", loc[w])
    BY <1>0, <2>1, MovesOn
  <2>. QED
    BY <1>0, <1>4, <2>1, <2>2 DEF PopLoads
<1>5. CASE old = Null /\ loc[w].use # "sweep" /\ other # "memory"
  <2>. DEFINE r == Loads(loc[w], other, Null, Null)
  <2>1. pc' = pc /\ loc' = [loc EXCEPT ![w] = r] /\ pc[w] = "load" /\ "load" \in Labels
    BY <1>5 DEF PopLoad, Labels
  <2>2. other \in Stacks /\ (other = "marked" => loc[w].use # "init")
    BY <1>0, <1>5 DEF LookNext, Stacks, DUMMY_PHASE, MARK, ASYNC, PREASYNC
  <2>3. r \in LocalType /\ r.use = loc[w].use /\ r.st = other /\ r.seg = Null
        /\ r.lp = loc[w].lp /\ r.tries = loc[w].tries /\ r.goal = loc[w].goal
    BY <1>0, <2>2, LoadsType, NullType
  <2>4. Moves(w, "load", r)
    BY <1>0, <2>1, <2>3, MovesBack
  <2>. HIDE DEF r, other
  <2>. QED
    BY <1>0, <1>5, <2>1, <2>2, <2>3, <2>4 DEF PopLoads
<1>. QED
  BY <1>2, <1>3, <1>4, <1>5

\* The handshake does not move.
LEMMA PhaseFrame ==
  ASSUME TypeInv, PhaseInv, UNCHANGED <<members, round, waiting, phase, unsent>>,
         \A u \in members : Finding(u)' => Finding(u) /\ loc'[u].lp = loc[u].lp
  PROVE  PhaseInv'
BY DEF PhaseInv, PhaseOf

\* The heap of a worker does not change.
LEMMA HeapFrame ==
  ASSUME NEW u \in Workers, HeapOf(u), Finding(u)' => Finding(u),
         u \in members' <=> u \in members, pc'[u] = "register" <=> pc[u] = "register",
         cur'[u] = cur[u], room'[u] = room[u], filled'[u] = filled[u],
         part'[u] = part[u], free'[u] = free[u]
  PROVE  HeapOf(u)'
BY DEF HeapOf

LEMMA HeapsFrame ==
  ASSUME HeapInv, UNCHANGED <<members, cur, filled, part, free, room>>,
         \A u \in Workers : /\ Finding(u)' => Finding(u)
                            /\ pc'[u] = "register" <=> pc[u] = "register"
  PROVE  HeapInv'
<1>1. ASSUME NEW u \in Workers PROVE HeapOf(u)'
  BY HeapFrame DEF HeapInv
<1>. QED
  BY <1>1 DEF HeapInv

LEMMA PopLoadControl ==
  ASSUME ControlInv, NEW w \in Workers, PopLoad(w)
  PROVE  ControlInv'
<1>0. PICK l \in Labels, r \in LocalType : PopLoads(w, l, r)
  BY PopLoadMoves DEF ControlInv
<1>. USE <1>0 DEF ControlInv, PopLoads
<1>1. /\ UNCHANGED <<own, shared, bits, rounds, swept, raced>> /\ pc[w] = "load"
  BY DEF PopLoad
<1>. USE <1>1 DEF own, shared, bits, rounds
<1>2. TypeInv'
  BY DEF TypeInv, TypeOK, Moves
<1>3. LocalOf(w)' /\ (Finding(w)' => Finding(w)) /\ (Registering(w)' <=> Registering(w))
      /\ (Sweeping(w)' => Sweeping(w))
  <2>1. LocalOf(w) /\ pc'[w] = l /\ loc'[w] = r /\ (w \in members' <=> w \in members)
    BY DEF LocalInv, Moves
  <2>2. (Finding(w)' => Finding(w)) /\ (Registering(w)' <=> Registering(w)) /\ (Sweeping(w)' => Sweeping(w))
    BY <2>1 DEF LocalOf, Registering, Finding, Sweeping, InPoolCode
  <2>3. LocalOf(w)'
    BY <2>1, <2>2 DEF LocalOf, InPoolCode
  <2>. QED
    BY <2>2, <2>3
<1>4. ASSUME NEW u \in Workers
      PROVE  LocalOf(u)' /\ (Finding(u)' => Finding(u)) /\ (Sweeping(u)' => Sweeping(u))
  BY <1>3, Others DEF LocalInv
<1>5. HeapInv'
  <2>1. \A u \in Workers : pc'[u] = "register" <=> pc[u] = "register"
    BY DEF Moves
  <2>. QED
    BY <1>4, <2>1, HeapsFrame
<1>6. PhaseInv'
  BY <1>4, PhaseFrame DEF Moves, TypeInv
<1>7. CycleInv'
  <2>1. ASSUME top["marked"] # Null, NEW u \in Workers PROVE pc'[u] \notin {"poolfilled", "poolfree"}
    <3>1. pc[u] \notin {"poolfilled", "poolfree"} /\ (r.use = "sweep" => loc[w].st = "marked")
      BY <2>1 DEF CycleInv, LocalInv, LocalOf, InPoolCode
    <3>. QED
      BY <2>1, <3>1 DEF Moves
  <2>. QED
    BY <1>4, <2>1 DEF CycleInv
<1>. QED
  BY <1>2, <1>4, <1>5, <1>6, <1>7 DEF LocalInv

\* What PopCas does.
PopCases(w, l, r) ==
  LET old == loc[w].old IN
  /\ Moves(w, l, r)
  /\ r.use = loc[w].use /\ r.lp = loc[w].lp /\ r.tries = loc[w].tries
  /\ r.goal = loc[w].goal /\ r.st = loc[w].st
  /\ \/ l = "load" /\ r = loc[w] /\ UNCHANGED <<top, raced>>
     \/ /\ r.seg = old /\ top[r.st] = old
        /\ l = IF r.use = "sweep" THEN "sweep" ELSE IF r.st = "marked" THEN "clear" ELSE "set"
        /\ top' = [top EXCEPT ![r.st] = loc[w].nxt]
        /\ raced' = (raced \/ next[old] # loc[w].nxt)

LEMMA PopCasMoves ==
  ASSUME TypeInv, LocalInv, NEW w \in Workers, PopCas(w)
  PROVE  \E l \in Labels, r \in LocalType : PopCases(w, l, r)
<1>0. pc \in [Workers -> Labels] /\ loc \in [Workers -> LocalType] /\ loc[w] \in LocalType
  BY DEF TypeInv
<1>1. CASE PopSucceeds(w)
  <2>. DEFINE r == Gets(loc[w], loc[w].old)
              l == IF loc[w].use = "sweep" THEN "sweep"
                   ELSE IF loc[w].st = "marked" THEN "clear" ELSE "set"
  <2>1. /\ pc' = [pc EXCEPT ![w] = l] /\ loc' = [loc EXCEPT ![w] = r] /\ l \in Labels
        /\ top' = [top EXCEPT ![loc[w].st] = loc[w].nxt] /\ top[loc[w].st] = loc[w].old
        /\ raced' = (raced \/ next[loc[w].old] # loc[w].nxt)
    BY <1>1 DEF PopCas, Goto, Labels, PopSucceeds, StaleNext
  <2>2. r \in LocalType /\ r.use = loc[w].use /\ r.st = loc[w].st /\ r.seg = loc[w].old
        /\ r.lp = loc[w].lp /\ r.tries = loc[w].tries /\ r.goal = loc[w].goal
    BY <1>0, FieldTypes, GetsType
  <2>. HIDE DEF r
  <2>3. Moves(w, l, r)
    BY <1>0, <2>1, <2>2, MovesBoth
  <2>. QED
    BY <2>1, <2>2, <2>3 DEF PopCases
<1>2. CASE ~PopSucceeds(w)
  <2>1. pc' = [pc EXCEPT ![w] = "load"] /\ loc' = loc /\ "load" \in Labels
        /\ UNCHANGED <<top, raced>>
    BY <1>2 DEF PopCas, Goto, Labels
  <2>2. Moves(w, "load", loc[w])
    BY <1>0, <2>1, MovesOn
  <2>. QED
    BY <1>0, <2>1, <2>2 DEF PopCases
<1>. QED
  BY <1>1, <1>2

LEMMA PopCasControl ==
  ASSUME ControlInv, NEW w \in Workers, PopCas(w)
  PROVE  ControlInv'
<1>0. PICK l \in Labels, r \in LocalType : PopCases(w, l, r)
  BY PopCasMoves DEF ControlInv
<1>. USE <1>0 DEF ControlInv, PopCases
<1>1. /\ UNCHANGED <<own, next, poolFilled, alloced, bits, rounds, swept>> /\ pc[w] = "cas"
      /\ loc[w].st \in Stacks /\ loc[w].old \in Segs /\ loc[w].nxt \in Link
  BY FieldTypes DEF PopCas, LocalInv, LocalOf, TypeInv, Link
<1>. USE <1>1 DEF own, bits, rounds
<1>2. TypeInv'
  BY DEF TypeInv, TypeOK, Moves, Link
<1>3. LocalOf(w)' /\ (Finding(w)' => Finding(w)) /\ (Sweeping(w)' => Sweeping(w))
  <2>1. LocalOf(w) /\ pc'[w] = l /\ loc'[w] = r /\ (w \in members' <=> w \in members)
    BY DEF LocalInv, Moves
  <2>2. (Finding(w)' => Finding(w)) /\ (Sweeping(w)' => Sweeping(w))
    BY <2>1 DEF LocalOf, Registering, Finding, Sweeping, InPoolCode
  <2>3. LocalOf(w)'
    BY <2>1, <2>2, SegType DEF LocalOf, Registering, InPoolCode
  <2>. QED
    BY <2>2, <2>3
<1>4. ASSUME NEW u \in Workers
      PROVE  LocalOf(u)' /\ (Finding(u)' => Finding(u)) /\ (Sweeping(u)' => Sweeping(u))
  BY <1>3, Others DEF LocalInv
<1>5. HeapInv'
  <2>1. \A u \in Workers : pc'[u] = "register" <=> pc[u] = "register"
    BY DEF Moves
  <2>. QED
    BY <1>4, <2>1, HeapsFrame
<1>6. PhaseInv'
  BY <1>4, PhaseFrame DEF Moves, TypeInv
<1>7. CycleInv'
  <2>1. /\ moved.on => top'["partial"] = Null
        /\ top'["marked"] # Null => top["marked"] # Null
    BY SegType DEF CycleInv, TypeInv, TypeOK, Stacks
  <2>2. \A u \in Workers : pc'[u] \in {"poolfilled", "poolfree"} => pc[u] \in {"poolfilled", "poolfree"}
    BY DEF Moves
  <2>. QED
    BY <1>4, <2>1, <2>2 DEF CycleInv
<1>. QED
  BY <1>2, <1>4, <1>5, <1>6, <1>7 DEF LocalInv

LEMMA ClearMarkedControl ==
  ASSUME ControlInv, NEW w \in Workers, ClearMarked(w)
  PROVE  ControlInv'
<1>0. pc \in [Workers -> Labels] /\ loc \in [Workers -> LocalType] /\ loc[w] \in LocalType
  BY DEF ControlInv, TypeInv
<1>. USE DEF ControlInv, own, shared, bits, rounds
<1>1. /\ UNCHANGED <<own, shared, snap, covered, young, rounds, swept>> /\ pc[w] = "clear"
      /\ Moves(w, "set", loc[w]) /\ dirty' \subseteq dirty /\ stale' \subseteq stale
  BY <1>0, MovesOn DEF ClearMarked, Clear, Goto, Labels
<1>. USE <1>1
<1>2. TypeInv'
  BY DEF TypeInv, TypeOK, Moves, ClearMarked
<1>3. LocalOf(w)' /\ (Finding(w)' => Finding(w)) /\ (Sweeping(w)' => Sweeping(w))
  BY DEF LocalInv, LocalOf, Moves, Registering, Finding, Sweeping, InPoolCode
<1>4. ASSUME NEW u \in Workers
      PROVE  LocalOf(u)' /\ (Finding(u)' => Finding(u)) /\ (Sweeping(u)' => Sweeping(u))
  BY <1>3, Others DEF LocalInv
<1>5. HeapInv'
  <2>1. \A u \in Workers : pc'[u] = "register" <=> pc[u] = "register"
    BY DEF Moves
  <2>. QED
    BY <1>4, <2>1, HeapsFrame
<1>6. PhaseInv'
  BY <1>4, PhaseFrame DEF Moves, TypeInv
<1>7. CycleInv'
  BY <1>4 DEF CycleInv, Moves, LocalInv, LocalOf, InPoolCode
<1>. QED
  BY <1>2, <1>4, <1>5, <1>6, <1>7 DEF LocalInv

\* What Extend does.
Extends(w, l, r) ==
  /\ Moves(w, l, r)
  /\ r.use = loc[w].use /\ r.lp = loc[w].lp /\ r.tries = loc[w].tries
  /\ r.goal = loc[w].goal /\ r.st = loc[w].st
  /\ \/ l = "set" /\ alloced' = alloced + 1 /\ alloced + 1 \in Segs /\ r.seg = alloced + 1
     \/ /\ l = (IF r.use = "init" THEN "none" ELSE "fail") /\ r = loc[w] /\ alloced' = alloced

LEMMA ExtendMoves ==
  ASSUME TypeInv, LocalInv, NEW w \in Workers, Extend(w)
  PROVE  \E l \in Labels, r \in LocalType : Extends(w, l, r)
<1>0. pc \in [Workers -> Labels] /\ loc \in [Workers -> LocalType] /\ loc[w] \in LocalType
  BY DEF TypeInv
<1>1. CASE HasMemory
  <2>. DEFINE r == Gets(loc[w], alloced + 1)
  <2>1. /\ pc' = [pc EXCEPT ![w] = "set"] /\ loc' = [loc EXCEPT ![w] = r] /\ "set" \in Labels
        /\ alloced' = alloced + 1
    BY <1>1 DEF Extend, Goto, Labels
  <2>2. alloced + 1 \in Segs /\ alloced + 1 \in Link
    BY <1>1, CountType DEF HasMemory, TypeInv, TypeOK, Segs, Link
  <2>3. r \in LocalType /\ r.use = loc[w].use /\ r.st = loc[w].st /\ r.seg = alloced + 1
        /\ r.lp = loc[w].lp /\ r.tries = loc[w].tries /\ r.goal = loc[w].goal
    BY <1>0, <2>2, GetsType
  <2>. HIDE DEF r
  <2>4. Moves(w, "set", r)
    BY <1>0, <2>1, <2>3, MovesBoth
  <2>. QED
    BY <2>1, <2>2, <2>3, <2>4 DEF Extends
<1>2. CASE ~HasMemory
  <2>. DEFINE l == IF loc[w].use = "init" THEN "none" ELSE "fail"
  <2>1. pc' = [pc EXCEPT ![w] = l] /\ loc' = loc /\ l \in Labels /\ alloced' = alloced
    BY <1>2 DEF Extend, Goto, Labels
  <2>2. Moves(w, l, loc[w])
    BY <1>0, <2>1, MovesOn
  <2>. QED
    BY <1>0, <2>1, <2>2 DEF Extends
<1>. QED
  BY <1>1, <1>2

LEMMA ExtendControl ==
  ASSUME ControlInv, NEW w \in Workers, Extend(w)
  PROVE  ControlInv'
<1>0. PICK l \in Labels, r \in LocalType : Extends(w, l, r)
  BY ExtendMoves DEF ControlInv
<1>. USE <1>0 DEF ControlInv, Extends
<1>1. UNCHANGED <<own, top, next, poolFilled, bits, rounds, swept, raced>> /\ pc[w] = "extend"
  BY DEF Extend
<1>. USE <1>1 DEF own, bits, rounds
<1>2. TypeInv'
  BY CountType DEF TypeInv, TypeOK, Moves, Segs
<1>3. LocalOf(w)' /\ (Finding(w)' => Finding(w)) /\ (Sweeping(w)' => Sweeping(w))
  <2>1. LocalOf(w) /\ pc'[w] = l /\ loc'[w] = r /\ (w \in members' <=> w \in members)
    BY DEF LocalInv, Moves
  <2>2. (Finding(w)' => Finding(w)) /\ (Sweeping(w)' => Sweeping(w))
    BY <2>1 DEF LocalOf, Registering, Finding, Sweeping, InPoolCode
  <2>3. LocalOf(w)'
    BY <2>1, <2>2, SegType DEF LocalOf, Registering, InPoolCode
  <2>. QED
    BY <2>2, <2>3
<1>4. ASSUME NEW u \in Workers
      PROVE  LocalOf(u)' /\ (Finding(u)' => Finding(u)) /\ (Sweeping(u)' => Sweeping(u))
  BY <1>3, Others DEF LocalInv
<1>5. HeapInv'
  <2>1. \A u \in Workers : pc'[u] = "register" <=> pc[u] = "register"
    BY DEF Moves
  <2>. QED
    BY <1>4, <2>1, HeapsFrame
<1>6. PhaseInv'
  BY <1>4, PhaseFrame DEF Moves, TypeInv
<1>7. CycleInv'
  BY <1>4 DEF CycleInv, Moves, LocalInv, LocalOf, InPoolCode
<1>. QED
  BY <1>2, <1>4, <1>5, <1>6, <1>7 DEF LocalInv

LEMMA UseFoundControl ==
  ASSUME ControlInv, NEW w \in Workers, UseFound(w)
  PROVE  ControlInv'
<1>0. pc \in [Workers -> Labels] /\ loc \in [Workers -> LocalType] /\ loc[w] \in LocalType
  BY DEF ControlInv, TypeInv
<1>. USE DEF ControlInv, own, shared, bits, rounds
<1>. DEFINE l == IF loc[w].use = "init" THEN "register" ELSE "run"
<1>1. /\ UNCHANGED <<filled, part, free, shared, dirty, stale, rounds, swept, raced>>
      /\ pc[w] = "set" /\ cur' = [cur EXCEPT ![w] = loc[w].seg]
      /\ room' = IF loc[w].use = "find" THEN [room EXCEPT ![w] = @ - 1] ELSE room
      /\ snap' = SnapshotAt(loc[w].lp, {loc[w].seg}) /\ loc[w].seg \in Segs
      /\ covered' \subseteq covered \cup Segs /\ young' \subseteq young \cup Segs
      /\ Moves(w, l, Local)
  <2>1. loc[w].seg \in Segs
    BY <1>0, FieldTypes DEF UseFound, LocalInv, LocalOf, Link
  <2>2. Moves(w, l, Local)
    BY <1>0, NoLocals, MovesBoth DEF UseFound, Goto, Labels
  <2>. QED
    BY <2>1, <2>2 DEF UseFound, SetAllocPtr
<1>. USE <1>1
<1>2. TypeInv'
  <2>1. snap' \in [Segs -> {"base", "mid", "limit"}]
    BY DEF TypeInv, TypeOK, SnapshotAt
  <2>2. room' \in [Workers -> 0..MaxRoom]
    BY CountType DEF TypeInv, TypeOK, HeapInv, HeapOf, Finding, InPoolCode
  <2>. QED
    BY <2>1, <2>2 DEF TypeInv, TypeOK, Moves
<1>3. LocalOf(w)' /\ ~Finding(w)' /\ (Sweeping(w)' => Sweeping(w))
  BY NoLocals DEF LocalInv, LocalOf, Moves, Registering, Finding, Sweeping, InPoolCode
<1>4. ASSUME NEW u \in Workers
      PROVE  LocalOf(u)' /\ (Finding(u)' => Finding(u)) /\ (Sweeping(u)' => Sweeping(u))
  BY <1>3, Others DEF LocalInv
<1>5. HeapInv'
  <2>1. HeapOf(w)'
    BY SegType DEF HeapInv, HeapOf, Moves, LocalInv, LocalOf, TypeInv, TypeOK, Registering, Finding, InPoolCode
  <2>2. ASSUME NEW u \in Workers, u # w PROVE HeapOf(u)'
    BY <1>4, <2>2, HeapFrame DEF HeapInv, Moves, TypeInv, TypeOK
  <2>. QED
    BY <2>1, <2>2 DEF HeapInv
<1>6. PhaseInv'
  BY <1>3, <1>4, PhaseFrame DEF Moves, TypeInv
<1>7. CycleInv'
  BY <1>4 DEF CycleInv, Moves, LocalInv, LocalOf, InPoolCode
<1>. QED
  BY <1>2, <1>4, <1>5, <1>6, <1>7 DEF LocalInv

LEMMA AllocYoungControl ==
  ASSUME ControlInv, NEW w \in Workers, AllocYoung(w)
  PROVE  ControlInv'
<1>. USE DEF ControlInv, own, shared, bits, rounds
<1>1. /\ UNCHANGED <<own, shared, snap, covered, dirty, stale, rounds, swept, pc, loc, raced>>
      /\ young' = young \cup {cur[w]} /\ cur[w] # Null
  BY DEF AllocYoung
<1>. USE <1>1
<1>2. TypeInv'
  BY DEF TypeInv, TypeOK

<1>4. ASSUME NEW u \in Workers
      PROVE  LocalOf(u)' /\ (Finding(u)' <=> Finding(u)) /\ (Sweeping(u)' <=> Sweeping(u))
  BY DEF LocalInv, LocalOf, Registering, Finding, Sweeping
<1>5. HeapInv'
  BY <1>4 DEF HeapInv, HeapOf
<1>6. PhaseInv'
  BY <1>4, PhaseFrame DEF TypeInv
<1>7. CycleInv'
  BY <1>4 DEF CycleInv
<1>. QED
  BY <1>2, <1>4, <1>5, <1>6, <1>7 DEF LocalInv

LEMMA TakePartialControl ==
  ASSUME ControlInv, NEW w \in Workers, NEW s \in Segs, TakePartial(w, s)
  PROVE  ControlInv'
<1>0. pc \in [Workers -> Labels] /\ loc \in [Workers -> LocalType] /\ loc[w] \in LocalType
  BY DEF ControlInv, TypeInv
<1>. USE DEF ControlInv, own, shared, bits, rounds
<1>1. /\ UNCHANGED <<free, room, shared, covered, dirty, stale, rounds, swept, raced>>
      /\ pc[w] \in {"run", "retry"} /\ Release(w) /\ part' = [part EXCEPT ![w] = @ \ {s}]
      /\ cur' = [cur EXCEPT ![w] = s] /\ snap' = SnapshotAt(phase[w], {s, cur[w]})
      /\ young' \subseteq young \cup {s} /\ Moves(w, "run", Local)
  BY <1>0, NoLocals, MovesBoth DEF TakePartial, Goto, Labels
<1>. USE <1>1
<1>2. TypeInv'
  <2>1. filled' \in [Workers -> SUBSET Segs]
    BY SegType DEF TypeInv, TypeOK, Release, Link
  <2>2. snap' \in [Segs -> {"base", "mid", "limit"}]
    BY DEF TypeInv, TypeOK, SnapshotAt
  <2>. QED
    <3>1. cur' \in [Workers -> Segs \cup {Null}] /\ part' \in [Workers -> SUBSET Segs] 
      BY SegType DEF TypeInv, TypeOK
    <3>. QED
      BY <2>1, <2>2, <3>1 DEF TypeInv, TypeOK, Moves
<1>3. LocalOf(w)' /\ ~Finding(w)' /\ (Sweeping(w)' => Sweeping(w))
  BY NoLocals DEF LocalInv, LocalOf, Moves, Registering, Finding, Sweeping, InPoolCode
<1>4. ASSUME NEW u \in Workers
      PROVE  LocalOf(u)' /\ (Finding(u)' => Finding(u)) /\ (Sweeping(u)' => Sweeping(u))
  BY <1>3, Others DEF LocalInv
<1>5. HeapInv'
  <2>1. HeapOf(w)'
    BY DEF HeapOf, Moves, Finding, InPoolCode, LocalInv, LocalOf, Registering, TypeInv, TypeOK
  <2>2. ASSUME NEW u \in Workers, u # w PROVE HeapOf(u)'
    <3>1. filled'[u] = filled[u]
      BY <2>2 DEF Release, TypeInv
    <3>. QED
      BY <1>4, <2>2, <3>1, HeapFrame DEF HeapInv, Moves, TypeInv, TypeOK
  <2>. QED
    BY <2>1, <2>2 DEF HeapInv
<1>6. PhaseInv'
  BY <1>3, <1>4, PhaseFrame DEF Moves, TypeInv
<1>7. CycleInv'
  BY <1>4 DEF CycleInv, Moves, LocalInv, LocalOf, InPoolCode
<1>. QED
  BY <1>2, <1>4, <1>5, <1>6, <1>7 DEF LocalInv

\* What FindSegment does to the locals, and to the free list.
Finds(w, l, r) ==
  /\ Moves(w, l, r)
  /\ \/ l = "fail" /\ r = loc[w] /\ room[w] = 0 /\ UNCHANGED free
     \/ /\ room[w] > 0 /\ r.use = "find" /\ r.lp = phase[w]
        /\ r.tries = loc[w].tries /\ r.goal = loc[w].goal
        /\ \/ l = "load" /\ r.st = "partial" /\ r.seg = Null /\ UNCHANGED free
           \/ /\ l = "set" /\ r.seg \in free[w] /\ r.st = ""
              /\ free' = [free EXCEPT ![w] = @ \ {r.seg}]

LEMMA FindSegmentMoves ==
  ASSUME TypeInv, NEW w \in Workers, FindSegment(w)
  PROVE  \E l \in Labels, r \in LocalType : Finds(w, l, r)
<1>0. /\ pc \in [Workers -> Labels] /\ loc \in [Workers -> LocalType] /\ loc[w] \in LocalType
      /\ phase[w] \in Phases \cup {DUMMY_PHASE} /\ room[w] \in 0..MaxRoom
      /\ free[w] \subseteq Segs
  BY DEF TypeInv, TypeOK
<1>1. CASE room[w] = 0
  <2>1. pc' = [pc EXCEPT ![w] = "fail"] /\ loc' = loc /\ "fail" \in Labels /\ UNCHANGED free
    BY <1>1 DEF FindSegment, Goto, Labels
  <2>2. Moves(w, "fail", loc[w])
    BY <1>0, <2>1, MovesOn
  <2>. QED
    BY <1>0, <1>1, <2>1, <2>2 DEF Finds
<1>2. ASSUME room[w] # 0, NEW l \in {"load", "set"}, NEW st \in {"partial", ""},
             NEW seg \in Link, Goto(w, l),
             loc' = [loc EXCEPT ![w] = Starts(loc[w], "find", st, seg, phase[w])],
             \/ l = "load" /\ st = "partial" /\ seg = Null /\ UNCHANGED free
             \/ l = "set" /\ seg \in free[w] /\ st = "" /\ free' = [free EXCEPT ![w] = @ \ {seg}]
      PROVE  \E m \in Labels, r \in LocalType : Finds(w, m, r)
  <2>. DEFINE r == Starts(loc[w], "find", st, seg, phase[w])
  <2>1. r \in LocalType /\ r.use = "find" /\ r.st = st /\ r.seg = seg
        /\ r.lp = phase[w] /\ r.tries = loc[w].tries /\ r.goal = loc[w].goal
    <3>1. st \in Stacks \cup {""}
      BY DEF Stacks
    <3>. QED
      BY <1>0, <3>1, FieldTypes, NullType DEF Starts, Locals, LocalType
  <2>2. pc' = [pc EXCEPT ![w] = l] /\ loc' = [loc EXCEPT ![w] = r] /\ l \in Labels
    BY <1>2 DEF Goto, Labels
  <2>. HIDE DEF r
  <2>3. Moves(w, l, r)
    BY <1>0, <2>1, <2>2, MovesBoth
  <2>4. room[w] > 0
    BY <1>0, <1>2, RoomType
  <2>. QED
    BY <1>2, <2>1, <2>2, <2>3, <2>4 DEF Finds
<1>3. CASE room[w] # 0
  <2>1. CASE loc' = [loc EXCEPT ![w] = Starts(loc[w], "find", "partial", Null, phase[w])]
             /\ Goto(w, "load") /\ UNCHANGED free
    BY <1>2, <1>3, <2>1, NullType
  <2>2. ASSUME NEW s \in free[w], free' = [free EXCEPT ![w] = @ \ {s}], Goto(w, "set"),
               loc' = [loc EXCEPT ![w] = Starts(loc[w], "find", "", s, phase[w])]
        PROVE  \E m \in Labels, r \in LocalType : Finds(w, m, r)
    BY <1>0, <1>2, <1>3, <2>2, SegType
  <2>. QED
    BY <1>3, <2>1, <2>2 DEF FindSegment
<1>. QED
  BY <1>1, <1>3

LEMMA FindSegmentControl ==
  ASSUME ControlInv, NEW w \in Workers, FindSegment(w)
  PROVE  ControlInv'
<1>0. PICK l \in Labels, r \in LocalType : Finds(w, l, r)
  BY FindSegmentMoves DEF ControlInv
<1>. USE DEF ControlInv
<1>a. Moves(w, l, r) /\ free' \in [Workers -> SUBSET Segs] /\ \A u \in Workers \ {w} : free'[u] = free[u]
  <2>1. CASE UNCHANGED free
    BY <1>0, <2>1 DEF Finds, TypeInv
  <2>2. CASE free' = [free EXCEPT ![w] = @ \ {r.seg}]
    BY <1>0, <2>2 DEF Finds, TypeInv
  <2>. QED
    BY <1>0, <2>1, <2>2 DEF Finds
<1>1. /\ UNCHANGED <<part, room, shared, covered, young, dirty, stale, rounds, swept, raced>>
      /\ pc[w] \in {"run", "retry"} /\ Release(w) /\ snap' = SnapshotAt(phase[w], {cur[w]})
      /\ cur' = [cur EXCEPT ![w] = Null]
  BY DEF FindSegment
<1>. USE <1>1 DEF shared, rounds
<1>2. TypeInv'
  <2>1. filled' \in [Workers -> SUBSET Segs]
    BY SegType DEF TypeInv, TypeOK, Release, Link
  <2>2. snap' \in [Segs -> {"base", "mid", "limit"}]
    BY DEF TypeInv, TypeOK, SnapshotAt
  <2>. QED
    <3>1. cur' \in [Workers -> Segs \cup {Null}] /\ TRUE 
      BY SegType DEF TypeInv, TypeOK
    <3>. QED
      BY <2>1, <2>2, <3>1, <1>a DEF TypeInv, TypeOK, Moves
<1>3. LocalOf(w)' /\ (Sweeping(w)' => Sweeping(w))
  BY <1>0, SegType DEF Finds, LocalInv, LocalOf, Moves, Registering, Sweeping, InPoolCode, TypeInv, Stacks
<1>4. ASSUME NEW u \in Workers
      PROVE  LocalOf(u)' /\ (u # w /\ Finding(u)' => Finding(u)) /\ (Sweeping(u)' => Sweeping(u))
  BY <1>a, <1>3, Others DEF LocalInv
<1>5. HeapInv'
  <2>1. HeapOf(w)'
    BY <1>0 DEF Finds, HeapOf, Moves, Finding, InPoolCode, LocalInv, LocalOf, Registering, TypeInv, TypeOK
  <2>2. ASSUME NEW u \in Workers, u # w PROVE HeapOf(u)'
    <3>1. filled'[u] = filled[u]
      BY <2>2 DEF Release, TypeInv
    <3>. QED
      BY <1>4, <2>2, <3>1, <1>a, HeapFrame DEF HeapInv, Moves, TypeInv, TypeOK
  <2>. QED
    BY <2>1, <2>2 DEF HeapInv
<1>6. PhaseInv'
  <2>1. ASSUME NEW u \in members PROVE PhaseOf(u)'
    <3>1. CASE u = w
      BY <1>0, <3>1 DEF Finds, PhaseInv, PhaseOf, Moves, Finding, InPoolCode
    <3>2. CASE u # w
      <4>1. Finding(u)' => Finding(u) /\ loc'[u].lp = loc[u].lp
        BY <1>a, <1>4, <3>2 DEF Moves, TypeInv
      <4>. QED
        BY <4>1 DEF PhaseInv, PhaseOf
    <3>. QED
      BY <3>1, <3>2
  <2>. QED
    BY <2>1 DEF PhaseInv
<1>7. CycleInv'
  BY <1>0, <1>a, <1>4 DEF Finds, CycleInv, Moves, LocalInv, LocalOf, InPoolCode
<1>. QED
  BY <1>2, <1>4, <1>5, <1>6, <1>7 DEF LocalInv

LEMMA GiveUpControl ==
  ASSUME ControlInv, NEW w \in Workers, GiveUp(w)
  PROVE  ControlInv'
<1>0. pc \in [Workers -> Labels] /\ loc \in [Workers -> LocalType] /\ loc[w] \in LocalType
  BY DEF ControlInv, TypeInv
<1>. USE DEF ControlInv, own, shared, bits, rounds
<1>1. /\ UNCHANGED <<own, shared, bits, rounds, swept, raced>> /\ pc[w] = "fail"
      /\ Moves(w, "fatal", loc[w])
  BY <1>0, MovesOn DEF GiveUp, Goto, Labels
<1>. USE <1>1
<1>2. TypeInv'
  BY DEF TypeInv, TypeOK, Moves
<1>3. LocalOf(w)' /\ (Finding(w)' => Finding(w)) /\ (Sweeping(w)' => Sweeping(w))
  BY DEF LocalInv, LocalOf, Moves, Registering, Finding, Sweeping, InPoolCode
<1>4. ASSUME NEW u \in Workers
      PROVE  LocalOf(u)' /\ (Finding(u)' => Finding(u)) /\ (Sweeping(u)' => Sweeping(u))
  BY <1>3, Others DEF LocalInv
<1>5. HeapInv'
  BY <1>4 DEF HeapInv, HeapOf, Moves, LocalInv, LocalOf, Registering, InPoolCode
<1>6. PhaseInv'
  BY <1>4, PhaseFrame DEF Moves, TypeInv
<1>7. CycleInv'
  BY <1>4 DEF CycleInv, Moves, LocalInv, LocalOf, InPoolCode
<1>. QED
  BY <1>2, <1>4, <1>5, <1>6, <1>7 DEF LocalInv

LEMMA EndWaitControl ==
  ASSUME ControlInv, NEW w \in Workers, EndWait(w)
  PROVE  ControlInv'
<1>0. pc \in [Workers -> Labels] /\ loc \in [Workers -> LocalType] /\ loc[w] \in LocalType
  BY DEF ControlInv, TypeInv
<1>. USE DEF ControlInv, own, shared, bits, rounds
<1>1. /\ UNCHANGED <<own, shared, bits, rounds, swept, raced>> /\ pc[w] = "wait"
      /\ Moves(w, "retry", loc[w])
  BY <1>0, MovesOn DEF EndWait, Goto, Labels
<1>. USE <1>1
<1>2. TypeInv'
  BY DEF TypeInv, TypeOK, Moves
<1>3. LocalOf(w)' /\ (Finding(w)' => Finding(w)) /\ (Sweeping(w)' => Sweeping(w))
  BY DEF LocalInv, LocalOf, Moves, Registering, Finding, Sweeping, InPoolCode
<1>4. ASSUME NEW u \in Workers
      PROVE  LocalOf(u)' /\ (Finding(u)' => Finding(u)) /\ (Sweeping(u)' => Sweeping(u))
  BY <1>3, Others DEF LocalInv
<1>5. HeapInv'
  BY <1>4 DEF HeapInv, HeapOf, Moves, LocalInv, LocalOf, Registering, InPoolCode
<1>6. PhaseInv'
  BY <1>4, PhaseFrame DEF Moves, TypeInv
<1>7. CycleInv'
  BY <1>4 DEF CycleInv, Moves, LocalInv, LocalOf, InPoolCode
<1>. QED
  BY <1>2, <1>4, <1>5, <1>6, <1>7 DEF LocalInv

\* What Announce does to the handshake.
LEMMA AnnounceFacts ==
  ASSUME ControlInv, NEW r \in {ASYNC, SYNC1, SYNC2, MARK}, Announce(r)
  PROVE  /\ round' = r /\ waiting' = members /\ unsent' = members
         /\ UNCHANGED <<members, phase>> /\ waiting = {} /\ <<round, r>> \in Successors
         /\ dirty' \subseteq dirty \cup covered /\ stale' \subseteq stale \cup dirty
BY DEF Announce, Begin

\* A round begins when no signal is pending.
LEMMA AnnouncePhase ==
  ASSUME ControlInv, NEW r \in {ASYNC, SYNC1, SYNC2, MARK}, Announce(r),
         \A u \in members : (Finding(u)' => Finding(u)) /\ (Finding(u) => loc'[u].lp = loc[u].lp)
  PROVE  PhaseInv'
<1>1. ASSUME NEW u \in members PROVE PhaseOf(u)'
  BY AnnounceFacts DEF ControlInv, PhaseInv, PhaseOf
<1>. QED
  BY <1>1, AnnounceFacts DEF PhaseInv

\* StartGC
LEMMA StartFacts ==
  ASSUME ControlInv, StartGC
  PROVE  /\ Announce(SYNC1) /\ gcCount' = gcCount + 1 /\ gcCount' \in Nat /\ gcCount' % 2 = 1
         /\ gcCount % 2 = 0 /\ round = ASYNC /\ waiting = {} /\ UNCHANGED moved /\ ~moved.on
         /\ top["marked"] = Null /\ \A u \in Workers : ~Sweeping(u)
<1>1. gcCount % 2 = 0 /\ gcCount \in Nat /\ round = ASYNC /\ waiting = {}
  BY DEF StartGC, ControlInv, CycleInv, TypeInv
<1>2. (gcCount + 1) % 2 = 1 /\ gcCount + 1 \in Nat
  BY <1>1
<1>3. ASYNC # MARK
  BY DEF ASYNC, MARK
<1>. QED
  BY <1>1, <1>2, <1>3 DEF StartGC, ControlInv, CycleInv

LEMMA RequestGCControl ==
  ASSUME ControlInv, NEW w \in Workers, RequestGC(w)
  PROVE  ControlInv'
<1>. USE DEF ControlInv, own, shared, bits, rounds
<1>0. SYNC1 \in {ASYNC, SYNC1, SYNC2, MARK} /\ StartGC
  BY DEF RequestGC
<1>1. /\ UNCHANGED <<own, shared, snap, covered, young, swept, pc, loc, raced>>
      /\ Announce(SYNC1) /\ round' = SYNC1 /\ waiting' = members /\ unsent' = members
      /\ UNCHANGED <<members, phase, moved>> /\ dirty' \subseteq dirty \cup covered
      /\ stale' \subseteq stale \cup dirty /\ gcCount' \in Nat
  BY <1>0, StartFacts, AnnounceFacts DEF RequestGC
<1>2. TypeInv'
  BY <1>1 DEF TypeInv, TypeOK

<1>4. ASSUME NEW u \in Workers
      PROVE  LocalOf(u)' /\ (Finding(u)' <=> Finding(u)) /\ (Sweeping(u)' <=> Sweeping(u))
  BY <1>1 DEF LocalInv, LocalOf, Registering, Finding, Sweeping
<1>5. HeapInv'
  BY <1>1, <1>4 DEF HeapInv, HeapOf
<1>6. PhaseInv'
  BY <1>0, <1>1, <1>4, AnnouncePhase DEF TypeInv
<1>7. CycleInv'
  <2>1. /\ gcCount' % 2 = 1 /\ ~moved.on /\ top["marked"] = Null
        /\ \A u \in Workers : ~Sweeping(u)
    BY <1>0, StartFacts
  <2>. QED
    <3>1. gcCount' % 2 # 0 /\ \A u \in Workers : ~Sweeping(u)'
      BY <1>4, <2>1
    <3>2. moved' = moved /\ top' = top
      BY <1>1
    <3>3. ~moved'.on /\ moved'.list = Null /\ top'["marked"] = Null
      BY <2>1, <3>2 DEF CycleInv
    <3>. QED
      BY <3>1, <3>3 DEF CycleInv
<1>. QED
  BY <1>2, <1>4, <1>5, <1>6, <1>7 DEF LocalInv

LEMMA NextRoundControl ==
  ASSUME ControlInv, NextRound
  PROVE  ControlInv'
<1>. USE DEF ControlInv, own, shared, bits, rounds
<1>0. /\ round \in {SYNC1, SYNC2} /\ round + 2 \in {ASYNC, SYNC1, SYNC2, MARK} /\ Announce(round + 2)
      /\ round # ASYNC /\ round # MARK /\ round + 2 # ASYNC
  BY DEF NextRound, SYNC1, SYNC2, MARK, ASYNC
<1>1. /\ UNCHANGED <<own, shared, snap, covered, young, gcCount, moved, swept, pc, loc, raced>>
      /\ round' = round + 2 /\ waiting' = members /\ unsent' = members
      /\ UNCHANGED <<members, phase>> /\ dirty' \subseteq dirty \cup covered
      /\ stale' \subseteq stale \cup dirty
  BY <1>0, AnnounceFacts DEF NextRound
<1>2. TypeInv'
  BY <1>0, <1>1 DEF TypeInv, TypeOK

<1>4. ASSUME NEW u \in Workers
      PROVE  LocalOf(u)' /\ (Finding(u)' <=> Finding(u)) /\ (Sweeping(u)' <=> Sweeping(u))
  BY <1>1 DEF LocalInv, LocalOf, Registering, Finding, Sweeping
<1>5. HeapInv'
  BY <1>1, <1>4 DEF HeapInv, HeapOf
<1>6. PhaseInv'
  BY <1>0, <1>1, <1>4, AnnouncePhase DEF TypeInv
<1>7. CycleInv'
  BY <1>0, <1>1, <1>4 DEF CycleInv
<1>. QED
  BY <1>2, <1>4, <1>5, <1>6, <1>7 DEF LocalInv

\* What WaitGC does to the locals and to the handshake.
WaitLocals(l) == Locals("", "", Null, Null, Null, ASYNC, l.tries + 1, gcCount + 2 - (gcCount % 2))

LEMMA WaitGCMoves ==
  ASSUME TypeInv, NEW w \in Workers, WaitGC(w)
  PROVE  LET r == WaitLocals(loc[w]) IN
         /\ Moves(w, "wait", r) /\ r \in LocalType
         /\ r.use = "" /\ r.st = "" /\ r.seg = Null /\ r.tries = loc[w].tries + 1
         /\ r.goal = gcCount + 2 - (gcCount % 2) /\ loc[w].tries \in 0..1
<1>. DEFINE r == WaitLocals(loc[w])
<1>0. /\ pc \in [Workers -> Labels] /\ loc \in [Workers -> LocalType] /\ loc[w] \in LocalType
      /\ loc[w].tries \in 0..2 /\ loc[w].tries < 2 /\ gcCount \in Nat
  BY FieldTypes DEF TypeInv, WaitGC, WaitsAgain
<1>1. loc[w].tries + 1 \in 0..2 /\ gcCount + 2 - (gcCount % 2) \in Nat /\ loc[w].tries \in 0..1
  BY <1>0
<1>2. r \in LocalType /\ r.use = "" /\ r.st = "" /\ r.seg = Null /\ r.tries = loc[w].tries + 1
      /\ r.goal = gcCount + 2 - (gcCount % 2)
  BY <1>1, NullType, PhaseTypes DEF WaitLocals, Locals, LocalType
<1>3. pc' = [pc EXCEPT ![w] = "wait"] /\ loc' = [loc EXCEPT ![w] = r] /\ "wait" \in Labels
  BY DEF WaitGC, Goto, Labels, WaitLocals
<1>. HIDE DEF r
<1>4. Moves(w, "wait", r)
  BY <1>0, <1>2, <1>3, MovesBoth
<1>. QED
  BY <1>1, <1>2, <1>4 DEF r

LEMMA WaitGCControl ==
  ASSUME ControlInv, NEW w \in Workers, WaitGC(w)
  PROVE  ControlInv'
<1>. USE DEF ControlInv, own, shared, bits, rounds
<1>0. PICK r \in LocalType : Moves(w, "wait", r) /\ r.seg = Null /\ r.tries # 0
  <2>1. loc[w].tries \in 0..1 => loc[w].tries + 1 # 0
    OBVIOUS
  <2>. QED
    BY <2>1, WaitGCMoves
<1>1. /\ UNCHANGED <<own, shared, snap, covered, young, swept, raced>> /\ pc[w] = "fail"
      /\ \/ UNCHANGED <<rounds, dirty, stale>>
         \/ StartGC
  BY DEF WaitGC
<1>b. SYNC1 \in {ASYNC, SYNC1, SYNC2, MARK}
  OBVIOUS
<1>c. StartGC => /\ Announce(SYNC1) /\ round' = SYNC1 /\ waiting' = members /\ unsent' = members
                 /\ UNCHANGED <<members, phase, moved>> /\ dirty' \subseteq dirty \cup covered
                 /\ stale' \subseteq stale \cup dirty /\ gcCount' \in Nat
  BY <1>b, StartFacts, AnnounceFacts
<1>d. members' = members
  BY <1>1, <1>c
<1>2. TypeInv'
  BY <1>0, <1>1, <1>b, <1>c DEF TypeInv, TypeOK, Moves
<1>3. LocalOf(w)' /\ ~Finding(w)' /\ ~Sweeping(w)'
  BY <1>0, <1>1, <1>d DEF LocalInv, LocalOf, Moves, Registering, Finding, Sweeping, InPoolCode
<1>4. ASSUME NEW u \in Workers
      PROVE  LocalOf(u)' /\ (Finding(u)' => Finding(u)) /\ (Sweeping(u)' => Sweeping(u))
  BY <1>0, <1>3, <1>d, Others DEF LocalInv
<1>5. HeapInv'
  <2>1. HeapOf(w)'
    BY <1>0, <1>1, <1>3, <1>d DEF HeapInv, HeapOf, Moves
  <2>2. ASSUME NEW u \in Workers, u # w PROVE HeapOf(u)'
    BY <1>0, <1>1, <1>4, <1>d, <2>2, HeapFrame DEF HeapInv, Moves
  <2>. QED
    BY <2>1, <2>2 DEF HeapInv
<1>6. PhaseInv'
  <2>1. \A u \in members : (Finding(u)' => Finding(u)) /\ (Finding(u) => loc'[u].lp = loc[u].lp)
    BY <1>0, <1>1, <1>4 DEF Moves, TypeInv, Finding, InPoolCode
  <2>. QED
    BY <1>1, <1>c, <2>1, PhaseFrame, AnnouncePhase
<1>7. CycleInv'
  <2>1. CASE UNCHANGED <<rounds, dirty, stale>>
    BY <1>0, <1>1, <1>4, <2>1 DEF CycleInv, Moves
  <2>2. CASE StartGC
    BY <1>0, <1>1, <1>4, <1>c, <2>2, StartFacts DEF CycleInv, SYNC1, ASYNC
  <2>. QED
    BY <1>1, <2>1, <2>2
<1>. QED
  BY <1>2, <1>4, <1>5, <1>6, <1>7 DEF LocalInv

LEMMA TakeMarkedControl ==
  ASSUME ControlInv, TakeMarked
  PROVE  ControlInv'
<1>. USE DEF ControlInv
<1>1. /\ UNCHANGED <<own, next, poolFilled, alloced, bits, members, round, waiting, phase,
                     unsent, gcCount, swept, pc, loc, raced>>
      /\ moved' = [on |-> TRUE, list |-> top["partial"]] /\ top' = [top EXCEPT !["partial"] = Null]
      /\ round = MARK /\ waiting = {}
  BY DEF TakeMarked
<1>. USE DEF own, bits
<1>2. TypeInv'
  <2>1. top["partial"] \in Link
    BY DEF TypeInv, TypeOK, Stacks, Link
  <2>2. moved' \in [on : BOOLEAN, list : Link]
    BY <1>1, <2>1
  <2>3. top' \in [Stacks -> Segs \cup {Null}]
    BY <1>1 DEF TypeInv, TypeOK
  <2>. QED
    BY <1>1, <2>2, <2>3 DEF TypeInv, TypeOK

<1>4. ASSUME NEW u \in Workers
      PROVE  LocalOf(u)' /\ (Finding(u)' <=> Finding(u)) /\ (Sweeping(u)' <=> Sweeping(u))
  BY <1>1 DEF LocalInv, LocalOf, Registering, Finding, Sweeping
<1>5. HeapInv'
  BY <1>1, <1>4 DEF HeapInv, HeapOf
<1>6. PhaseInv'
  BY <1>1, <1>4, PhaseFrame DEF TypeInv
<1>7. CycleInv'
  <2>1. moved'.on /\ top'["partial"] = Null /\ top'["marked"] = top["marked"]
    BY <1>1 DEF TypeInv, TypeOK, Stacks
  <2>. QED
    BY <1>1, <1>4, <2>1 DEF CycleInv
<1>. QED
  BY <1>2, <1>4, <1>5, <1>6, <1>7 DEF LocalInv

LEMMA PutMarkedControl ==
  ASSUME ControlInv, PutMarked
  PROVE  ControlInv'
<1>. USE DEF ControlInv
<1>0. ASYNC \in {ASYNC, SYNC1, SYNC2, MARK} /\ Announce(ASYNC) /\ moved.on
  BY DEF PutMarked
<1>1. /\ UNCHANGED <<own, next, poolFilled, alloced, snap, covered, young, gcCount, swept, pc,
                     loc, raced>>
      /\ moved' = [on |-> FALSE, list |-> Null] /\ top' = [top EXCEPT !["marked"] = moved.list]
      /\ round' = ASYNC /\ waiting' = members /\ unsent' = members /\ UNCHANGED <<members, phase>>
      /\ dirty' \subseteq dirty \cup covered /\ stale' \subseteq stale \cup dirty
  BY <1>0, AnnounceFacts DEF PutMarked
<1>. USE DEF own
<1>2. TypeInv'
  <2>1. moved.list \in Link
    BY DEF TypeInv
  <2>2. moved' \in [on : BOOLEAN, list : Link]
    BY <1>1, NullType
  <2>3. top' \in [Stacks -> Segs \cup {Null}]
    BY <1>1, <2>1 DEF TypeInv, TypeOK, Link
  <2>. QED
    BY <1>1, <2>2, <2>3 DEF TypeInv, TypeOK

<1>4. ASSUME NEW u \in Workers
      PROVE  LocalOf(u)' /\ (Finding(u)' <=> Finding(u)) /\ (Sweeping(u)' <=> Sweeping(u))
  BY <1>1 DEF LocalInv, LocalOf, Registering, Finding, Sweeping
<1>5. HeapInv'
  BY <1>1, <1>4 DEF HeapInv, HeapOf
<1>6. PhaseInv'
  BY <1>0, <1>1, <1>4, AnnouncePhase DEF TypeInv
<1>7. CycleInv'
  <2>1. ~moved'.on /\ moved'.list = Null /\ top'["partial"] = top["partial"]
    BY <1>1 DEF TypeInv, TypeOK, Stacks
  <2>2. round = MARK /\ ASYNC # MARK
    BY <1>0 DEF CycleInv, ASYNC, MARK
  <2>3. gcCount % 2 # 0 /\ gcCount \in Nat /\ \A u \in Workers : ~Sweeping(u)'
    BY <1>4, <2>2 DEF CycleInv, TypeInv
  <2>4. gcCount' % 2 = 1 /\ gcCount' % 2 # 0
    BY <1>1, <2>3
  <2>5. \A u \in Workers : pc'[u] \notin {"poolfilled", "poolfree"}
    BY <2>3 DEF Sweeping
  <2>. QED
    BY <1>1, <2>1, <2>3, <2>4, <2>5 DEF CycleInv
<1>. QED
  BY <1>2, <1>4, <1>5, <1>6, <1>7 DEF LocalInv

LEMMA SignalControl ==
  ASSUME ControlInv, NEW w \in Workers, Signal(w)
  PROVE  ControlInv'
<1>. USE DEF ControlInv
<1>1. /\ UNCHANGED <<own, shared, bits, members, round, waiting, gcCount, moved, swept, pc, loc, raced>>
      /\ w \in unsent /\ unsent' = unsent \ {w} /\ phase' = [phase EXCEPT ![w] = Pre(round)]
  BY DEF Signal
<1>. USE DEF own, shared, bits
<1>2. TypeInv'
  <2>1. Pre(round) \in Phases
    BY DEF TypeInv, TypeOK, Pre, Phases, ASYNC, SYNC1, SYNC2, MARK
  <2>. QED
    BY <1>1, <2>1 DEF TypeInv, TypeOK

<1>4. ASSUME NEW u \in Workers
      PROVE  LocalOf(u)' /\ (Finding(u)' <=> Finding(u)) /\ (Sweeping(u)' <=> Sweeping(u))
  BY <1>1 DEF LocalInv, LocalOf, Registering, Finding, Sweeping
<1>5. HeapInv'
  BY <1>1, <1>4 DEF HeapInv, HeapOf
<1>6. PhaseInv'
  <2>1. w \in waiting /\ phase'[w] = Pre(round)
    BY <1>1 DEF TypeInv, TypeOK
  <2>2. PhaseOf(w)'
    BY <1>1, <1>4, <2>1 DEF PhaseInv, PhaseOf, TypeInv
  <2>3. ASSUME NEW u \in members, u # w PROVE PhaseOf(u)'
    BY <1>1, <1>4, <2>3 DEF PhaseInv, PhaseOf, TypeInv, TypeOK
  <2>. QED
    BY <1>1, <2>2, <2>3 DEF PhaseInv
<1>7. CycleInv'
  BY <1>1, <1>4 DEF CycleInv
<1>. QED
  BY <1>2, <1>4, <1>5, <1>6, <1>7 DEF LocalInv

LEMMA KillControl ==
  ASSUME ControlInv, NEW w \in Workers, Kill(w)
  PROVE  ControlInv'
<1>. USE DEF ControlInv
<1>0. /\ pc \in [Workers -> Labels] /\ loc \in [Workers -> LocalType] /\ loc[w] \in LocalType
      /\ free[w] \in SUBSET Segs /\ top \in [Stacks -> Link] /\ next \in [Segs -> Link] /\ "free" \in Stacks
  BY DEF TypeInv, TypeOK, Link, Stacks
<1>1. /\ UNCHANGED <<room, alloced, bits, phase, gcCount, moved, swept, raced, round>>
      /\ w \in unsent /\ unsent' = unsent \ {w} /\ members' = members \ {w}
      /\ waiting' = waiting \ {w} /\ pc[w] = "run" /\ round = 3
      /\ poolFilled' = poolFilled \cup filled[w] \cup part[w] \cup ({cur[w]} \ {Null})
      /\ filled' = [filled EXCEPT ![w] = {}] /\ part' = [part EXCEPT ![w] = {}]
      /\ free' = [free EXCEPT ![w] = {}] /\ cur' = [cur EXCEPT ![w] = Null]
      /\ Push("free", free[w])
  BY DEF Kill, Retire, TypeInv
<1>a. Moves(w, "none", loc[w])
  BY <1>0, MovesOn DEF Kill, Goto, Labels
<1>b. /\ top' \in [Stacks -> Link] /\ next' \in [Segs -> Link]
      /\ top'["partial"] = top["partial"] /\ top'["marked"] = top["marked"]
  BY <1>0, <1>1, PushTypes DEF Stacks
<1>. USE DEF bits
<1>2. TypeInv'
  <2>1. poolFilled' \subseteq Segs
    BY <1>1 DEF TypeInv, TypeOK
  <2>. QED
    BY <1>1, <1>a, <1>b, <2>1 DEF TypeInv, TypeOK, Moves, Link
<1>3. LocalOf(w)' /\ ~Finding(w)' /\ ~Sweeping(w)'
  BY <1>1, <1>a DEF LocalInv, LocalOf, Moves, Registering, Finding, Sweeping, InPoolCode, TypeInv
<1>4. ASSUME NEW u \in Workers
      PROVE  LocalOf(u)' /\ (Finding(u)' => Finding(u)) /\ (Sweeping(u)' => Sweeping(u))
  BY <1>1, <1>a, <1>3, Others DEF LocalInv
<1>5. HeapInv'
  <2>1. HeapOf(w)'
    BY <1>1, <1>3, <1>a DEF HeapOf, Moves, TypeInv, TypeOK
  <2>2. ASSUME NEW u \in Workers, u # w PROVE HeapOf(u)'
    BY <1>1, <1>4, <1>a, <2>2, HeapFrame DEF HeapInv, Moves, TypeInv, TypeOK
  <2>. QED
    BY <2>1, <2>2 DEF HeapInv
<1>6. PhaseInv'
  <2>1. ASSUME NEW u \in members, u # w PROVE PhaseOf(u)'
    BY <1>1, <1>4, <1>a, <2>1 DEF PhaseInv, PhaseOf, TypeInv, TypeOK, Moves
  <2>. QED
    BY <1>1, <2>1 DEF PhaseInv
<1>7. CycleInv'
  <2>1. round # ASYNC /\ round # MARK
    BY <1>1 DEF ASYNC, MARK
  <2>. QED
    BY <1>1, <1>4, <1>b, <2>1 DEF CycleInv
<1>. QED
  BY <1>2, <1>4, <1>5, <1>6, <1>7 DEF LocalInv

LEMMA AnswerControl ==
  ASSUME ControlInv, NEW w \in Workers, NEW r \in Phases, Answer(w, r)
  PROVE  ControlInv'
<1>. USE DEF ControlInv
<1>1. /\ UNCHANGED <<own, shared, covered, young, dirty, stale, unsent, gcCount, moved, swept, pc,
                     loc, raced, members, round>>
      /\ phase' = [phase EXCEPT ![w] = r] /\ w \in waiting /\ phase[w] = Pre(r) /\ round = r
      /\ waiting' = waiting \ {w} /\ pc[w] \in {"run", "wait"} /\ r # ASYNC
      /\ (snap' = Snapshot(w) \/ snap' = snap)
  <2>1. ASYNC \notin {SYNC1, SYNC2, MARK}
    BY DEF ASYNC, SYNC1, SYNC2, MARK
  <2>. QED
    BY <2>1 DEF Answer, Accepts, Respond, Polls
<1>a. w \notin unsent
  <2>1. w \in unsent => <<Pre(round), round>> \in Successors
    BY <1>1 DEF PhaseInv, PhaseOf, TypeInv
  <2>2. <<Pre(round), round>> \notin Successors
    BY DEF TypeInv, Pre, Successors, ASYNC, SYNC1, SYNC2, MARK
  <2>. QED
    BY <2>1, <2>2
<1>. USE DEF own, shared
<1>2. TypeInv'
  <2>1. snap' \in [Segs -> {"base", "mid", "limit"}]
    BY <1>1 DEF Snapshot, TypeInv, TypeOK
  <2>. QED
    BY <1>1, <1>a, <2>1 DEF TypeInv, TypeOK

<1>4. ASSUME NEW u \in Workers
      PROVE  LocalOf(u)' /\ (Finding(u)' <=> Finding(u)) /\ (Sweeping(u)' <=> Sweeping(u))
  BY <1>1 DEF LocalInv, LocalOf, Registering, Finding, Sweeping
<1>5. HeapInv'
  BY <1>1, <1>4 DEF HeapInv, HeapOf
<1>6. PhaseInv'
  <2>1. phase'[w] = r /\ ~Finding(w)'
    BY <1>1 DEF TypeInv, TypeOK, Finding, InPoolCode
  <2>2. PhaseOf(w)'
    BY <1>1, <1>a, <2>1 DEF PhaseOf
  <2>3. ASSUME NEW u \in members, u # w PROVE PhaseOf(u)'
    BY <1>1, <1>4, <2>3 DEF PhaseInv, PhaseOf, TypeInv, TypeOK
  <2>. QED
    BY <1>1, <2>2, <2>3 DEF PhaseInv
<1>7. CycleInv'
  BY <1>1, <1>4 DEF CycleInv
<1>. QED
  BY <1>2, <1>4, <1>5, <1>6, <1>7 DEF LocalInv

\* What Async does to the locals: the last to answer begins to sweep.
Asyncs(w, l, r) ==
  /\ Moves(w, l, r)
  /\ r.tries = loc[w].tries /\ r.goal = loc[w].goal
  /\ \/ waiting = {w} /\ l = "load" /\ r.use = "sweep" /\ r.st = "marked" /\ r.seg = Null
     \/ waiting # {w} /\ l = pc[w] /\ r = loc[w]

LEMMA AsyncMoves ==
  ASSUME TypeInv, NEW w \in Workers, NEW empty \in SUBSET Segs, NEW some \in SUBSET Segs,
         Async(w, empty, some)
  PROVE  \E l \in Labels, r \in LocalType : Asyncs(w, l, r)
<1>0. /\ pc \in [Workers -> Labels] /\ loc \in [Workers -> LocalType] /\ loc[w] \in LocalType
      /\ top \in [Stacks -> Link] /\ next \in [Segs -> Link] /\ {"free", "partial", "marked"} = Stacks
  BY DEF TypeInv, TypeOK, Link, Stacks
<1>1. CASE waiting = {w}
  <2>. DEFINE r == Starts(loc[w], "sweep", "marked", Null, ASYNC)
  <2>1. pc' = [pc EXCEPT ![w] = "load"] /\ loc' = [loc EXCEPT ![w] = r] /\ "load" \in Labels
    BY <1>1 DEF Async, Goto, Labels
  <2>2. r \in LocalType /\ r.use = "sweep" /\ r.st = "marked" /\ r.seg = Null
        /\ r.tries = loc[w].tries /\ r.goal = loc[w].goal
    BY <1>0, NullType, PhaseTypes, FieldTypes DEF Starts, Locals, LocalType
  <2>. HIDE DEF r
  <2>3. Moves(w, "load", r)
    BY <1>0, <2>1, <2>2, MovesBoth
  <2>. QED
    BY <1>1, <2>1, <2>2, <2>3 DEF Asyncs
<1>2. CASE waiting # {w}
  <2>1. pc' = pc /\ loc' = loc
    BY <1>2 DEF Async
  <2>2. Moves(w, pc[w], loc[w]) /\ pc[w] \in Labels
    BY <1>0, <2>1 DEF Moves
  <2>. QED
    BY <1>0, <1>2, <2>2 DEF Asyncs
<1>. QED
  BY <1>1, <1>2

\* What Async does to the handshake and to the other variables.
AsyncDoes(w, empty, some) ==
         /\ UNCHANGED <<cur, poolFilled, alloced, unsent, gcCount, moved, swept, raced, members, round>>
         /\ phase' = [phase EXCEPT ![w] = ASYNC] /\ w \in waiting /\ round = ASYNC
         /\ waiting' = waiting \ {w} /\ pc[w] \in {"run", "wait"} /\ w \notin unsent
         /\ phase[w] = PREASYNC /\ Push("free", free[w])
         /\ free' = [free EXCEPT ![w] = empty] /\ part' = [part EXCEPT ![w] = (part[w] \ empty) \cup some]
         /\ filled' = [filled EXCEPT ![w] = filled[w] \ (empty \cup some)]
         /\ empty \subseteq part[w] \cup Reclaimable(w) /\ some \subseteq Reclaimable(w) \ empty
         /\ \E n \in Rooms : room' = [room EXCEPT ![w] = n]

LEMMA AsyncFacts ==
  ASSUME ControlInv, NEW w \in Workers, NEW empty \in SUBSET Segs, NEW some \in SUBSET Segs,
         Async(w, empty, some)
  PROVE  AsyncDoes(w, empty, some)
<1>1. /\ UNCHANGED <<cur, poolFilled, alloced, unsent, gcCount, moved, swept, raced, members, round>>
      /\ phase' = [phase EXCEPT ![w] = ASYNC] /\ w \in waiting /\ round = ASYNC
      /\ waiting' = waiting \ {w} /\ pc[w] \in {"run", "wait"} /\ phase[w] = Pre(ASYNC)
  BY DEF Async, Accepts, Respond, Polls
<1>2. w \in unsent => <<Pre(round), round>> \in Successors
  BY <1>1 DEF ControlInv, PhaseInv, PhaseOf, TypeInv
<1>3. <<Pre(round), round>> \notin Successors /\ Pre(ASYNC) = PREASYNC
  BY DEF ControlInv, TypeInv, Pre, Successors, ASYNC, PREASYNC, SYNC1, SYNC2, MARK
<1>. QED
  BY <1>1, <1>2, <1>3 DEF Async, AsyncDoes

LEMMA AsyncControl ==
  ASSUME ControlInv, NEW w \in Workers, NEW empty \in SUBSET Segs, NEW some \in SUBSET Segs, Async(w, empty, some)
  PROVE  ControlInv'
<1>. USE DEF ControlInv
<1>0. /\ pc \in [Workers -> Labels] /\ loc \in [Workers -> LocalType] /\ loc[w] \in LocalType
      /\ top \in [Stacks -> Link] /\ next \in [Segs -> Link] /\ {"free", "partial", "marked"} = Stacks
  BY DEF TypeInv, TypeOK, Link, Stacks
<1>1. PICK l \in Labels, r \in LocalType : Asyncs(w, l, r)
  BY AsyncMoves
<1>a. Moves(w, l, r)
  BY <1>1 DEF Asyncs
<1>f. AsyncDoes(w, empty, some)
  BY AsyncFacts
<1>b. /\ top' \in [Stacks -> Link] /\ next' \in [Segs -> Link]
      /\ top'["partial"] = top["partial"] /\ top'["marked"] = top["marked"]
  <2>1. free[w] \in SUBSET Segs
    BY DEF TypeInv
  <2>. QED
    BY <1>0, <2>1, <1>f, PushTypes DEF AsyncDoes
<1>c. /\ snap' \in [Segs -> {"base", "mid", "limit"}] /\ covered' \subseteq Segs
      /\ young' \subseteq Segs /\ dirty' \subseteq Segs /\ stale' \subseteq Segs
  BY DEF Async, SnapReset, Clear, TypeInv, TypeOK
<1>d. PICK n \in Rooms : room' = [room EXCEPT ![w] = n]
  BY <1>f DEF AsyncDoes
<1>e. n \in 0..MaxRoom /\ n > 0
  BY CountType DEF Rooms
<1>2. TypeInv'
  <2>1. /\ filled' \in [Workers -> SUBSET Segs] /\ part' \in [Workers -> SUBSET Segs]
        /\ free' \in [Workers -> SUBSET Segs] /\ room' \in [Workers -> 0..MaxRoom]
    BY <1>d, <1>e, <1>f DEF AsyncDoes, TypeInv, TypeOK
  <2>2. phase' \in [Workers -> Phases] /\ unsent' \subseteq waiting' /\ waiting' \subseteq members'
    BY <1>f, PhaseTypes DEF AsyncDoes, TypeInv, TypeOK
  <2>. QED
    BY <1>a, <1>b, <1>c, <2>1, <2>2, <1>f DEF AsyncDoes, TypeInv, TypeOK, Moves, Link
<1>3. /\ LocalOf(w)' /\ ~Finding(w)' /\ (Sweeping(w)' => waiting = {w}) /\ (Registering(w)' <=> Registering(w))
      /\ pc'[w] \notin {"register", "poolfilled", "poolfree"}
  <2>1. CASE waiting = {w}
    BY <1>1, <2>1, <1>f DEF AsyncDoes, Asyncs, LocalInv, LocalOf, Moves, Registering, Finding, Sweeping, InPoolCode, Stacks
  <2>2. CASE waiting # {w}
    BY <1>1, <2>2, <1>f DEF AsyncDoes, Asyncs, LocalInv, LocalOf, Moves, Registering, Finding, Sweeping, InPoolCode
  <2>. QED
    BY <2>1, <2>2
<1>4. ASSUME NEW u \in Workers
      PROVE  LocalOf(u)' /\ (Finding(u)' => Finding(u)) /\ (Sweeping(u)' => u = w /\ waiting = {w})
  <2>1. Sweeping(u) => FALSE
    BY <1>f DEF AsyncDoes, CycleInv
  <2>. QED
    BY <1>a, <1>3, <2>1, <1>f, Others DEF AsyncDoes, LocalInv
<1>5. HeapInv'
  <2>1. HeapOf(w)'
    BY <1>3, <1>f DEF AsyncDoes, HeapOf, TypeInv
  <2>2. ASSUME NEW u \in Workers, u # w PROVE HeapOf(u)'
    <3>1. /\ cur'[u] = cur[u] /\ room'[u] = room[u] /\ filled'[u] = filled[u]
          /\ part'[u] = part[u] /\ free'[u] = free[u]
      BY <1>d, <2>2, <1>f DEF AsyncDoes, TypeInv, TypeOK
    <3>. QED
      BY <1>a, <1>4, <2>2, <3>1, <1>f, HeapFrame DEF AsyncDoes, HeapInv, Moves
  <2>. QED
    BY <2>1, <2>2 DEF HeapInv
<1>6. PhaseInv'
  <2>1. PhaseOf(w)'
    BY <1>3, <1>f DEF AsyncDoes, PhaseOf, TypeInv, TypeOK
  <2>2. ASSUME NEW u \in members, u # w PROVE PhaseOf(u)'
    BY <1>4, <1>a, <2>2, <1>f DEF AsyncDoes, PhaseInv, PhaseOf, TypeInv, TypeOK, Moves
  <2>. QED
    BY <2>1, <2>2, <1>f DEF AsyncDoes, PhaseInv
<1>7. CycleInv'
  <2>1. gcCount % 2 # 0 /\ gcCount % 2 = 1
    BY <1>f DEF AsyncDoes, CycleInv, TypeInv
  <2>2. ~moved.on
    BY <1>f DEF AsyncDoes, CycleInv
  <2>3. ASSUME NEW u \in Workers PROVE pc'[u] \in {"poolfilled", "poolfree"} => pc[u] \in {"poolfilled", "poolfree"}
    BY <1>3, <1>a DEF Moves
  <2>. QED
    BY <1>4, <1>b, <2>1, <2>2, <2>3, <1>f DEF AsyncDoes, CycleInv
<1>. QED
  BY <1>2, <1>4, <1>5, <1>6, <1>7 DEF LocalInv

LEMMA SweepControl ==
  ASSUME ControlInv, NEW w \in Workers, NEW empty \in BOOLEAN, Sweep(w, empty)
  PROVE  ControlInv'
<1>. USE DEF ControlInv
<1>0. /\ pc \in [Workers -> Labels] /\ loc \in [Workers -> LocalType] /\ loc[w] \in LocalType
      /\ top \in [Stacks -> Link] /\ next \in [Segs -> Link] /\ {"free", "partial", "marked"} = Stacks
  BY DEF TypeInv, TypeOK, Link, Stacks
<1>1. /\ UNCHANGED <<cur, filled, part, free, room, poolFilled, alloced, young, members, round,
                     waiting, phase, unsent, gcCount, moved, raced>>
      /\ pc[w] = "sweep" /\ loc[w].seg \in Segs
      /\ dirty' \subseteq dirty /\ stale' \subseteq stale /\ snap' = [snap EXCEPT ![loc[w].seg] = "base"]
      /\ swept' \subseteq swept \cup {loc[w].seg} /\ covered' \subseteq covered
      /\ UNCHANGED <<top, next>> \/ Push("partial", {loc[w].seg})
  <2>1. loc[w].seg \in Segs
    BY <1>0, FieldTypes DEF Sweep, LocalInv, LocalOf, Link
  <2>. QED
    BY <2>1 DEF Sweep, Clear, own, rounds
<1>a. PICK r \in LocalType : /\ Moves(w, "load", r) /\ r.use = loc[w].use /\ r.st = loc[w].st
                             /\ r.seg = Null
  <2>. DEFINE r == Gets(loc[w], Null)
  <2>1. r \in LocalType /\ r.use = loc[w].use /\ r.st = loc[w].st /\ r.seg = Null
    BY <1>0, GetsType, NullType
  <2>2. pc' = [pc EXCEPT ![w] = "load"] /\ loc' = [loc EXCEPT ![w] = r] /\ "load" \in Labels
    BY DEF Sweep, Goto, Labels
  <2>. HIDE DEF r
  <2>3. Moves(w, "load", r)
    BY <1>0, <2>1, <2>2, MovesBoth
  <2>. QED
    BY <2>1, <2>3
<1>b. /\ top' \in [Stacks -> Link] /\ next' \in [Segs -> Link] /\ top'["marked"] = top["marked"]
  BY <1>0, <1>1, PushTypes
<1>c. round = ASYNC /\ ASYNC # MARK /\ loc[w].use = "sweep" /\ loc[w].st = "marked"
  <2>1. round = ASYNC
    BY <1>1 DEF CycleInv, Sweeping
  <2>2. ASYNC # MARK
    BY DEF ASYNC, MARK
  <2>. QED
    BY <1>1, <2>1, <2>2 DEF LocalInv, LocalOf
<1>2. TypeInv'
  <2>1. snap' \in [Segs -> {"base", "mid", "limit"}]
    BY <1>1 DEF TypeInv, TypeOK
  <2>. QED
    BY <1>1, <1>a, <1>b, <2>1 DEF TypeInv, TypeOK, Moves, Link
<1>3. /\ LocalOf(w)' /\ ~Finding(w)' /\ Sweeping(w)
  BY <1>0, <1>1, <1>a, <1>c DEF LocalInv, LocalOf, Moves, Registering, Finding, Sweeping, InPoolCode
<1>4. ASSUME NEW u \in Workers
      PROVE  LocalOf(u)' /\ (Finding(u)' => Finding(u)) /\ (Sweeping(u)' => Sweeping(u))
  BY <1>1, <1>a, <1>3, Others DEF LocalInv
<1>5. HeapInv'
  BY <1>1, <1>4, <1>a, HeapFrame DEF HeapInv, Moves
<1>6. PhaseInv'
  BY <1>1, <1>a, <1>3, <1>4, PhaseFrame DEF Moves, TypeInv
<1>7. CycleInv'
  <2>1. ~moved.on
    BY <1>c DEF CycleInv
  <2>. QED
    BY <1>1, <1>4, <1>a, <1>b, <2>1 DEF CycleInv, Moves
<1>. QED
  BY <1>2, <1>4, <1>5, <1>6, <1>7 DEF LocalInv

LEMMA SweepFilledControl ==
  ASSUME ControlInv, NEW w \in Workers, NEW empty \in SUBSET Segs, NEW some \in SUBSET Segs, SweepFilled(w, empty, some)
  PROVE  ControlInv'
<1>. USE DEF ControlInv
<1>0. /\ pc \in [Workers -> Labels] /\ loc \in [Workers -> LocalType] /\ loc[w] \in LocalType
      /\ top \in [Stacks -> Link] /\ next \in [Segs -> Link] /\ {"free", "partial", "marked"} = Stacks
  BY DEF TypeInv, TypeOK, Link, Stacks
<1>1. /\ UNCHANGED <<cur, filled, part, free, room, alloced, young, members, round,
                     waiting, phase, unsent, gcCount, moved, raced>>
      /\ pc[w] = "poolfilled" /\ poolFilled' \subseteq poolFilled
      /\ dirty' \subseteq dirty /\ stale' \subseteq stale
      /\ snap' = [s \in Segs |-> IF s \in poolFilled THEN "base" ELSE snap[s]]
      /\ swept' \subseteq swept \cup Segs /\ covered' \subseteq covered
      /\ Push("partial", some) /\ Moves(w, "poolfree", loc[w])
  BY <1>0, MovesOn DEF SweepFilled, Clear, own, rounds, Goto, Labels
<1>b. /\ top' \in [Stacks -> Link] /\ next' \in [Segs -> Link] /\ top'["marked"] = top["marked"]
  BY <1>0, <1>1, PushTypes
<1>c. round = ASYNC /\ ASYNC # MARK /\ top["marked"] = Null
  BY <1>1 DEF CycleInv, Sweeping, ASYNC, MARK
<1>2. TypeInv'
  <2>1. snap' \in [Segs -> {"base", "mid", "limit"}]
    BY <1>1 DEF TypeInv, TypeOK
  <2>. QED
    BY <1>1, <1>b, <2>1 DEF TypeInv, TypeOK, Moves, Link
<1>3. /\ LocalOf(w)' /\ ~Finding(w)' /\ Sweeping(w)
  BY <1>1 DEF LocalInv, LocalOf, Moves, Registering, Finding, Sweeping, InPoolCode
<1>4. ASSUME NEW u \in Workers
      PROVE  LocalOf(u)' /\ (Finding(u)' => Finding(u)) /\ (Sweeping(u)' => Sweeping(u))
  BY <1>1, <1>3, Others DEF LocalInv
<1>5. HeapInv'
  BY <1>1, <1>4, HeapFrame DEF HeapInv, Moves
<1>6. PhaseInv'
  BY <1>1, <1>3, <1>4, PhaseFrame DEF Moves, TypeInv
<1>7. CycleInv'
  <2>1. ~moved.on
    BY <1>c DEF CycleInv
  <2>. QED
    BY <1>1, <1>4, <1>b, <1>c, <2>1 DEF CycleInv
<1>. QED
  BY <1>2, <1>4, <1>5, <1>6, <1>7 DEF LocalInv

LEMMA EndGCControl ==
  ASSUME ControlInv, NEW w \in Workers, EndGC(w)
  PROVE  ControlInv'
<1>. USE DEF ControlInv
<1>0. /\ pc \in [Workers -> Labels] /\ loc \in [Workers -> LocalType] /\ loc[w] \in LocalType
      /\ top \in [Stacks -> Link] /\ next \in [Segs -> Link] /\ {"free", "partial", "marked"} = Stacks
  BY DEF TypeInv, TypeOK, Link, Stacks
<1>. DEFINE l == IF loc[w].tries = 0 THEN "run" ELSE "wait"
<1>1. /\ UNCHANGED <<own, poolFilled, alloced, bits, members, round, waiting, phase, unsent, moved,
                     loc, raced>>
      /\ pc[w] = "poolfree" /\ swept' = {} /\ gcCount' = gcCount + 1
      /\ Push("free", swept) /\ Moves(w, l, loc[w])
  BY <1>0, MovesOn DEF EndGC, Goto, Labels
<1>b. /\ top' \in [Stacks -> Link] /\ next' \in [Segs -> Link] /\ top'["marked"] = top["marked"]
      /\ top'["partial"] = top["partial"]
  BY <1>0, <1>1, PushTypes DEF TypeInv
<1>c. round = ASYNC /\ waiting = {} /\ top["marked"] = Null /\ Sweeping(w)
  BY <1>1 DEF CycleInv, Sweeping
<1>. USE DEF own, bits
<1>2. TypeInv'
  BY <1>1, <1>b DEF TypeInv, TypeOK, Moves, Link
<1>3. LocalOf(w)' /\ ~Finding(w)' /\ ~Sweeping(w)'
  BY <1>1 DEF LocalInv, LocalOf, Moves, Registering, Finding, Sweeping, InPoolCode
<1>4. ASSUME NEW u \in Workers
      PROVE  LocalOf(u)' /\ (Finding(u)' => Finding(u)) /\ ~Sweeping(u)'
  <2>1. u # w => ~Sweeping(u)
    BY <1>c DEF CycleInv
  <2>. QED
    BY <1>1, <1>3, <2>1, Others DEF LocalInv
<1>5. HeapInv'
  BY <1>1, <1>4, HeapFrame DEF HeapInv, Moves
<1>6. PhaseInv'
  BY <1>1, <1>3, <1>4, PhaseFrame DEF Moves, TypeInv
<1>7. CycleInv'
  BY <1>1, <1>4, <1>b, <1>c DEF CycleInv
<1>. QED
  BY <1>2, <1>4, <1>5, <1>6, <1>7 DEF LocalInv

LEMMA StartInitControl ==
  ASSUME ControlInv, NEW w \in Workers, StartInit(w)
  PROVE  ControlInv'
<1>. USE DEF ControlInv, own, shared, bits, rounds
<1>0. /\ pc \in [Workers -> Labels] /\ loc \in [Workers -> LocalType] /\ loc[w] \in LocalType
      /\ top \in [Stacks -> Link] /\ next \in [Segs -> Link] /\ {"free", "partial", "marked"} = Stacks
  BY DEF TypeInv, TypeOK, Link, Stacks
<1>1. UNCHANGED <<own, shared, bits, rounds, swept, raced>> /\ pc[w] = "none" /\ w \notin members
  BY DEF StartInit
<1>a. PICK r \in LocalType : /\ Moves(w, "load", r) /\ r.use = "init" /\ r.st = "partial"
                             /\ r.seg = Null /\ r.lp = DUMMY_PHASE /\ r.tries = 0
  <2>. DEFINE r == Starts(Local, "init", "partial", Null, DUMMY_PHASE)
  <2>1. r \in LocalType /\ r.use = "init" /\ r.st = "partial" /\ r.seg = Null
        /\ r.lp = DUMMY_PHASE /\ r.tries = 0
    BY <1>0, NoLocals, NullType, PhaseTypes DEF Starts, Locals, LocalType
  <2>2. pc' = [pc EXCEPT ![w] = "load"] /\ loc' = [loc EXCEPT ![w] = r] /\ "load" \in Labels
    BY DEF StartInit, Goto, Labels
  <2>. HIDE DEF r
  <2>3. Moves(w, "load", r)
    BY <1>0, <2>1, <2>2, MovesBoth
  <2>. QED
    BY <2>1, <2>3
<1>2. TypeInv'
  BY <1>1, <1>a DEF TypeInv, TypeOK, Moves
<1>3. LocalOf(w)' /\ ~Finding(w)' /\ ~Sweeping(w)'
  BY <1>0, <1>1, <1>a DEF LocalInv, LocalOf, Moves, Registering, Finding, Sweeping, InPoolCode
<1>4. ASSUME NEW u \in Workers
      PROVE  LocalOf(u)' /\ (Finding(u)' => Finding(u)) /\ (Sweeping(u)' => Sweeping(u))
  BY <1>1, <1>3, <1>a, Others DEF LocalInv
<1>5. HeapInv'
  BY <1>1, <1>4, <1>a DEF HeapInv, HeapOf, Moves
<1>6. PhaseInv'
  BY <1>1, <1>a, <1>3, <1>4, PhaseFrame DEF Moves, TypeInv
<1>7. CycleInv'
  <2>1. ASSUME NEW u \in Workers PROVE pc'[u] \in {"poolfilled", "poolfree"} => pc[u] \in {"poolfilled", "poolfree"}
    BY <1>a DEF Moves
  <2>. QED
    BY <1>1, <1>4, <2>1 DEF CycleInv
<1>. QED
  BY <1>2, <1>4, <1>5, <1>6, <1>7 DEF LocalInv

LEMMA RegisterControl ==
  ASSUME ControlInv, NEW w \in Workers, Register(w)
  PROVE  ControlInv'
<1>. USE DEF ControlInv
<1>0. /\ pc \in [Workers -> Labels] /\ loc \in [Workers -> LocalType] /\ loc[w] \in LocalType
      /\ top \in [Stacks -> Link] /\ next \in [Segs -> Link] /\ {"free", "partial", "marked"} = Stacks
  BY DEF TypeInv, TypeOK, Link, Stacks
<1>1. /\ UNCHANGED <<cur, filled, part, free, shared, dirty, stale, unsent, gcCount, moved, swept,
                     round, waiting>>
      /\ pc[w] = "register" /\ w \notin members /\ members' = members \cup {w}
      /\ phase' = [phase EXCEPT ![w] = round] /\ snap' = SnapshotAt(round, {cur[w]})
      /\ room' = [room EXCEPT ![w] = MaxRoom] /\ raced' \in BOOLEAN
      /\ Moves(w, "run", loc[w])
  BY <1>0, MovesOn DEF Register, Join, Goto, Labels, TypeInv
<1>b. covered' \subseteq covered \cup {cur[w]} /\ young' \subseteq young /\ cur[w] \in Segs
  BY <1>1 DEF Register, TypeInv, TypeOK, HeapInv, HeapOf
<1>. USE DEF shared
<1>2. TypeInv'
  <2>1. snap' \in [Segs -> {"base", "mid", "limit"}]
    BY <1>1 DEF SnapshotAt, TypeInv, TypeOK
  <2>2. room' \in [Workers -> 0..MaxRoom] /\ phase' \in [Workers -> Phases]
    BY <1>1, CountType, PhaseTypes DEF TypeInv, TypeOK
  <2>. QED
    BY <1>1, <1>b, <2>1, <2>2 DEF TypeInv, TypeOK, Moves
<1>3. LocalOf(w)' /\ ~Finding(w)' /\ ~Sweeping(w)'
  BY <1>1 DEF LocalInv, LocalOf, Moves, Registering, Finding, Sweeping, InPoolCode
<1>4. ASSUME NEW u \in Workers
      PROVE  LocalOf(u)' /\ (Finding(u)' => Finding(u)) /\ (Sweeping(u)' => Sweeping(u))
  BY <1>1, <1>3, Others DEF LocalInv
<1>5. HeapInv'
  <2>1. HeapOf(w)'
    BY <1>1, <1>3 DEF HeapOf
  <2>2. ASSUME NEW u \in Workers, u # w PROVE HeapOf(u)'
    BY <1>1, <1>4, <2>2, HeapFrame DEF HeapInv, Moves, TypeInv, TypeOK
  <2>. QED
    BY <2>1, <2>2 DEF HeapInv
<1>6. PhaseInv'
  <2>1. w \notin waiting /\ w \notin unsent /\ phase'[w] = round
    BY <1>1 DEF TypeInv, TypeOK
  <2>2. PhaseOf(w)'
    BY <1>1, <1>3, <2>1 DEF PhaseOf
  <2>3. ASSUME NEW u \in members PROVE PhaseOf(u)'
    BY <1>1, <1>4, <2>3 DEF PhaseInv, PhaseOf, TypeInv, TypeOK, Moves
  <2>. QED
    BY <1>1, <2>2, <2>3 DEF PhaseInv
<1>7. CycleInv'
  BY <1>1, <1>4 DEF CycleInv, Moves
<1>. QED
  BY <1>2, <1>4, <1>5, <1>6, <1>7 DEF LocalInv

LEMMA ControlInit == Init => ControlInv
<1>. SUFFICES ASSUME Init PROVE ControlInv
  OBVIOUS
<1>0. Local \in LocalType /\ Local.use = "" /\ Local.seg = Null /\ Local.tries = 0 /\ Null \in Link
  BY NoLocals, NullType DEF Link
<1>1. /\ pc = [w \in Workers |-> IF w \in Members0 THEN "run" ELSE "none"]
      /\ loc = [w \in Workers |-> Local] /\ members = Members0 /\ round = ASYNC /\ waiting = {}
      /\ phase = [w \in Workers |-> ASYNC] /\ unsent = {} /\ gcCount = 0 /\ Members0 \subseteq Workers
      /\ moved = [on |-> FALSE, list |-> Null] /\ top["marked"] = Null
  BY MembersType DEF Init, Stacks
<1>2. TypeInv
  <2>1. /\ top \in [Stacks -> Link] /\ next \in [Segs -> Link]
    <3>1. Pool0 \in Link /\ \A s \in 1..Pool0 : s - 1 \in Link
      BY CountType DEF Link, Segs, Null
    <3>. QED
      BY <1>0, <3>1 DEF Init
  <2>2. 1..Pool0 \subseteq Segs /\ alloced \in 0..Count /\ room \in [Workers -> 0..MaxRoom]
    BY CountType DEF Init, Segs
  <2>3. ASYNC \in Phases
    BY PhaseTypes
  <2>4. moved \in [on : BOOLEAN, list : Link] /\ pc \in [Workers -> Labels] /\ loc \in [Workers -> LocalType]
    BY <1>0, <1>1 DEF Labels
  <2>5. cur \in [Workers -> Link] /\ snap \in [Segs -> {"base", "mid", "limit"}]
    BY <1>0 DEF Init
  <2>6. TypeOK
    BY <1>1, <2>1, <2>2, <2>3, <2>5 DEF TypeOK, Link
  <2>7. /\ poolFilled = {} /\ swept = {} /\ young = {} /\ dirty = {} /\ stale = {} /\ covered = 1..Pool0
        /\ filled = [w \in Workers |-> {}] /\ part = [w \in Workers |-> {}]
        /\ free = [w \in Workers |-> {}] /\ raced = FALSE
    BY DEF Init
  <2>. QED
    BY <1>1, <2>2, <2>4, <2>6, <2>7 DEF TypeInv
<1>3. LocalInv
  BY <1>0, <1>1 DEF LocalInv, LocalOf, Registering, InPoolCode
<1>4. HeapInv
  BY <1>1 DEF HeapInv, HeapOf, Finding, InPoolCode, Init
<1>5. PhaseInv
  BY <1>1 DEF PhaseInv, PhaseOf, Finding, InPoolCode
<1>6. CycleInv
  BY <1>0, <1>1 DEF CycleInv, Sweeping
<1>. QED
  BY <1>2, <1>3, <1>4, <1>5, <1>6 DEF ControlInv

LEMMA ControlStep == ControlInv /\ [Next]_vars => ControlInv'
<1>. SUFFICES ASSUME ControlInv, [Next]_vars PROVE ControlInv'
  OBVIOUS
<1>1. CASE Next
  <2>1. ASSUME NEW w \in Workers, Pool(w) PROVE ControlInv'
    BY <2>1, PopLoadControl, PopCasControl, ClearMarkedControl, ExtendControl, UseFoundControl DEF Pool
  <2>2. ASSUME NEW w \in Workers, Worker(w) PROVE ControlInv'
    BY <2>2, AllocYoungControl, FindSegmentControl, GiveUpControl, RequestGCControl, WaitGCControl,
       EndWaitControl, EndGCControl, TakePartialControl, AnswerControl, AsyncControl,
       SweepFilledControl, SweepControl DEF Worker
  <2>3. ASSUME NEW w \in Workers, StartInit(w) \/ Register(w) \/ Signal(w) \/ Kill(w) PROVE ControlInv'
    BY <2>3, StartInitControl, RegisterControl, SignalControl, KillControl
  <2>4. CASE NextRound \/ TakeMarked \/ PutMarked
    BY <2>4, NextRoundControl, TakeMarkedControl, PutMarkedControl
  <2>. QED
    BY <1>1, <2>1, <2>2, <2>3, <2>4 DEF Next
<1>2. CASE UNCHANGED vars
  <2>1. TypeInv'
    BY <1>2 DEF vars, ControlInv, TypeInv, TypeOK
  <2>2. LocalInv' /\ HeapInv'
    BY <1>2 DEF vars, ControlInv, LocalInv, LocalOf, HeapInv, HeapOf, Registering, Finding
  <2>3. PhaseInv' /\ CycleInv'
    BY <1>2 DEF vars, ControlInv, PhaseInv, PhaseOf, CycleInv, Sweeping, Finding
  <2>. QED
    BY <2>1, <2>2, <2>3 DEF ControlInv
<1>. QED
  BY <1>1, <1>2

-----------------------------------------------------------------------------
(* Room.                                                                    *)

LEMMA RoomFrame ==
  ASSUME NEW u \in Workers, RoomOf(u), gcCount' = gcCount, AsyncAhead(u) => AsyncAhead(u)',
         room'[u] = room[u], loc'[u].tries = loc[u].tries, loc'[u].goal = loc[u].goal,
         pc'[u] = "fatal" => pc[u] = "fatal",
         pc'[u] \in {"fail", "retry"} \/ Finding(u)' => pc[u] \in {"fail", "retry"} \/ Finding(u)
  PROVE  RoomOf(u)'
BY DEF RoomOf

\* A worker that does not wait, and has room.
LEMMA RoomFresh ==
  ASSUME NEW u \in Workers, loc'[u].tries = 0, pc'[u] # "fatal"
  PROVE  RoomOf(u)'
BY DEF RoomOf

\* The others, while w moves.
LEMMA RoomOthers ==
  ASSUME RoomInv, NEW w \in Workers, NEW l, NEW r, Moves(w, l, r), gcCount' = gcCount,
         \A u \in Workers \ {w} : room'[u] = room[u] /\ (AsyncAhead(u) => AsyncAhead(u)'),
         RoomOf(w)'
  PROVE  RoomInv'
<1>1. ASSUME NEW u \in Workers, u # w PROVE RoomOf(u)'
  <2>1. /\ pc'[u] = pc[u] /\ loc'[u] = loc[u] /\ (Finding(u)' <=> Finding(u))
    BY <1>1, Others DEF Moves
  <2>. QED
    BY <1>1, <2>1, RoomFrame DEF RoomInv
<1>. QED
  BY <1>1 DEF RoomInv

LEMMA AheadFrame ==
  ASSUME NEW u \in Workers, UNCHANGED <<gcCount, round>>, u \in waiting => u \in waiting'
  PROVE  AsyncAhead(u) => AsyncAhead(u)'
BY DEF AsyncAhead

\* The steps of get_segment_from_pool before the last.
LEMMA PoolRoom ==
  ASSUME TypeInv, LocalInv, RoomInv, NEW w \in Workers,
         PopLoad(w) \/ PopCas(w) \/ ClearMarked(w) \/ Extend(w)
  PROVE  RoomInv'
<1>1. /\ UNCHANGED <<room, gcCount, round, waiting>> /\ pc[w] \in {"load", "cas", "clear", "extend"}
  BY DEF PopLoad, PopCas, ClearMarked, Extend, own, rounds
<1>2. PICK l \in Labels, r \in LocalType :
         /\ Moves(w, l, r) /\ r.use = loc[w].use /\ r.tries = loc[w].tries /\ r.goal = loc[w].goal
         /\ l \notin {"fatal", "retry"} /\ (l = "fail" => r.use \in {"find", "sweep"} /\ pc[w] = "extend")
  <2>1. CASE PopLoad(w)
    BY <2>1, PopLoadMoves DEF PopLoads
  <2>2. CASE PopCas(w)
    BY <2>2, PopCasMoves DEF PopCases
  <2>3. CASE ClearMarked(w)
    <3>1. Moves(w, "set", loc[w]) /\ "set" \in Labels /\ loc[w] \in LocalType
      BY <2>3, MovesOn DEF ClearMarked, Goto, TypeInv, Labels
    <3>. QED
      BY <3>1
  <2>4. CASE Extend(w)
    <3>1. loc[w].use \in {"find", "init", "sweep"} /\ pc[w] = "extend"
      BY <2>4, FieldTypes DEF TypeInv, LocalInv, LocalOf, InPoolCode, Extend
    <3>. QED
      BY <2>4, <3>1, ExtendMoves DEF Extends
  <2>. QED
    BY <2>1, <2>2, <2>3, <2>4
<1>3. RoomOf(w)'
  <2>1. pc'[w] = "fail" \/ Finding(w)' => Finding(w)
    BY <1>1, <1>2 DEF Finding, Moves, InPoolCode, LocalInv, LocalOf
  <2>. QED
    BY <1>1, <1>2, <2>1, RoomFrame, AheadFrame DEF Moves, RoomInv
<1>. QED
  BY <1>1, <1>2, <1>3, RoomOthers, AheadFrame

LEMMA UseFoundRoom ==
  ASSUME TypeInv, RoomInv, NEW w \in Workers, UseFound(w) PROVE RoomInv'
<1>1. /\ UNCHANGED <<gcCount, round, waiting>>
      /\ \A u \in Workers \ {w} : room'[u] = room[u]
  BY DEF UseFound, rounds, TypeInv, TypeOK
<1>2. PICK l \in {"register", "run"} : Moves(w, l, Local)
  BY NoLocals, MovesBoth DEF UseFound, Goto, Labels, TypeInv
<1>. QED
  BY <1>1, <1>2, NoLocals, RoomFresh, RoomOthers, AheadFrame DEF Moves

LEMMA TakePartialRoom ==
  ASSUME TypeInv, RoomInv, NEW w \in Workers, NEW s \in Segs, TakePartial(w, s) PROVE RoomInv'
<1>1. /\ UNCHANGED <<room, gcCount, round, waiting>> /\ Moves(w, "run", Local)
  BY NoLocals, MovesBoth DEF TakePartial, Goto, Labels, rounds, TypeInv
<1>. QED
  BY <1>1, NoLocals, RoomFresh, RoomOthers, AheadFrame DEF Moves

LEMMA FindSegmentRoom ==
  ASSUME TypeInv, LocalInv, RoomInv, NEW w \in Workers, FindSegment(w) PROVE RoomInv'
<1>1. UNCHANGED <<room, gcCount, round, waiting>> /\ pc[w] \in {"run", "retry"}
  BY DEF FindSegment, rounds
<1>2. PICK l \in Labels, r \in LocalType : Finds(w, l, r)
  BY FindSegmentMoves
<1>3. RoomOf(w)'
  <2>1. CASE pc[w] = "run"
    BY <1>2, <2>1, RoomFresh DEF Finds, Moves, LocalInv, LocalOf
  <2>2. CASE pc[w] = "retry"
    BY <1>1, <1>2, <2>2, RoomFrame, AheadFrame DEF Finds, Moves, RoomInv
  <2>. QED
    BY <1>1, <2>1, <2>2
<1>. QED
  BY <1>1, <1>2, <1>3, RoomOthers, AheadFrame DEF Finds

LEMMA GiveUpRoom ==
  ASSUME TypeInv, RoomInv, NEW w \in Workers, GiveUp(w) PROVE RoomInv'
<1>1. UNCHANGED <<room, gcCount, round, waiting, loc>> /\ pc[w] = "fail" /\ Moves(w, "fatal", loc[w])
  BY MovesOn DEF GiveUp, own, rounds, Goto, Labels, TypeInv
<1>2. loc[w].tries = 2 /\ room[w] \in 0..MaxRoom /\ gcCount \in Nat /\ loc[w].goal \in Nat
  <2>1. loc[w].tries \in 0..2 /\ ~(loc[w].tries < 2)
    BY FieldTypes DEF GiveUp, WaitsAgain, TypeInv
  <2>2. loc[w].goal \in Nat
    BY FieldTypes DEF TypeInv
  <2>3. room[w] \in 0..MaxRoom /\ gcCount \in Nat
    BY DEF TypeInv, TypeOK
  <2>. QED
    BY <2>1, <2>2, <2>3
<1>3. gcCount >= loc[w].goal
  BY <1>1, <1>2 DEF RoomInv, RoomOf
<1>4. room[w] # 0
  BY <1>2, <1>3 DEF RoomInv, RoomOf
<1>5. room[w] > 0
  BY <1>2, <1>4, RoomType
<1>6. RoomOf(w)'
  BY <1>1, <1>4, <1>5 DEF RoomInv, RoomOf, Moves, Finding, InPoolCode
<1>. QED
  BY <1>1, <1>6, RoomOthers, AheadFrame

LEMMA EndWaitRoom ==
  ASSUME TypeInv, RoomInv, NEW w \in Workers, EndWait(w) PROVE RoomInv'
<1>1. /\ UNCHANGED <<room, gcCount, round, waiting>> /\ Moves(w, "retry", loc[w])
      /\ gcCount >= loc[w].goal
  BY MovesOn DEF EndWait, own, rounds, Goto, Labels, TypeInv
<1>2. RoomOf(w)'
  BY <1>1, AheadFrame DEF RoomInv, RoomOf, Moves
<1>. QED
  BY <1>1, <1>2, RoomOthers, AheadFrame

\* A collection starts: those that have no room have waited for the last one.
LEMMA StartRoom ==
  ASSUME ControlInv, RoomInv, StartGC, NEW u \in Workers, room'[u] = room[u], loc'[u] = loc[u],
         pc'[u] = "fatal" => pc[u] = "fatal",
         pc'[u] \in {"fail", "retry"} \/ Finding(u)' => pc[u] \in {"fail", "retry"} \/ Finding(u)
  PROVE  RoomOf(u)'
<1>1. gcCount' = gcCount + 1 /\ gcCount % 2 = 0 /\ gcCount \in Nat /\ gcCount' % 2 = 1
  BY StartFacts DEF ControlInv, TypeInv
<1>2. round' # ASYNC
  BY StartFacts DEF Announce, Begin, SYNC1, ASYNC
<1>3. AsyncAhead(u)'
  BY <1>1, <1>2 DEF AsyncAhead
<1>4. loc[u].goal \in Nat
  BY FieldTypes DEF ControlInv, TypeInv
<1>5. CASE loc[u].tries = 0
  BY <1>5 DEF RoomOf, RoomInv
<1>6. CASE loc[u].tries # 0
  <2>. DEFINE g == loc[u].goal
  <2>1. g % 2 = 0
    BY <1>6 DEF RoomOf, RoomInv
  <2>2. gcCount \in g - 1 .. g + 1 => gcCount = g
    BY <1>1, <1>4, <2>1
  <2>3. room[u] = 0 => gcCount = g /\ loc[u].tries # 2
    BY <1>1, <1>4, <1>6, <2>2 DEF RoomOf, RoomInv
  <2>4. gcCount >= g => gcCount + 1 >= g
    BY <1>1, <1>4
  <2>5. gcCount = g => gcCount + 1 \in g - 1 .. g + 1
    BY <1>1, <1>4
  <2>. QED
    BY <1>1, <1>3, <1>6, <2>3, <2>4, <2>5 DEF RoomOf, RoomInv
<1>. QED
  BY <1>5, <1>6

LEMMA RequestGCRoom ==
  ASSUME ControlInv, RoomInv, NEW w \in Workers, RequestGC(w) PROVE RoomInv'
<1>1. StartGC /\ UNCHANGED <<room, loc, pc>>
  BY DEF RequestGC, own
<1>2. ASSUME NEW u \in Workers PROVE RoomOf(u)'
  BY <1>1, StartRoom DEF Finding
<1>. QED
  BY <1>2 DEF RoomInv

LEMMA WaitGCRoom ==
  ASSUME ControlInv, RoomInv, NEW w \in Workers, WaitGC(w) PROVE RoomInv'
<1>. DEFINE r == WaitLocals(loc[w])
<1>1. /\ Moves(w, "wait", r) /\ r.tries = loc[w].tries + 1 /\ loc[w].tries \in 0..1
      /\ r.goal = gcCount + 2 - (gcCount % 2) /\ pc[w] = "fail" /\ UNCHANGED room /\ gcCount \in Nat
  BY WaitGCMoves DEF WaitGC, own, ControlInv, TypeInv
<1>. HIDE DEF r
<1>2. /\ gcCount % 2 = 1 => r.goal % 2 = 0 /\ gcCount = r.goal - 1
      /\ gcCount % 2 = 0 => r.goal % 2 = 0 /\ gcCount + 1 = r.goal - 1
      /\ gcCount % 2 \in {0, 1} /\ r.goal \in Nat
      /\ \A n \in Nat : n = r.goal - 1 => n \in r.goal - 1 .. r.goal + 1 /\ n # r.goal + 1
  BY <1>1
<1>3. CASE gcCount % 2 = 1
  <2>1. UNCHANGED <<gcCount, round, waiting>>
    BY <1>3 DEF WaitGC, rounds
  <2>2. room[w] = 0 /\ r.tries = 2 => AsyncAhead(w)
    <3>. SUFFICES ASSUME room[w] = 0, r.tries = 2 PROVE AsyncAhead(w)
      OBVIOUS
    <3>0. loc[w].goal \in Nat
      BY FieldTypes DEF ControlInv, TypeInv
    <3>1. loc[w].tries = 1 /\ loc[w].goal \in Nat
      BY <1>1, <3>0
    <3>2. loc[w].goal % 2 = 0 /\ gcCount >= loc[w].goal /\ gcCount \in loc[w].goal - 1 .. loc[w].goal + 1
      BY <1>1, <3>1 DEF RoomInv, RoomOf
    <3>3. gcCount = loc[w].goal + 1
      BY <1>1, <1>3, <3>1, <3>2
    <3>. QED
      BY <3>1, <3>3 DEF RoomInv, RoomOf
  <2>3. RoomOf(w)'
    BY <1>1, <1>2, <1>3, <2>1, <2>2, AheadFrame DEF RoomOf, Moves, Finding, InPoolCode
  <2>. QED
    BY <1>1, <2>1, <2>3, RoomOthers, AheadFrame
<1>4. CASE gcCount % 2 = 0
  <2>1. StartGC
    <3>1. ~(gcCount % 2 = 1)
      BY <1>4
    <3>. QED
      BY <3>1 DEF WaitGC
  <2>2. gcCount' = gcCount + 1 /\ gcCount' \in Nat /\ gcCount' % 2 = 1
    BY <2>1, StartFacts
  <2>3. round' # ASYNC
    BY <2>1, StartFacts DEF Announce, Begin, SYNC1, ASYNC
  <2>4. RoomOf(w)'
    BY <1>1, <1>2, <1>4, <2>2, <2>3 DEF RoomOf, Moves, Finding, InPoolCode, AsyncAhead
  <2>5. ASSUME NEW u \in Workers, u # w PROVE RoomOf(u)'
    BY <1>1, <2>1, <2>5, Others, StartRoom DEF Moves
  <2>. QED
    BY <2>4, <2>5 DEF RoomInv
<1>. QED
  BY <1>2, <1>3, <1>4

\* The collection ends: those that have no room have not answered ASYNC, and
\* have waited for its end for the first time.
LEMMA EndGCRoom ==
  ASSUME ControlInv, RoomInv, NEW w \in Workers, EndGC(w) PROVE RoomInv'
<1>1. /\ UNCHANGED <<room, round, waiting, loc>> /\ gcCount' = gcCount + 1 /\ pc[w] = "poolfree"
      /\ \A u \in Workers : pc'[u] = pc[u] \/ pc'[u] \in {"run", "wait"}
  BY DEF EndGC, own, Goto, ControlInv, TypeInv
<1>2. round = ASYNC /\ waiting = {} /\ gcCount % 2 = 1 /\ gcCount \in Nat
  BY <1>1 DEF ControlInv, CycleInv, Sweeping, TypeInv
<1>3. ASSUME NEW u \in Workers, loc[u].tries # 0 PROVE RoomOf(u)'
  <2>. DEFINE g == loc[u].goal
  <2>0. g \in Nat
    BY FieldTypes DEF ControlInv, TypeInv
  <2>1. g \in Nat /\ g % 2 = 0 /\ ~AsyncAhead(u)
    BY <1>2, <1>3, <2>0 DEF RoomOf, RoomInv, AsyncAhead
  <2>2. gcCount >= g => gcCount + 1 >= g
    BY <1>2, <2>1
  <2>3. gcCount \in g - 1 .. g + 1 => gcCount = g - 1 \/ gcCount = g + 1
    <3>1. g % 2 # 1
      BY <2>1
    <3>2. g # gcCount
      BY <1>2, <3>1
    <3>. QED
      BY <1>2, <2>1, <3>2
  <2>4. room[u] = 0 => gcCount = g - 1 /\ loc[u].tries # 2
    BY <1>3, <2>1, <2>3 DEF RoomOf, RoomInv
  <2>5. gcCount = g - 1 => gcCount + 1 \in g - 1 .. g + 1 /\ gcCount + 1 # g + 1
    BY <1>2, <2>1
  <2>6. pc'[u] \in {"fail", "retry"} \/ Finding(u)' => pc[u] \in {"fail", "retry"} \/ Finding(u)
    BY <1>1 DEF Finding, InPoolCode
  <2>. QED
    BY <1>1, <1>3, <2>1, <2>2, <2>4, <2>5, <2>6 DEF RoomOf, RoomInv
<1>4. ASSUME NEW u \in Workers, loc[u].tries = 0 PROVE RoomOf(u)'
  BY <1>1, <1>4 DEF RoomOf, RoomInv
<1>. QED
  BY <1>3, <1>4 DEF RoomInv

\* ASYNC renews the room.
LEMMA AsyncRoom ==
  ASSUME ControlInv, RoomInv, NEW w \in Workers, NEW empty \in SUBSET Segs,
         NEW some \in SUBSET Segs, Async(w, empty, some)
  PROVE RoomInv'
<1>1. PICK l \in Labels, r \in LocalType : Asyncs(w, l, r)
  BY AsyncMoves DEF ControlInv
<1>2. /\ UNCHANGED <<gcCount, round>> /\ waiting' = waiting \ {w} /\ pc[w] \in {"run", "wait"}
      /\ \E n \in Rooms : room' = [room EXCEPT ![w] = n]
  BY AsyncFacts DEF AsyncDoes
<1>3. room'[w] # 0 /\ \A u \in Workers \ {w} : room'[u] = room[u]
  BY <1>2 DEF Rooms, ControlInv, TypeInv, TypeOK
<1>4. RoomOf(w)'
  <2>1. l \notin {"fatal", "fail", "retry"} /\ ~Finding(w)'
    BY <1>1, <1>2 DEF Asyncs, Moves, Finding, InPoolCode
  <2>. QED
    BY <1>1, <1>3, <2>1 DEF RoomOf, RoomInv, Asyncs, Moves
<1>. QED
  BY <1>1, <1>2, <1>3, <1>4, RoomOthers, AheadFrame DEF Asyncs

LEMMA SweepRoom ==
  ASSUME ControlInv, RoomInv, NEW w \in Workers,
         \/ \E empty \in BOOLEAN : Sweep(w, empty)
         \/ \E empty, some \in SUBSET Segs : SweepFilled(w, empty, some)
  PROVE RoomInv'
<1>1. UNCHANGED <<room, gcCount, round, waiting>> /\ pc[w] \in {"sweep", "poolfilled"}
  BY DEF Sweep, SweepFilled, own, rounds
<1>2. PICK l \in {"load", "poolfree"}, r \in LocalType :
         /\ Moves(w, l, r) /\ r.tries = loc[w].tries /\ r.goal = loc[w].goal
         /\ (l = "load" => r.use = "sweep")
  <2>0. /\ pc \in [Workers -> Labels] /\ loc \in [Workers -> LocalType] /\ loc[w] \in LocalType
        /\ "load" \in Labels /\ "poolfree" \in Labels
    BY DEF ControlInv, TypeInv, Labels
  <2>1. CASE pc[w] = "sweep"
    <3>1. pc' = [pc EXCEPT ![w] = "load"] /\ loc' = [loc EXCEPT ![w] = Gets(loc[w], Null)]
      BY <2>1 DEF Sweep, SweepFilled, Goto
    <3>2. Gets(loc[w], Null) \in LocalType /\ Gets(loc[w], Null).tries = loc[w].tries
          /\ Gets(loc[w], Null).goal = loc[w].goal /\ Gets(loc[w], Null).use = loc[w].use
      BY <2>0, GetsType, NullType
    <3>3. Moves(w, "load", Gets(loc[w], Null))
      BY <2>0, <3>1, <3>2, MovesBoth
    <3>. QED
      BY <2>1, <3>2, <3>3 DEF ControlInv, LocalInv, LocalOf
  <2>2. CASE pc[w] = "poolfilled"
    <3>1. Moves(w, "poolfree", loc[w])
      BY <2>0, <2>2, MovesOn DEF Sweep, SweepFilled, Goto
    <3>. QED
      BY <2>0, <3>1
  <2>. QED
    BY <1>1, <2>1, <2>2
<1>3. RoomOf(w)'
  BY <1>1, <1>2, RoomFrame, AheadFrame DEF Moves, RoomInv, Finding, InPoolCode
<1>. QED
  BY <1>1, <1>2, <1>3, RoomOthers, AheadFrame

LEMMA StartInitRoom ==
  ASSUME ControlInv, RoomInv, NEW w \in Workers, StartInit(w) PROVE RoomInv'
<1>. DEFINE r == Starts(Local, "init", "partial", Null, DUMMY_PHASE)
<1>1. UNCHANGED <<room, gcCount, round, waiting>> /\ "load" \in Labels
  BY DEF StartInit, own, rounds, Labels
<1>2. r \in LocalType /\ r.tries = 0
  BY NoLocals, NullType, PhaseTypes DEF Starts, Locals, LocalType, Stacks
<1>. HIDE DEF r
<1>3. Moves(w, "load", r)
  BY <1>1, <1>2, MovesBoth DEF StartInit, r, Goto, ControlInv, TypeInv
<1>. QED
  BY <1>1, <1>2, <1>3, RoomFresh, RoomOthers, AheadFrame DEF Moves

LEMMA RegisterRoom ==
  ASSUME ControlInv, RoomInv, NEW w \in Workers, Register(w) PROVE RoomInv'
<1>1. /\ UNCHANGED <<gcCount, round, waiting>> /\ Moves(w, "run", loc[w]) /\ pc[w] = "register"
      /\ \A u \in Workers \ {w} : room'[u] = room[u]
  BY MovesOn DEF Register, Join, Goto, Labels, ControlInv, TypeInv, TypeOK
<1>2. loc'[w].tries = 0 /\ pc'[w] # "fatal"
  BY <1>1 DEF Moves, ControlInv, LocalInv, LocalOf
<1>. QED
  BY <1>1, <1>2, RoomFresh, RoomOthers, AheadFrame

LEMMA KillRoom ==
  ASSUME ControlInv, RoomInv, NEW w \in Workers, Kill(w) PROVE RoomInv'
<1>1. /\ UNCHANGED <<room, gcCount, round>> /\ waiting' = waiting \ {w} /\ Moves(w, "none", loc[w])
      /\ pc[w] = "run"
  BY MovesOn DEF Kill, Retire, Goto, Labels, ControlInv, TypeInv
<1>2. loc'[w].tries = 0 /\ pc'[w] # "fatal"
  BY <1>1 DEF Moves, ControlInv, LocalInv, LocalOf
<1>. QED
  BY <1>1, <1>2, RoomFresh, RoomOthers, AheadFrame

\* The steps of the handshake by which nobody moves.
LEMMA RoundRoom ==
  ASSUME ControlInv, RoomInv, UNCHANGED <<room, pc, loc, gcCount>>,
         \A u \in members : AsyncAhead(u) => AsyncAhead(u)'
  PROVE  RoomInv'
<1>1. ASSUME NEW u \in members PROVE RoomOf(u)'
  <2>1. u \in Workers
    BY <1>1 DEF ControlInv, TypeInv
  <2>. QED
    BY <1>1, <2>1, RoomFrame DEF RoomInv, Finding
<1>2. ASSUME NEW u \in Workers, u \notin members PROVE RoomOf(u)'
  <2>1. loc[u].tries = 0 /\ pc[u] # "fatal"
    BY <1>2 DEF ControlInv, LocalInv, LocalOf, Registering, InPoolCode
  <2>. QED
    BY <2>1, RoomFresh
<1>. QED
  BY <1>1, <1>2 DEF RoomInv

LEMMA AnswerRoom ==
  ASSUME ControlInv, RoomInv, NEW w \in Workers, NEW r \in Phases, Answer(w, r) PROVE RoomInv'
<1>1. /\ UNCHANGED <<room, pc, loc, gcCount, round>> /\ round # ASYNC
  BY DEF Answer, Accepts, Respond, own, SYNC1, SYNC2, MARK, ASYNC
<1>. QED
  BY <1>1, RoundRoom DEF AsyncAhead

LEMMA SignalRoom ==
  ASSUME ControlInv, RoomInv, NEW w \in Workers, Signal(w) PROVE RoomInv'
BY RoundRoom DEF Signal, own, AsyncAhead

LEMMA NextRoundRoom ==
  ASSUME ControlInv, RoomInv, NextRound PROVE RoomInv'
<1>1. UNCHANGED <<room, pc, loc, gcCount>> /\ round' # ASYNC
  BY DEF NextRound, own, Announce, Begin, SYNC1, SYNC2, ASYNC
<1>. QED
  BY <1>1, RoundRoom DEF AsyncAhead

LEMMA MarkedRoom ==
  ASSUME ControlInv, RoomInv, TakeMarked \/ PutMarked PROVE RoomInv'
<1>1. CASE TakeMarked
  BY <1>1, RoundRoom DEF TakeMarked, own, AsyncAhead
<1>2. CASE PutMarked
  BY <1>2, RoundRoom DEF PutMarked, Announce, Begin, own, AsyncAhead
<1>. QED
  BY <1>1, <1>2

LEMMA RoomInit == Init => RoomInv
<1>. SUFFICES ASSUME Init, NEW w \in Workers PROVE RoomOf(w)
  BY DEF RoomInv
<1>1. pc[w] # "fatal" /\ loc[w].tries = 0
  BY NoLocals DEF Init
<1>. QED
  BY <1>1 DEF RoomOf

LEMMA RoomStep == ControlInv /\ RoomInv /\ [Next]_vars => RoomInv'
<1>. SUFFICES ASSUME ControlInv, RoomInv, [Next]_vars PROVE RoomInv'
  OBVIOUS
<1>0. TypeInv /\ LocalInv
  BY DEF ControlInv
<1>1. CASE Next
  <2>1. ASSUME NEW w \in Workers, Pool(w) PROVE RoomInv'
    BY <1>0, <2>1, PoolRoom, UseFoundRoom DEF Pool
  <2>2. ASSUME NEW w \in Workers, Worker(w) PROVE RoomInv'
    <3>1. CASE AllocYoung(w)
      BY <3>1, RoundRoom DEF AllocYoung, own, rounds, AsyncAhead
    <3>2. CASE FindSegment(w) \/ GiveUp(w) \/ RequestGC(w) \/ WaitGC(w) \/ EndWait(w) \/ EndGC(w)
      BY <1>0, <3>2, FindSegmentRoom, GiveUpRoom, RequestGCRoom, WaitGCRoom, EndWaitRoom, EndGCRoom
    <3>3. CASE (\E s \in Segs : TakePartial(w, s)) \/ (\E r \in Phases : Answer(w, r))
      BY <1>0, <3>3, TakePartialRoom, AnswerRoom
    <3>. QED
      BY <2>2, <3>1, <3>2, <3>3, AsyncRoom, SweepRoom DEF Worker
  <2>3. ASSUME NEW w \in Workers, StartInit(w) \/ Register(w) \/ Signal(w) \/ Kill(w) PROVE RoomInv'
    BY <2>3, StartInitRoom, RegisterRoom, SignalRoom, KillRoom
  <2>4. CASE NextRound \/ TakeMarked \/ PutMarked
    BY <2>4, NextRoundRoom, MarkedRoom
  <2>. QED
    BY <1>1, <2>1, <2>2, <2>3, <2>4 DEF Next
<1>2. CASE UNCHANGED vars
  BY <1>2, RoundRoom DEF vars, AsyncAhead
<1>. QED
  BY <1>1, <1>2

-----------------------------------------------------------------------------
(* The lists, in a step.                                                    *)

On(st) == ListFrom(top[st])
Apart  == ListFrom(moved.list)

\* What the proofs use of TypeInv about lists.
LEMMA ListTypes ==
  ASSUME TypeInv
  PROVE  /\ top \in [Stacks -> Link] /\ next \in [Segs -> Link] /\ moved.list \in Link
         /\ Apart \subseteq Segs /\ \A st \in Stacks : top[st] \in Link /\ On(st) \subseteq Segs
<1>1. top \in [Stacks -> Link] /\ next \in [Segs -> Link] /\ moved.list \in Link
  BY DEF TypeInv, TypeOK, Link
<1>2. \A st \in Stacks : top[st] \in Link
  BY <1>1
<1>. QED
  BY <1>1, <1>2, ChainClosed DEF On, Apart, ListFrom

LEMMA ListsKept ==
  ASSUME LinksInv, UNCHANGED <<top, next>>, moved'.list = moved.list
  PROVE  /\ LinksInv'
         /\ \A st \in Stacks : On(st)' = On(st)
         /\ Apart' = Apart
BY DEF LinksInv, On, Apart, ListFrom, Chain, Acyclic, Leaves

LEMMA ListsPopped ==
  ASSUME TypeInv, LinksInv, NEW st \in Stacks, top[st] # Null, next' = next,
         top' = [top EXCEPT ![st] = next[top[st]]], moved'.list = moved.list
  PROVE  /\ LinksInv'
         /\ On(st)' = On(st) \ {top[st]} /\ top[st] \in On(st)
         /\ \A t \in Stacks \ {st} : On(t)' = On(t)
         /\ Apart' = Apart
<1>. DEFINE h == top[st]
<1>0. h \in Segs /\ top \in [Stacks -> Link] /\ next \in [Segs -> Link]
  BY ListTypes DEF Link
<1>1. Chain(next, next[h]) = Chain(next, h) \ {h} /\ Acyclic(next, next[h])
  BY <1>0, PopChain DEF LinksInv
<1>2. h \in Chain(next, h)
  BY <1>0, ChainClosed, NullType, SegType
<1>3. ASSUME NEW s PROVE Chain(next', s) = Chain(next, s) /\ (Acyclic(next', s) <=> Acyclic(next, s))
  OBVIOUS
<1>4. top'[st] = next[h] /\ \A t \in Stacks \ {st} : top'[t] = top[t]
  BY <1>0
<1>5. LinksInv'
  BY <1>1, <1>3, <1>4 DEF LinksInv
<1>. QED
  BY <1>1, <1>2, <1>3, <1>4, <1>5 DEF On, Apart, ListFrom

LEMMA ListsPushed ==
  ASSUME TypeInv, LinksInv, NEW st \in Stacks, NEW S \in SUBSET Segs, Push(st, S),
         S \cap Apart = {}, \A t \in Stacks : S \cap On(t) = {}, moved'.list = moved.list
  PROVE  /\ LinksInv'
         /\ On(st)' = On(st) \cup S
         /\ \A t \in Stacks \ {st} : On(t)' = On(t)
         /\ Apart' = Apart
<1>0. /\ top \in [Stacks -> Link] /\ next \in [Segs -> Link] /\ moved.list \in Link
      /\ \A t \in Stacks : top[t] \in Link
  BY ListTypes
<1>a. /\ next' \in [Segs -> Link] /\ \A t \in Stacks \ {st} : top'[t] = top[t]
      /\ \A s \in Segs \ S : next'[s] = next[s]
  BY <1>0, PushTypes
<1>1. CASE S = {}
  <2>1. UNCHANGED <<top, next>>
    BY <1>1 DEF Push
  <2>. QED
    BY <1>1, <2>1, ListsKept
<1>2. CASE S # {}
  <2>1. /\ top'[st] = Least(S)
        /\ \A s \in Segs : next'[s] = IF s \in S THEN Linked(S, top[st])[s] ELSE next[s]
    BY <1>0, <1>2 DEF Push
  <2>2. Chain(next', Least(S)) = S \cup Chain(next, top[st]) /\ Acyclic(next', Least(S))
    BY <1>0, <1>2, <1>a, <2>1, PushChain DEF LinksInv, On, ListFrom
  <2>3. ASSUME NEW t \in Stacks \ {st}
        PROVE  Chain(next', top[t]) = Chain(next, top[t]) /\ Acyclic(next', top[t])
    <3>1. \A x \in Chain(next, top[t]) : next'[x] = next[x]
      BY <1>0, <1>a, ChainClosed DEF On, ListFrom
    <3>. QED
      BY <1>0, <1>a, <3>1, ChainFrame, AcyclicFrame DEF LinksInv
  <2>4. Chain(next', moved.list) = Chain(next, moved.list) /\ Acyclic(next', moved.list)
    <3>1. \A x \in Chain(next, moved.list) : next'[x] = next[x]
      BY <1>0, <1>a, ChainClosed DEF Apart, ListFrom
    <3>. QED
      BY <1>0, <1>a, <3>1, ChainFrame, AcyclicFrame DEF LinksInv
  <2>5. LinksInv'
    BY <1>a, <2>1, <2>2, <2>3, <2>4 DEF LinksInv
  <2>. QED
    BY <1>a, <2>1, <2>2, <2>3, <2>4, <2>5 DEF On, Apart, ListFrom
<1>. QED
  BY <1>1, <1>2

\* TakeMarked and PutMarked.
LEMMA ListsTaken ==
  ASSUME TypeInv, LinksInv, next' = next, moved.list = Null, moved'.list = top["partial"],
         top' = [top EXCEPT !["partial"] = Null]
  PROVE  /\ LinksInv'
         /\ On("partial")' = {} /\ Apart' = On("partial") /\ Apart = {}
         /\ \A t \in Stacks \ {"partial"} : On(t)' = On(t)
<1>0. top \in [Stacks -> Link] /\ next \in [Segs -> Link] /\ "partial" \in Stacks
  BY ListTypes DEF Stacks
<1>1. ASSUME NEW s PROVE Chain(next', s) = Chain(next, s) /\ (Acyclic(next', s) <=> Acyclic(next, s))
  OBVIOUS
<1>2. Chain(next, Null) = {} /\ Acyclic(next, Null)
  BY <1>0, ChainNull DEF Acyclic
<1>3. top'["partial"] = Null /\ \A t \in Stacks \ {"partial"} : top'[t] = top[t]
  BY <1>0
<1>4. LinksInv'
  BY <1>0, <1>1, <1>2, <1>3 DEF LinksInv
<1>. QED
  BY <1>1, <1>2, <1>3, <1>4 DEF On, Apart, ListFrom

LEMMA ListsPut ==
  ASSUME TypeInv, LinksInv, next' = next, top["marked"] = Null, moved'.list = Null,
         top' = [top EXCEPT !["marked"] = moved.list]
  PROVE  /\ LinksInv'
         /\ On("marked")' = Apart /\ Apart' = {} /\ On("marked") = {}
         /\ \A t \in Stacks \ {"marked"} : On(t)' = On(t)
<1>0. top \in [Stacks -> Link] /\ next \in [Segs -> Link] /\ "marked" \in Stacks
  BY ListTypes DEF Stacks
<1>1. ASSUME NEW s PROVE Chain(next', s) = Chain(next, s) /\ (Acyclic(next', s) <=> Acyclic(next, s))
  OBVIOUS
<1>2. Chain(next, Null) = {} /\ Acyclic(next, Null)
  BY <1>0, ChainNull DEF Acyclic
<1>3. top'["marked"] = moved.list /\ \A t \in Stacks \ {"marked"} : top'[t] = top[t]
  BY <1>0
<1>4. LinksInv'
  BY <1>0, <1>1, <1>2, <1>3 DEF LinksInv
<1>. QED
  BY <1>1, <1>2, <1>3, <1>4 DEF On, Apart, ListFrom

-----------------------------------------------------------------------------
(* Owners.                                                                  *)

Held == {"cur", "filled", "part", "own", "hand"}

\* Worker w has what it had, and what it got of M.
HeldBy(k, who, M, w) ==
  \A s \in Segs :
    /\ s = cur[w] <=> k[s] = "cur" /\ (s \in M \/ who[s] = w)
    /\ s \in filled[w] <=> k[s] = "filled" /\ (s \in M \/ who[s] = w)
    /\ s \in part[w] <=> k[s] = "part" /\ (s \in M \/ who[s] = w)
    /\ s \in free[w] <=> k[s] = "own" /\ (s \in M \/ who[s] = w)
    /\ s = loc[w].seg <=> k[s] = "hand" /\ (s \in M \/ who[s] = w)

\* The other workers have what they had.
OthersKeep(w) == \A u \in Workers \ {w} : /\ cur'[u] = cur[u] /\ filled'[u] = filled[u]
                                          /\ part'[u] = part[u] /\ free'[u] = free[u]
                                          /\ loc'[u].seg = loc[u].seg

\* Only the segments M of worker w, or of nobody, change their places.
Moved(kind, who, M, k2, w) == /\ \A s \in Segs \ M : k2[s] = kind[s]
                              /\ \A s \in M : kind[s] \in Held => who[s] = w

LEMMA OwnerMove ==
  ASSUME NEW kind, NEW who, OwnedBy(kind, who), LinksInv', NEW w \in Workers,
         NEW M \in SUBSET Segs, NEW k2 \in [Segs -> Kinds], Moved(kind, who, M, k2, w),
         InLists(k2)', InPool(k2)', OthersKeep(w), HeldBy(k2, who, M, w)'
  PROVE  OwnerInv'
<1>1. PICK who2 : who2 = [s \in Segs |-> IF s \in M THEN w ELSE who[s]]
  OBVIOUS
<1>2. WhoOf(k2, who2)
  BY <1>1 DEF WhoOf, OwnedBy, Moved, Held
<1>3. ASSUME NEW s \in Segs, NEW u \in Workers
      PROVE  /\ s = cur'[u] <=> k2[s] = "cur" /\ who2[s] = u
             /\ s \in filled'[u] <=> k2[s] = "filled" /\ who2[s] = u
             /\ s \in part'[u] <=> k2[s] = "part" /\ who2[s] = u
             /\ s \in free'[u] <=> k2[s] = "own" /\ who2[s] = u
             /\ s = loc'[u].seg <=> k2[s] = "hand" /\ who2[s] = u
  <2>1. CASE u = w
    BY <1>1, <2>1 DEF HeldBy
  <2>2. CASE u # w
    <3>1. /\ s = cur[u] <=> kind[s] = "cur" /\ who[s] = u
          /\ s \in filled[u] <=> kind[s] = "filled" /\ who[s] = u
          /\ s \in part[u] <=> kind[s] = "part" /\ who[s] = u
          /\ s \in free[u] <=> kind[s] = "own" /\ who[s] = u
          /\ s = loc[u].seg <=> kind[s] = "hand" /\ who[s] = u
      BY DEF OwnedBy, InHeaps
    <3>2. CASE s \in M
      BY <1>1, <2>2, <3>1, <3>2 DEF Held, Moved, OthersKeep
    <3>3. CASE s \notin M
      BY <1>1, <2>2, <3>1, <3>3 DEF Moved, OthersKeep
    <3>. QED
      BY <3>2, <3>3
  <2>. QED
    BY <2>1, <2>2
<1>4. InHeaps(k2, who2)'
  BY <1>3 DEF InHeaps
<1>5. OwnedBy(k2, who2)'
  BY <1>2, <1>4 DEF OwnedBy, WhoOf
<1>. QED
  BY <1>5 DEF OwnerInv

\* Segments change their lists.
LEMMA OwnerRelink ==
  ASSUME NEW kind, NEW who, OwnedBy(kind, who), LinksInv', NEW k2 \in [Segs -> Kinds],
         \A s \in Segs : k2[s] = kind[s] \/ (k2[s] \notin Held /\ kind[s] \notin Held),
         InLists(k2)', InPool(k2)', UNCHANGED <<cur, filled, part, free>>,
         \A u \in Workers : loc'[u].seg = loc[u].seg
  PROVE  OwnerInv'
<1>1. WhoOf(k2, who)'
  BY DEF OwnedBy, WhoOf, Held
<1>2. InHeaps(k2, who)'
  BY DEF OwnedBy, InHeaps, Held
<1>3. OwnedBy(k2, who)'
  BY <1>1, <1>2 DEF OwnedBy
<1>. QED
  BY <1>3 DEF OwnerInv

\* No segment changes its place.
LEMMA OwnerFrame ==
  ASSUME OwnerInv, UNCHANGED <<top, next, poolFilled, swept, alloced, cur, filled, part, free>>,
         moved'.list = moved.list, \A u \in Workers : loc'[u].seg = loc[u].seg
  PROVE  OwnerInv'
<1>1. PICK kind, who : OwnedBy(kind, who)
  BY DEF OwnerInv
<1>2. /\ LinksInv' /\ Apart' = Apart /\ \A st \in Stacks : On(st)' = On(st)
  BY ListsKept DEF OwnerInv
<1>3. InLists(kind)' /\ InPool(kind)'
  BY <1>1, <1>2 DEF OwnedBy, InLists, InPool, On, Apart
<1>4. kind \in [Segs -> Kinds]
  BY <1>1 DEF OwnedBy
<1>. QED
  BY <1>1, <1>2, <1>3, <1>4, OwnerRelink

LEMMA StackKinds == /\ Stacks \subseteq Kinds /\ Held \subseteq Kinds /\ Held \cap Stacks = {}
                    /\ {"moved", "dead", "swept", "unused"} \subseteq Kinds
                    /\ {"moved", "dead", "swept", "unused"} \cap (Stacks \cup Held) = {}
                    /\ Stacks = {"partial", "marked", "free"}
BY DEF Kinds, Stacks, Held

\* What the owners say of the sets.
LEMMA OwnerFacts ==
  ASSUME TypeInv, NEW kind, NEW who, OwnedBy(kind, who)
  PROVE  /\ kind \in [Segs -> Kinds]
         /\ \A s \in Segs, st \in Stacks : s \in On(st) <=> kind[s] = st
         /\ \A s \in Segs : s \in Apart <=> kind[s] = "moved"
         /\ \A s \in Segs : s \in poolFilled <=> kind[s] = "dead"
         /\ \A s \in Segs : s \in swept <=> kind[s] = "swept"
         /\ \A s \in Segs : s > alloced <=> kind[s] = "unused"
         /\ \A s \in Segs, w \in Workers : s = cur[w] <=> kind[s] = "cur" /\ who[s] = w
         /\ \A s \in Segs, w \in Workers : s \in filled[w] <=> kind[s] = "filled" /\ who[s] = w
         /\ \A s \in Segs, w \in Workers : s \in part[w] <=> kind[s] = "part" /\ who[s] = w
         /\ \A s \in Segs, w \in Workers : s \in free[w] <=> kind[s] = "own" /\ who[s] = w
         /\ \A s \in Segs, w \in Workers : s = loc[w].seg <=> kind[s] = "hand" /\ who[s] = w
BY DEF OwnedBy, InLists, InPool, InHeaps, On, Apart

\* From the lists of the next state.
LEMMA ListsIntro ==
  ASSUME NEW k2,
         \A s \in Segs, st \in Stacks : s \in On(st)' <=> k2[s] = st,
         \A s \in Segs : s \in Apart' <=> k2[s] = "moved"
  PROVE  InLists(k2)'
BY DEF InLists, On, Apart

LEMMA PopLoadOwner ==
  ASSUME ControlInv, OwnerInv, NEW w \in Workers, PopLoad(w) PROVE OwnerInv'
<1>1. PICK l \in Labels, r \in LocalType : PopLoads(w, l, r)
  BY PopLoadMoves DEF ControlInv
<1>2. UNCHANGED <<top, next, poolFilled, swept, alloced, cur, filled, part, free, moved>>
      /\ loc[w].seg = Null
  BY DEF PopLoad, own, shared, rounds, ControlInv, LocalInv, LocalOf
<1>. QED
  BY <1>1, <1>2, OwnerFrame DEF PopLoads, Moves

LEMMA PopCasOwner ==
  ASSUME ControlInv, OwnerInv, NEW w \in Workers, PopCas(w), ~raced' PROVE OwnerInv'
<1>1. PICK l \in Labels, r \in LocalType : PopCases(w, l, r)
  BY PopCasMoves DEF ControlInv
<1>2. /\ UNCHANGED <<next, poolFilled, swept, alloced, cur, filled, part, free, moved>>
      /\ loc[w].seg = Null /\ loc[w].old # Null /\ loc[w].st \in Stacks /\ TypeInv
  BY DEF PopCas, own, rounds, ControlInv, LocalInv, LocalOf
<1>3. CASE r = loc[w] /\ UNCHANGED top
  BY <1>1, <1>2, <1>3, OwnerFrame DEF PopCases, Moves
<1>4. CASE ~(r = loc[w] /\ UNCHANGED top)
  <2>0. PICK st \in Stacks : st = loc[w].st
    BY <1>2
  <2>2. PICK h \in Segs : h = loc[w].old
    BY <1>2, FieldTypes DEF TypeInv, Link
  <2>1. r.seg = h /\ top[st] = h /\ top' = [top EXCEPT ![st] = next[h]]
    BY <1>1, <1>4, <2>0, <2>2 DEF PopCases
  <2>3. /\ LinksInv' /\ On(st)' = On(st) \ {h} /\ h \in On(st)
        /\ \A t \in Stacks \ {st} : On(t)' = On(t)
        /\ Apart' = Apart
    <3>1. top[st] # Null /\ top' = [top EXCEPT ![st] = next[top[st]]] /\ next' = next
          /\ moved'.list = moved.list /\ LinksInv /\ TypeInv /\ st \in Stacks
      BY <1>2, <2>1, <2>2, SegType DEF OwnerInv
    <3>. QED
      BY <2>1, <3>1, ListsPopped
  <2>4. PICK kind, who : OwnedBy(kind, who)
    BY DEF OwnerInv
  <2>5. PICK M : M = {h}
    OBVIOUS
  <2>6. PICK k2 : k2 = [s \in Segs |-> IF s \in M THEN "hand" ELSE kind[s]]
    OBVIOUS
  <2>a. kind[h] = st /\ M \in SUBSET Segs /\ k2 \in [Segs -> Kinds] /\ k2[h] = "hand"
    BY <1>2, <2>2, <2>3, <2>4, <2>5, <2>6, OwnerFacts DEF Kinds
  <2>7. InLists(k2)'
    <3>1. /\ \A s \in Segs, t \in Stacks : s \in On(t) <=> kind[s] = t
          /\ \A s \in Segs : s \in Apart <=> kind[s] = "moved"
      BY <1>2, <2>4, OwnerFacts
    <3>2. \A s \in Segs, t \in Stacks : s \in On(t)' <=> k2[s] = t
      BY <2>3, <2>5, <2>6, <2>a, <3>1, StackKinds DEF Held
    <3>3. \A s \in Segs : s \in Apart' <=> k2[s] = "moved"
      BY <2>3, <2>5, <2>6, <2>a, <3>1, StackKinds
    <3>. QED
      BY <3>2, <3>3, ListsIntro
  <2>8. InPool(k2)'
    BY <1>2, <2>4, <2>5, <2>6, <2>a, OwnerFacts, StackKinds DEF InPool, Held
  <2>9. HeldBy(k2, who, M, w)'
    BY <1>1, <1>2, <2>1, <2>4, <2>5, <2>6, <2>a, OwnerFacts, StackKinds, SegType DEF HeldBy, Held, PopCases, Moves
  <2>10. OthersKeep(w)
    BY <1>1, <1>2 DEF PopCases, Moves, OthersKeep
  <2>11. Moved(kind, who, M, k2, w)
    BY <1>2, <2>5, <2>6, <2>a, StackKinds DEF Moved
  <2>. QED
    BY <2>3, <2>4, <2>7, <2>8, <2>9, <2>10, <2>11, <2>a, OwnerMove
<1>. QED
  BY <1>3, <1>4

\* allocate_segment takes the next segment.
LEMMA NewSegment ==
  ASSUME ControlInv, OwnerInv, NEW w \in Workers,
         UNCHANGED <<top, next, poolFilled, swept, cur, filled, part, free, moved>>,
         alloced \in Nat, alloced + 1 \in Segs, alloced' = alloced + 1,
         loc[w].seg = Null, loc'[w].seg = alloced + 1,
         \A u \in Workers \ {w} : loc'[u] = loc[u]
  PROVE  OwnerInv'
<1>0. TypeInv /\ LinksInv
  BY DEF ControlInv, OwnerInv
<1>1. /\ UNCHANGED <<top, next, poolFilled, swept, cur, filled, part, free, moved>>
      /\ alloced \in Nat /\ alloced + 1 \in Segs /\ alloced' = alloced + 1
      /\ loc[w].seg = Null /\ loc'[w].seg = alloced + 1
      /\ \A u \in Workers \ {w} : loc'[u] = loc[u]
  OBVIOUS
<1>2. LinksInv' /\ (\A t \in Stacks : On(t)' = On(t)) /\ Apart' = Apart
  BY <1>0, <1>1, ListsKept
<1>3. PICK kind, who : OwnedBy(kind, who)
  BY DEF OwnerInv
<1>4. PICK M : M = {alloced + 1}
  OBVIOUS
<1>5. PICK k2 : k2 = [s \in Segs |-> IF s \in M THEN "hand" ELSE kind[s]]
  OBVIOUS
<1>a. /\ \A s \in Segs, t \in Stacks : s \in On(t) <=> kind[s] = t
      /\ \A s \in Segs : s \in Apart <=> kind[s] = "moved"
      /\ kind \in [Segs -> Kinds]
  BY <1>0, <1>3, OwnerFacts
<1>6. /\ M \in SUBSET Segs /\ k2 \in [Segs -> Kinds] /\ kind[alloced + 1] = "unused"
      /\ \A s \in Segs : s > alloced' <=> s > alloced /\ s \notin M
  <2>1. kind[alloced + 1] = "unused"
    BY <1>0, <1>1, <1>3, OwnerFacts
  <2>. QED
    BY <1>1, <1>4, <1>5, <1>a, <2>1, StackKinds DEF Held, Segs
<1>7. InLists(k2)'
  <2>1. \A s \in Segs, t \in Stacks : s \in On(t)' <=> k2[s] = t
    BY <1>2, <1>4, <1>5, <1>6, <1>a, StackKinds DEF Held
  <2>2. \A s \in Segs : s \in Apart' <=> k2[s] = "moved"
    BY <1>2, <1>4, <1>5, <1>6, <1>a, StackKinds
  <2>. QED
    BY <2>1, <2>2, ListsIntro
<1>8. InPool(k2)'
  BY <1>0, <1>1, <1>3, <1>4, <1>5, <1>6, OwnerFacts, StackKinds DEF InPool, Held
<1>9. HeldBy(k2, who, M, w)'
  BY <1>0, <1>1, <1>3, <1>4, <1>5, <1>6, OwnerFacts, StackKinds, SegType DEF HeldBy, Held
<1>10. OthersKeep(w)
  BY <1>0, <1>1 DEF OthersKeep, TypeInv, TypeOK
<1>11. Moved(kind, who, M, k2, w)
  BY <1>0, <1>1, <1>3, <1>4, <1>5, <1>6, OwnerFacts, StackKinds DEF Moved, Held
<1>. QED
  BY <1>2, <1>3, <1>6, <1>7, <1>8, <1>9, <1>10, <1>11, OwnerMove

LEMMA ExtendOwner ==
  ASSUME ControlInv, OwnerInv, NEW w \in Workers, Extend(w) PROVE OwnerInv'
<1>1. PICK l \in Labels, r \in LocalType : Extends(w, l, r)
  BY ExtendMoves DEF ControlInv
<1>2. /\ UNCHANGED <<top, next, poolFilled, swept, cur, filled, part, free, moved>>
      /\ loc[w].seg = Null
  BY DEF Extend, own, rounds, ControlInv, LocalInv, LocalOf
<1>3. CASE alloced' = alloced
  <2>1. r = loc[w]
    BY <1>1, <1>3 DEF Extends, ControlInv, TypeInv, TypeOK
  <2>. QED
    BY <1>1, <1>2, <1>3, <2>1, OwnerFrame DEF Extends, Moves
<1>4. CASE alloced' = alloced + 1
  <2>1. alloced + 1 \in Segs /\ alloced \in Nat /\ r.seg = alloced + 1
    BY <1>1, <1>4 DEF Extends, ControlInv, TypeInv, TypeOK
  <2>. QED
    BY <1>1, <1>2, <1>4, <2>1, NewSegment DEF Extends, Moves
<1>. QED
  BY <1>1, <1>3, <1>4 DEF Extends

LEMMA UseFoundOwner ==
  ASSUME ControlInv, OwnerInv, NEW w \in Workers, UseFound(w) PROVE OwnerInv'
<1>0. TypeInv /\ LinksInv
  BY DEF ControlInv, OwnerInv
<1>b. PICK h \in Segs : h = loc[w].seg
  BY <1>0, FieldTypes DEF UseFound, ControlInv, LocalInv, LocalOf, TypeInv, Link
<1>1. /\ UNCHANGED <<top, next, poolFilled, swept, alloced, filled, part, free, moved>>
      /\ cur[w] = Null /\ cur'[w] = h /\ h # Null /\ loc[w].seg = h /\ loc'[w].seg = Null
      /\ \A u \in Workers \ {w} : cur'[u] = cur[u] /\ loc'[u] = loc[u]
  <2>1. cur[w] = Null
    BY <1>0, FieldTypes DEF UseFound, ControlInv, LocalInv, LocalOf, HeapInv, HeapOf, TypeInv, Finding,
       Registering, InPoolCode
  <2>2. cur' = [cur EXCEPT ![w] = h] /\ loc' = [loc EXCEPT ![w] = Local]
    BY <1>b DEF UseFound, SetAllocPtr
  <2>3. UNCHANGED <<top, next, poolFilled, swept, alloced, filled, part, free, moved>>
    BY DEF UseFound, shared, rounds
  <2>. QED
    BY <1>0, <1>b, <2>1, <2>2, <2>3, NoLocals, SegType DEF TypeInv, TypeOK
<1>2. LinksInv' /\ (\A t \in Stacks : On(t)' = On(t)) /\ Apart' = Apart
  BY <1>0, <1>1, ListsKept
<1>3. PICK kind, who : OwnedBy(kind, who)
  BY DEF OwnerInv
<1>4. PICK M : M = {h}
  OBVIOUS
<1>5. PICK k2 : k2 = [s \in Segs |-> IF s \in M THEN "cur" ELSE kind[s]]
  OBVIOUS
<1>a. /\ \A s \in Segs, t \in Stacks : s \in On(t) <=> kind[s] = t
      /\ \A s \in Segs : s \in Apart <=> kind[s] = "moved"
      /\ kind \in [Segs -> Kinds]
  BY <1>0, <1>3, OwnerFacts
<1>6. /\ M \in SUBSET Segs /\ k2 \in [Segs -> Kinds] /\ kind[h] = "hand" /\ who[h] = w
  BY <1>0, <1>1, <1>3, <1>4, <1>5, <1>a, <1>b, OwnerFacts, StackKinds DEF Held
<1>7. InLists(k2)'
  <2>1. \A s \in Segs, t \in Stacks : s \in On(t)' <=> k2[s] = t
    BY <1>2, <1>4, <1>5, <1>6, <1>a, StackKinds DEF Held
  <2>2. \A s \in Segs : s \in Apart' <=> k2[s] = "moved"
    BY <1>2, <1>4, <1>5, <1>6, <1>a, StackKinds
  <2>. QED
    BY <2>1, <2>2, ListsIntro
<1>8. InPool(k2)'
  BY <1>0, <1>1, <1>3, <1>4, <1>5, <1>6, OwnerFacts, StackKinds DEF InPool, Held
<1>9. HeldBy(k2, who, M, w)'
  BY <1>0, <1>1, <1>3, <1>4, <1>5, <1>6, OwnerFacts, StackKinds, SegType DEF HeldBy, Held
<1>10. OthersKeep(w)
  BY <1>0, <1>1 DEF OthersKeep, TypeInv, TypeOK
<1>11. Moved(kind, who, M, k2, w)
  BY <1>0, <1>1, <1>3, <1>4, <1>5, <1>6, OwnerFacts, StackKinds DEF Moved, Held
<1>. QED
  BY <1>2, <1>3, <1>6, <1>7, <1>8, <1>9, <1>10, <1>11, OwnerMove

LEMMA TakePartialOwner ==
  ASSUME ControlInv, OwnerInv, NEW w \in Workers, NEW s0 \in Segs, TakePartial(w, s0) PROVE OwnerInv'
<1>0. TypeInv /\ LinksInv
  BY DEF ControlInv, OwnerInv
<1>b. PICK c \in Link : c = cur[w]
  BY <1>0 DEF TypeInv, TypeOK, Link
<1>1. /\ UNCHANGED <<top, next, poolFilled, swept, alloced, free, moved>>
      /\ cur[w] = c /\ cur'[w] = s0 /\ s0 \in part[w] /\ part'[w] = part[w] \ {s0}
      /\ filled'[w] = filled[w] \cup ({c} \ {Null}) /\ loc[w].seg = Null /\ loc'[w].seg = Null
      /\ \A u \in Workers \ {w} : /\ cur'[u] = cur[u] /\ loc'[u] = loc[u]
                                  /\ part'[u] = part[u] /\ filled'[u] = filled[u]
  <2>1. loc[w].seg = Null
    BY DEF TakePartial, ControlInv, LocalInv, LocalOf
  <2>2. cur' = [cur EXCEPT ![w] = s0] /\ loc' = [loc EXCEPT ![w] = Local]
    BY DEF TakePartial
  <2>3. UNCHANGED <<top, next, poolFilled, swept, alloced, free, moved>>
    BY DEF TakePartial, shared, rounds
  <2>4. /\ s0 \in part[w] /\ part' = [part EXCEPT ![w] = part[w] \ {s0}]
        /\ filled' = [filled EXCEPT ![w] = filled[w] \cup ({c} \ {Null})]
    BY <1>b DEF TakePartial, Release
  <2>. QED
    BY <1>0, <1>b, <2>1, <2>2, <2>3, <2>4, NoLocals DEF TypeInv, TypeOK
<1>2. LinksInv' /\ (\A t \in Stacks : On(t)' = On(t)) /\ Apart' = Apart
  BY <1>0, <1>1, ListsKept
<1>3. PICK kind, who : OwnedBy(kind, who)
  BY DEF OwnerInv
<1>4. PICK M : M = {s0} \cup ({c} \ {Null})
  OBVIOUS
<1>5. PICK k2 : k2 = [s \in Segs |-> IF s = s0 THEN "cur" ELSE IF s \in M THEN "filled" ELSE kind[s]]
  OBVIOUS
<1>a. /\ \A s \in Segs, t \in Stacks : s \in On(t) <=> kind[s] = t
      /\ \A s \in Segs : s \in Apart <=> kind[s] = "moved"
      /\ kind \in [Segs -> Kinds]
  BY <1>0, <1>3, OwnerFacts
<1>6. /\ M \in SUBSET Segs /\ k2 \in [Segs -> Kinds] /\ kind[s0] = "part" /\ who[s0] = w
      /\ c # Null => c \in Segs /\ kind[c] = "cur" /\ who[c] = w
  <2>1. c # Null => c \in Segs /\ kind[c] = "cur" /\ who[c] = w
    BY <1>0, <1>1, <1>3, <1>b, OwnerFacts DEF Link
  <2>. QED
    BY <1>0, <1>1, <1>3, <1>4, <1>5, <1>a, <2>1, OwnerFacts, StackKinds DEF Held
<1>7. InLists(k2)'
  <2>1. \A s \in Segs, t \in Stacks : s \in On(t)' <=> k2[s] = t
    BY <1>2, <1>4, <1>5, <1>6, <1>a, StackKinds DEF Held
  <2>2. \A s \in Segs : s \in Apart' <=> k2[s] = "moved"
    BY <1>2, <1>4, <1>5, <1>6, <1>a, StackKinds
  <2>. QED
    BY <2>1, <2>2, ListsIntro
<1>8. InPool(k2)'
  BY <1>0, <1>1, <1>3, <1>4, <1>5, <1>6, OwnerFacts, StackKinds DEF InPool, Held
<1>9. HeldBy(k2, who, M, w)'
  BY <1>0, <1>1, <1>3, <1>4, <1>5, <1>6, OwnerFacts, StackKinds, SegType DEF HeldBy, Held
<1>10. OthersKeep(w)
  BY <1>0, <1>1 DEF OthersKeep, TypeInv, TypeOK
<1>11. Moved(kind, who, M, k2, w)
  BY <1>0, <1>1, <1>3, <1>4, <1>5, <1>6, OwnerFacts, StackKinds DEF Moved, Held
<1>. QED
  BY <1>2, <1>3, <1>6, <1>7, <1>8, <1>9, <1>10, <1>11, OwnerMove

LEMMA FindSegmentOwner ==
  ASSUME ControlInv, OwnerInv, NEW w \in Workers, FindSegment(w) PROVE OwnerInv'
<1>0. TypeInv /\ LinksInv
  BY DEF ControlInv, OwnerInv
<1>b. PICK l \in Labels, r \in LocalType : Finds(w, l, r)
  BY <1>0, FindSegmentMoves
<1>c. PICK c \in Link : c = cur[w]
  BY <1>0 DEF TypeInv, TypeOK, Link
<1>d. PICK h \in Link : h = r.seg
  BY FieldTypes
<1>1. /\ UNCHANGED <<top, next, poolFilled, swept, alloced, part, moved>>
      /\ cur[w] = c /\ cur'[w] = Null /\ filled'[w] = filled[w] \cup ({c} \ {Null})
      /\ loc[w].seg = Null /\ loc'[w].seg = h
      /\ free'[w] = free[w] \ {h} /\ (h # Null => h \in free[w])
      /\ \A u \in Workers \ {w} : /\ cur'[u] = cur[u] /\ loc'[u] = loc[u]
                                  /\ free'[u] = free[u] /\ filled'[u] = filled[u]
  <2>1. loc[w].seg = Null
    BY DEF FindSegment, ControlInv, LocalInv, LocalOf
  <2>2. cur' = [cur EXCEPT ![w] = Null]
    BY DEF FindSegment
  <2>3. UNCHANGED <<top, next, poolFilled, swept, alloced, part, moved>>
    BY DEF FindSegment, shared, rounds
  <2>4. filled' = [filled EXCEPT ![w] = filled[w] \cup ({c} \ {Null})]
    BY <1>c DEF FindSegment, Release
  <2>5. Moves(w, l, r)
    BY <1>b DEF Finds
  <2>6. \/ h = Null /\ free' = free
        \/ h \in free[w] /\ free' = [free EXCEPT ![w] = free[w] \ {h}]
    BY <1>b, <1>d, <2>1 DEF Finds
  <2>7. Null \notin free[w]
    BY <1>0, SegType DEF TypeInv
  <2>. QED
    BY <1>0, <1>c, <1>d, <2>1, <2>2, <2>3, <2>4, <2>5, <2>6, <2>7 DEF TypeInv, TypeOK, Moves
<1>2. LinksInv' /\ (\A t \in Stacks : On(t)' = On(t)) /\ Apart' = Apart
  BY <1>0, <1>1, ListsKept
<1>3. PICK kind, who : OwnedBy(kind, who)
  BY DEF OwnerInv
<1>4. PICK M : M = ({h} \cup {c}) \ {Null}
  OBVIOUS
<1>5. PICK k2 : k2 = [s \in Segs |-> IF s = h THEN "hand" ELSE IF s \in M THEN "filled" ELSE kind[s]]
  OBVIOUS
<1>a. /\ \A s \in Segs, t \in Stacks : s \in On(t) <=> kind[s] = t
      /\ \A s \in Segs : s \in Apart <=> kind[s] = "moved"
      /\ kind \in [Segs -> Kinds]
  BY <1>0, <1>3, OwnerFacts
<1>6. /\ M \in SUBSET Segs /\ k2 \in [Segs -> Kinds]
      /\ h # Null => h \in Segs /\ kind[h] = "own" /\ who[h] = w
      /\ c # Null => c \in Segs /\ kind[c] = "cur" /\ who[c] = w
      /\ \A s \in M : kind[s] \in Held /\ k2[s] \in Held
      /\ \A s \in Segs \ M : k2[s] = kind[s]
  <2>1. c # Null => c \in Segs /\ kind[c] = "cur" /\ who[c] = w
    BY <1>0, <1>1, <1>3, <1>c, OwnerFacts DEF Link
  <2>2. h # Null => h \in Segs /\ kind[h] = "own" /\ who[h] = w
    BY <1>0, <1>1, <1>3, <1>d, OwnerFacts DEF Link
  <2>3. M \in SUBSET Segs
    BY <1>4, <2>1, <2>2
  <2>4. \A s \in M : kind[s] \in Held /\ k2[s] \in Held
    BY <1>4, <1>5, <2>1, <2>2, <2>3 DEF Held
  <2>5. \A s \in Segs \ M : k2[s] = kind[s]
    BY <1>4, <1>5, <2>1, <2>2, SegType
  <2>6. k2 \in [Segs -> Kinds]
    BY <1>5, <1>a, StackKinds DEF Held
  <2>. QED
    BY <2>1, <2>2, <2>3, <2>4, <2>5, <2>6
<1>7. InLists(k2)'
  <2>1. \A s \in Segs, t \in Stacks : s \in On(t)' <=> k2[s] = t
    BY <1>2, <1>6, <1>a, StackKinds
  <2>2. \A s \in Segs : s \in Apart' <=> k2[s] = "moved"
    BY <1>2, <1>6, <1>a, StackKinds
  <2>. QED
    BY <2>1, <2>2, ListsIntro
<1>8. InPool(k2)'
  BY <1>0, <1>1, <1>3, <1>4, <1>5, <1>6, OwnerFacts, StackKinds DEF InPool, Held
<1>9. HeldBy(k2, who, M, w)'
  BY <1>0, <1>1, <1>3, <1>4, <1>5, <1>6, OwnerFacts, StackKinds, SegType DEF HeldBy, Held
<1>10. OthersKeep(w)
  BY <1>0, <1>1 DEF OthersKeep, TypeInv, TypeOK
<1>11. Moved(kind, who, M, k2, w)
  BY <1>0, <1>1, <1>3, <1>4, <1>5, <1>6, OwnerFacts, StackKinds DEF Moved, Held
<1>. QED
  BY <1>2, <1>3, <1>6, <1>7, <1>8, <1>9, <1>10, <1>11, OwnerMove

LEMMA TakeMarkedOwner ==
  ASSUME ControlInv, OwnerInv, TakeMarked PROVE OwnerInv'
<1>0. TypeInv /\ LinksInv
  BY DEF ControlInv, OwnerInv
<1>1. /\ UNCHANGED <<next, poolFilled, swept, alloced, cur, filled, part, free, loc>>
      /\ top' = [top EXCEPT !["partial"] = Null] /\ moved.list = Null /\ moved'.list = top["partial"]
  BY DEF TakeMarked, own, ControlInv, CycleInv
<1>2. /\ LinksInv' /\ On("partial")' = {} /\ Apart' = On("partial") /\ Apart = {}
      /\ \A t \in Stacks \ {"partial"} : On(t)' = On(t)
  BY <1>0, <1>1, ListsTaken
<1>3. PICK kind, who : OwnedBy(kind, who)
  BY DEF OwnerInv
<1>5. PICK k2 : k2 = [s \in Segs |-> IF kind[s] = "partial" THEN "moved" ELSE kind[s]]
  OBVIOUS
<1>a. /\ \A s \in Segs, t \in Stacks : s \in On(t) <=> kind[s] = t
      /\ \A s \in Segs : s \in Apart <=> kind[s] = "moved"
      /\ kind \in [Segs -> Kinds]
  BY <1>0, <1>3, OwnerFacts
<1>6. k2 \in [Segs -> Kinds]
  BY <1>5, <1>a, StackKinds
<1>7. InLists(k2)'
  <2>1. \A s \in Segs, t \in Stacks : s \in On(t)' <=> k2[s] = t
    BY <1>2, <1>5, <1>a, StackKinds
  <2>2. \A s \in Segs : s \in Apart' <=> k2[s] = "moved"
    BY <1>2, <1>5, <1>a, StackKinds
  <2>. QED
    BY <2>1, <2>2, ListsIntro
<1>8. InPool(k2)'
  BY <1>0, <1>1, <1>3, <1>5, OwnerFacts, StackKinds DEF InPool
<1>9. \A s \in Segs : k2[s] = kind[s] \/ (k2[s] \notin Held /\ kind[s] \notin Held)
  BY <1>5, StackKinds DEF Held
<1>10. \A u \in Workers : loc'[u].seg = loc[u].seg
  BY <1>1
<1>11. UNCHANGED <<cur, filled, part, free>>
  BY <1>1
<1>. QED
  BY <1>2, <1>3, <1>6, <1>7, <1>8, <1>9, <1>10, <1>11, OwnerRelink

LEMMA PutMarkedOwner ==
  ASSUME ControlInv, OwnerInv, PutMarked PROVE OwnerInv'
<1>0. TypeInv /\ LinksInv
  BY DEF ControlInv, OwnerInv
<1>1. /\ UNCHANGED <<next, poolFilled, swept, alloced, cur, filled, part, free, loc>>
      /\ top' = [top EXCEPT !["marked"] = moved.list] /\ moved'.list = Null /\ top["marked"] = Null
  BY DEF PutMarked, own, ControlInv, CycleInv, MARK, ASYNC
<1>2. /\ LinksInv' /\ On("marked")' = Apart /\ Apart' = {} /\ On("marked") = {}
      /\ \A t \in Stacks \ {"marked"} : On(t)' = On(t)
  BY <1>0, <1>1, ListsPut
<1>3. PICK kind, who : OwnedBy(kind, who)
  BY DEF OwnerInv
<1>5. PICK k2 : k2 = [s \in Segs |-> IF kind[s] = "moved" THEN "marked" ELSE kind[s]]
  OBVIOUS
<1>a. /\ \A s \in Segs, t \in Stacks : s \in On(t) <=> kind[s] = t
      /\ \A s \in Segs : s \in Apart <=> kind[s] = "moved"
      /\ kind \in [Segs -> Kinds]
  BY <1>0, <1>3, OwnerFacts
<1>6. k2 \in [Segs -> Kinds]
  BY <1>5, <1>a, StackKinds
<1>7. InLists(k2)'
  <2>1. \A s \in Segs, t \in Stacks : s \in On(t)' <=> k2[s] = t
    BY <1>2, <1>5, <1>a, StackKinds
  <2>2. \A s \in Segs : s \in Apart' <=> k2[s] = "moved"
    BY <1>2, <1>5, <1>a, StackKinds
  <2>. QED
    BY <2>1, <2>2, ListsIntro
<1>8. InPool(k2)'
  BY <1>0, <1>1, <1>3, <1>5, OwnerFacts, StackKinds DEF InPool
<1>9. \A s \in Segs : k2[s] = kind[s] \/ (k2[s] \notin Held /\ kind[s] \notin Held)
  BY <1>5, StackKinds DEF Held
<1>10. \A u \in Workers : loc'[u].seg = loc[u].seg
  BY <1>1
<1>11. UNCHANGED <<cur, filled, part, free>>
  BY <1>1
<1>. QED
  BY <1>2, <1>3, <1>6, <1>7, <1>8, <1>9, <1>10, <1>11, OwnerRelink

LEMMA KillOwner ==
  ASSUME ControlInv, OwnerInv, NEW w \in Workers, Kill(w) PROVE OwnerInv'
<1>0. TypeInv /\ LinksInv
  BY DEF ControlInv, OwnerInv
<1>b. PICK c \in Link : c = cur[w]
  BY <1>0 DEF TypeInv, TypeOK, Link
<1>c. PICK f \in SUBSET Segs : f = free[w]
  BY <1>0 DEF TypeInv
<1>d. PICK fp \in SUBSET Segs : fp = filled[w] \cup part[w]
  BY <1>0 DEF TypeInv
<1>1. /\ UNCHANGED <<swept, alloced, moved, loc>> /\ Push("free", f)
      /\ cur[w] = c /\ cur'[w] = Null /\ filled'[w] = {} /\ part'[w] = {} /\ free'[w] = {}
      /\ free[w] = f /\ fp = filled[w] \cup part[w]
      /\ poolFilled' = poolFilled \cup fp \cup ({c} \ {Null})
      /\ \A u \in Workers \ {w} : /\ cur'[u] = cur[u] /\ filled'[u] = filled[u]
                                  /\ part'[u] = part[u] /\ free'[u] = free[u]
      /\ loc[w].seg = Null
  <2>1. loc[w].seg = Null
    BY DEF Kill, ControlInv, LocalInv, LocalOf
  <2>. QED
    BY <1>0, <1>b, <1>c, <1>d, <2>1 DEF Kill, TypeInv, TypeOK
<1>2. /\ LinksInv' /\ On("free")' = On("free") \cup f
      /\ (\A t \in Stacks \ {"free"} : On(t)' = On(t)) /\ Apart' = Apart
  <2>1. PICK kind, who : OwnedBy(kind, who)
    BY DEF OwnerInv
  <2>2. f \cap Apart = {} /\ \A t \in Stacks : f \cap On(t) = {}
    BY <1>0, <1>1, <2>1, OwnerFacts, StackKinds DEF Held
  <2>3. f \in SUBSET Segs /\ "free" \in Stacks
    BY <1>0, <1>1, StackKinds DEF TypeInv
  <2>. QED
    BY <1>0, <1>1, <2>2, <2>3, ListsPushed
<1>3. PICK kind, who : OwnedBy(kind, who)
  BY DEF OwnerInv
<1>4. PICK M : M = f \cup fp \cup ({c} \ {Null})
  OBVIOUS
<1>5. PICK k2 : k2 = [s \in Segs |-> IF s \in f THEN "free" ELSE IF s \in M THEN "dead" ELSE kind[s]]
  OBVIOUS
<1>a. /\ \A s \in Segs, t \in Stacks : s \in On(t) <=> kind[s] = t
      /\ \A s \in Segs : s \in Apart <=> kind[s] = "moved"
      /\ kind \in [Segs -> Kinds]
  BY <1>0, <1>3, OwnerFacts
<1>6. /\ M \in SUBSET Segs /\ k2 \in [Segs -> Kinds]
      /\ \A s \in M : kind[s] \in Held /\ k2[s] \notin Held /\ who[s] = w
      /\ \A s \in f : k2[s] = "free"
      /\ \A s \in M \ f : k2[s] = "dead"
      /\ \A s \in Segs \ M : k2[s] = kind[s] /\ (s \in f <=> FALSE)
      /\ \A s \in Segs : kind[s] \in Held /\ who[s] = w => s \in M
      /\ f \subseteq M /\ \A s \in Segs : s \in fp \cup ({c} \ {Null}) <=> s \in M \ f
  <2>1. c # Null => c \in Segs /\ kind[c] = "cur" /\ who[c] = w
    BY <1>0, <1>1, <1>3, <1>b, OwnerFacts DEF Link
  <2>2. \A s \in f : kind[s] = "own" /\ who[s] = w
    BY <1>0, <1>1, <1>3, OwnerFacts
  <2>3. \A s \in fp : kind[s] \in {"filled", "part"} /\ who[s] = w
    BY <1>0, <1>1, <1>3, OwnerFacts
  <2>4. M \in SUBSET Segs /\ f \subseteq M
    BY <1>4, <2>1
  <2>5. \A s \in M : kind[s] \in Held /\ who[s] = w
    BY <1>4, <2>1, <2>2, <2>3 DEF Held
  <2>6. \A s \in M : k2[s] = IF s \in f THEN "free" ELSE "dead"
    BY <1>4, <1>5, <2>4
  <2>7. \A s \in Segs \ M : k2[s] = kind[s] /\ s \notin f
    BY <1>4, <1>5
  <2>8. \A s \in Segs : kind[s] \in Held /\ who[s] = w => s \in M
    BY <1>0, <1>1, <1>3, <1>4, OwnerFacts, SegType DEF Held
  <2>9. k2 \in [Segs -> Kinds]
    BY <1>5, <1>a, StackKinds
  <2>10. \A s \in Segs : s \in fp \cup ({c} \ {Null}) <=> s \in M \ f
    BY <1>4, <2>1, <2>2, <2>3
  <2>. QED
    BY <2>4, <2>5, <2>6, <2>7, <2>8, <2>9, <2>10, StackKinds DEF Held
<1>7. InLists(k2)'
  <2>1. \A s \in Segs, t \in Stacks : s \in On(t)' <=> k2[s] = t
    BY <1>2, <1>4, <1>5, <1>6, <1>a, StackKinds DEF Held
  <2>2. \A s \in Segs : s \in Apart' <=> k2[s] = "moved"
    BY <1>2, <1>4, <1>5, <1>6, <1>a, StackKinds
  <2>. QED
    BY <2>1, <2>2, ListsIntro
<1>8. InPool(k2)'
  BY <1>0, <1>1, <1>3, <1>4, <1>5, <1>6, OwnerFacts, StackKinds DEF InPool, Held
<1>9. HeldBy(k2, who, M, w)'
  BY <1>0, <1>1, <1>3, <1>4, <1>5, <1>6, OwnerFacts, StackKinds, SegType DEF HeldBy, Held
<1>10. OthersKeep(w)
  BY <1>0, <1>1 DEF OthersKeep, TypeInv, TypeOK
<1>11. Moved(kind, who, M, k2, w)
  BY <1>0, <1>1, <1>3, <1>4, <1>5, <1>6, OwnerFacts, StackKinds DEF Moved, Held
<1>. QED
  BY <1>2, <1>3, <1>6, <1>7, <1>8, <1>9, <1>10, <1>11, OwnerMove

LEMMA AsyncOwner ==
  ASSUME ControlInv, OwnerInv, NEW w \in Workers, NEW empty \in SUBSET Segs, NEW some \in SUBSET Segs, Async(w, empty, some) PROVE OwnerInv'
<1>0. TypeInv /\ LinksInv
  BY DEF ControlInv, OwnerInv
<1>c. PICK f \in SUBSET Segs : f = free[w]
  BY <1>0 DEF TypeInv
<1>1. /\ UNCHANGED <<swept, alloced, moved, cur, poolFilled>> /\ Push("free", f)
      /\ filled'[w] = filled[w] \ (empty \cup some) /\ part'[w] = (part[w] \ empty) \cup some
      /\ free'[w] = empty /\ free[w] = f /\ empty \subseteq part[w] \cup filled[w]
      /\ some \subseteq filled[w] \ empty
      /\ \A u \in Workers \ {w} : /\ filled'[u] = filled[u] /\ loc'[u] = loc[u]
                                  /\ part'[u] = part[u] /\ free'[u] = free[u]
      /\ loc[w].seg = Null /\ loc'[w].seg = Null
  <2>1. AsyncDoes(w, empty, some)
    BY AsyncFacts
  <2>2. loc[w].seg = Null
    BY <2>1 DEF AsyncDoes, ControlInv, LocalInv, LocalOf
  <2>3. PICK l \in Labels, r \in LocalType : Asyncs(w, l, r)
    BY <1>0, AsyncMoves
  <2>4. loc'[w].seg = Null /\ \A u \in Workers \ {w} : loc'[u] = loc[u]
    BY <2>2, <2>3 DEF Asyncs, Moves
  <2>. QED
    BY <1>0, <1>c, <2>1, <2>2, <2>4 DEF AsyncDoes, Reclaimable, TypeInv
<1>2. /\ LinksInv' /\ On("free")' = On("free") \cup f
      /\ (\A t \in Stacks \ {"free"} : On(t)' = On(t)) /\ Apart' = Apart
  <2>1. PICK kind, who : OwnedBy(kind, who)
    BY DEF OwnerInv
  <2>2. f \cap Apart = {} /\ \A t \in Stacks : f \cap On(t) = {}
    BY <1>0, <1>1, <2>1, OwnerFacts, StackKinds DEF Held
  <2>3. f \in SUBSET Segs /\ "free" \in Stacks
    BY <1>0, <1>1, StackKinds DEF TypeInv
  <2>. QED
    BY <1>0, <1>1, <2>2, <2>3, ListsPushed
<1>3. PICK kind, who : OwnedBy(kind, who)
  BY DEF OwnerInv
<1>4. PICK M : M = f \cup empty \cup some
  OBVIOUS
<1>5. PICK k2 : k2 = [s \in Segs |-> IF s \in f THEN "free" ELSE IF s \in empty THEN "own" ELSE IF s \in some THEN "part" ELSE kind[s]]
  OBVIOUS
<1>a. /\ \A s \in Segs, t \in Stacks : s \in On(t) <=> kind[s] = t
      /\ \A s \in Segs : s \in Apart <=> kind[s] = "moved"
      /\ kind \in [Segs -> Kinds]
  BY <1>0, <1>3, OwnerFacts
<1>6. /\ M \in SUBSET Segs /\ k2 \in [Segs -> Kinds]
      /\ \A s \in M : kind[s] \in Held /\ who[s] = w
      /\ \A s \in f : k2[s] = "free"
      /\ \A s \in M \ f : k2[s] \in Held /\ kind[s] \in {"filled", "part"}
      /\ \A s \in Segs \ M : k2[s] = kind[s] /\ s \notin f /\ s \notin empty /\ s \notin some
      /\ \A s \in empty : k2[s] = "own" /\ s \in M
      /\ \A s \in some : k2[s] = "part" /\ s \in M /\ kind[s] = "filled"
      /\ f \subseteq M /\ \A s \in M : s \in f \/ s \in empty \/ s \in some
      /\ \A s \in f : kind[s] = "own"
  <2>2. \A s \in f : kind[s] = "own" /\ who[s] = w
    BY <1>0, <1>1, <1>3, OwnerFacts
  <2>3. \A s \in empty : kind[s] \in {"filled", "part"} /\ who[s] = w
    BY <1>0, <1>1, <1>3, OwnerFacts
  <2>4. \A s \in some : kind[s] = "filled" /\ who[s] = w /\ s \notin empty
    BY <1>0, <1>1, <1>3, OwnerFacts
  <2>5. M \in SUBSET Segs /\ f \subseteq M /\ empty \subseteq M /\ some \subseteq M
        /\ \A s \in M : s \in f \/ s \in empty \/ s \in some
    BY <1>4
  <2>6. \A s \in M : kind[s] \in Held /\ who[s] = w
    BY <2>2, <2>3, <2>4, <2>5 DEF Held
  <2>7. \A s \in Segs \ M : k2[s] = kind[s]
    BY <1>4, <1>5
  <2>8. /\ \A s \in f : k2[s] = "free"
        /\ \A s \in empty : k2[s] = "own"
        /\ \A s \in some : k2[s] = "part"
    BY <1>5, <2>2, <2>3, <2>4
  <2>9. k2 \in [Segs -> Kinds]
    BY <1>5, <1>a, StackKinds DEF Held
  <2>10. \A s \in M \ f : k2[s] \in Held /\ kind[s] \in {"filled", "part"}
    BY <2>3, <2>4, <2>5, <2>8 DEF Held
  <2>. QED
    BY <2>2, <2>4, <2>5, <2>6, <2>7, <2>8, <2>9, <2>10
<1>7. InLists(k2)'
  <2>1. \A s \in Segs, t \in Stacks : s \in On(t)' <=> k2[s] = t
    BY <1>2, <1>4, <1>5, <1>6, <1>a, StackKinds DEF Held
  <2>2. \A s \in Segs : s \in Apart' <=> k2[s] = "moved"
    BY <1>2, <1>4, <1>5, <1>6, <1>a, StackKinds
  <2>. QED
    BY <2>1, <2>2, ListsIntro
<1>8. InPool(k2)'
  BY <1>0, <1>1, <1>3, <1>4, <1>5, <1>6, OwnerFacts, StackKinds DEF InPool, Held
<1>9. HeldBy(k2, who, M, w)'
  BY <1>0, <1>1, <1>3, <1>4, <1>5, <1>6, OwnerFacts, StackKinds, SegType DEF HeldBy, Held
<1>10. OthersKeep(w)
  BY <1>0, <1>1 DEF OthersKeep, TypeInv, TypeOK
<1>11. Moved(kind, who, M, k2, w)
  BY <1>0, <1>1, <1>3, <1>4, <1>5, <1>6, OwnerFacts, StackKinds DEF Moved, Held
<1>. QED
  BY <1>2, <1>3, <1>6, <1>7, <1>8, <1>9, <1>10, <1>11, OwnerMove

LEMMA SweepEmptyOwner ==
  ASSUME ControlInv, OwnerInv, NEW w \in Workers, NEW empty \in BOOLEAN, Sweep(w, empty), empty PROVE OwnerInv'
<1>0. TypeInv /\ LinksInv
  BY DEF ControlInv, OwnerInv
<1>b. PICK h \in Segs : h = loc[w].seg
  BY <1>0, FieldTypes DEF Sweep, ControlInv, LocalInv, LocalOf, TypeInv, Link
<1>c. PICK H \in SUBSET Segs : H = {h}
  OBVIOUS
<1>1. /\ UNCHANGED <<alloced, moved, cur, filled, part, free, poolFilled>> /\ H = {h}
      /\ UNCHANGED <<top, next>> /\ swept' = swept \cup H
      /\ loc[w].seg = h /\ loc'[w].seg = Null /\ \A u \in Workers \ {w} : loc'[u] = loc[u]
  <2>1. loc' = [loc EXCEPT ![w] = Gets(loc[w], Null)] /\ Gets(loc[w], Null).seg = Null
    BY <1>0, GetsType, NullType DEF Sweep, TypeInv
  <2>. QED
    BY <1>0, <1>b, <1>c, <2>1 DEF Sweep, own, rounds, TypeInv
<1>2. LinksInv' /\ (\A t \in Stacks : On(t)' = On(t)) /\ Apart' = Apart
  BY <1>0, <1>1, ListsKept
<1>3. PICK kind, who : OwnedBy(kind, who)
  BY DEF OwnerInv
<1>4. PICK M : M = H
  OBVIOUS
<1>5. PICK k2 : k2 = [s \in Segs |-> IF s \in M THEN "swept" ELSE kind[s]]
  OBVIOUS
<1>a. /\ \A s \in Segs, t \in Stacks : s \in On(t) <=> kind[s] = t
      /\ \A s \in Segs : s \in Apart <=> kind[s] = "moved"
      /\ kind \in [Segs -> Kinds]
  BY <1>0, <1>3, OwnerFacts
<1>6. /\ M \in SUBSET Segs /\ k2 \in [Segs -> Kinds] /\ M = {h}
      /\ kind[h] = "hand" /\ who[h] = w
  <2>1. kind[h] = "hand" /\ who[h] = w
    BY <1>0, <1>1, <1>3, OwnerFacts
  <2>. QED
    BY <1>c, <1>4, <1>5, <1>a, <2>1, StackKinds
<1>7. InLists(k2)'
  <2>1. \A s \in Segs, t \in Stacks : s \in On(t)' <=> k2[s] = t
    BY <1>2, <1>4, <1>5, <1>6, <1>a, StackKinds DEF Held
  <2>2. \A s \in Segs : s \in Apart' <=> k2[s] = "moved"
    BY <1>2, <1>4, <1>5, <1>6, <1>a, StackKinds
  <2>. QED
    BY <2>1, <2>2, ListsIntro
<1>8. InPool(k2)'
  BY <1>0, <1>1, <1>3, <1>4, <1>5, <1>6, OwnerFacts, StackKinds DEF InPool, Held
<1>9. HeldBy(k2, who, M, w)'
  BY <1>0, <1>1, <1>3, <1>4, <1>5, <1>6, OwnerFacts, StackKinds, SegType DEF HeldBy, Held
<1>10. OthersKeep(w)
  BY <1>0, <1>1 DEF OthersKeep, TypeInv, TypeOK
<1>11. Moved(kind, who, M, k2, w)
  BY <1>0, <1>1, <1>3, <1>4, <1>5, <1>6, OwnerFacts, StackKinds DEF Moved, Held
<1>. QED
  BY <1>2, <1>3, <1>6, <1>7, <1>8, <1>9, <1>10, <1>11, OwnerMove

LEMMA SweepBackOwner ==
  ASSUME ControlInv, OwnerInv, NEW w \in Workers, NEW empty \in BOOLEAN, Sweep(w, empty), ~empty PROVE OwnerInv'
<1>0. TypeInv /\ LinksInv
  BY DEF ControlInv, OwnerInv
<1>b. PICK h \in Segs : h = loc[w].seg
  BY <1>0, FieldTypes DEF Sweep, ControlInv, LocalInv, LocalOf, TypeInv, Link
<1>c. PICK H \in SUBSET Segs : H = {h}
  OBVIOUS
<1>1. /\ UNCHANGED <<alloced, moved, cur, filled, part, free, poolFilled>> /\ H = {h}
      /\ swept' = swept /\ Push("partial", H)
      /\ loc[w].seg = h /\ loc'[w].seg = Null /\ \A u \in Workers \ {w} : loc'[u] = loc[u]
  <2>1. loc' = [loc EXCEPT ![w] = Gets(loc[w], Null)] /\ Gets(loc[w], Null).seg = Null
    BY <1>0, GetsType, NullType DEF Sweep, TypeInv
  <2>. QED
    BY <1>0, <1>b, <1>c, <2>1 DEF Sweep, own, rounds, TypeInv
<1>2. /\ LinksInv' /\ On("partial")' = On("partial") \cup H
      /\ (\A t \in Stacks \ {"partial"} : On(t)' = On(t)) /\ Apart' = Apart
  <2>1. PICK kind, who : OwnedBy(kind, who)
    BY DEF OwnerInv
  <2>2. H \cap Apart = {} /\ \A t \in Stacks : H \cap On(t) = {}
    BY <1>0, <1>1, <2>1, OwnerFacts, StackKinds DEF Held
  <2>3. H \in SUBSET Segs /\ "partial" \in Stacks
    BY <1>0, <1>1, StackKinds DEF TypeInv
  <2>. QED
    BY <1>0, <1>1, <2>2, <2>3, ListsPushed
<1>3. PICK kind, who : OwnedBy(kind, who)
  BY DEF OwnerInv
<1>4. PICK M : M = H
  OBVIOUS
<1>5. PICK k2 : k2 = [s \in Segs |-> IF s \in M THEN "partial" ELSE kind[s]]
  OBVIOUS
<1>a. /\ \A s \in Segs, t \in Stacks : s \in On(t) <=> kind[s] = t
      /\ \A s \in Segs : s \in Apart <=> kind[s] = "moved"
      /\ kind \in [Segs -> Kinds]
  BY <1>0, <1>3, OwnerFacts
<1>6. /\ M \in SUBSET Segs /\ k2 \in [Segs -> Kinds] /\ M = {h}
      /\ kind[h] = "hand" /\ who[h] = w
  <2>1. kind[h] = "hand" /\ who[h] = w
    BY <1>0, <1>1, <1>3, OwnerFacts
  <2>. QED
    BY <1>c, <1>4, <1>5, <1>a, <2>1, StackKinds
<1>7. InLists(k2)'
  <2>1. \A s \in Segs, t \in Stacks : s \in On(t)' <=> k2[s] = t
    BY <1>2, <1>4, <1>5, <1>6, <1>a, StackKinds DEF Held
  <2>2. \A s \in Segs : s \in Apart' <=> k2[s] = "moved"
    BY <1>2, <1>4, <1>5, <1>6, <1>a, StackKinds
  <2>. QED
    BY <2>1, <2>2, ListsIntro
<1>8. InPool(k2)'
  BY <1>0, <1>1, <1>3, <1>4, <1>5, <1>6, OwnerFacts, StackKinds DEF InPool, Held
<1>9. HeldBy(k2, who, M, w)'
  BY <1>0, <1>1, <1>3, <1>4, <1>5, <1>6, OwnerFacts, StackKinds, SegType DEF HeldBy, Held
<1>10. OthersKeep(w)
  BY <1>0, <1>1 DEF OthersKeep, TypeInv, TypeOK
<1>11. Moved(kind, who, M, k2, w)
  BY <1>0, <1>1, <1>3, <1>4, <1>5, <1>6, OwnerFacts, StackKinds DEF Moved, Held
<1>. QED
  BY <1>2, <1>3, <1>6, <1>7, <1>8, <1>9, <1>10, <1>11, OwnerMove

LEMMA SweepFilledOwner ==
  ASSUME ControlInv, OwnerInv, NEW w \in Workers, NEW empty \in SUBSET Segs, NEW some \in SUBSET Segs, SweepFilled(w, empty, some) PROVE OwnerInv'
<1>0. TypeInv /\ LinksInv
  BY DEF ControlInv, OwnerInv
<1>1. /\ UNCHANGED <<alloced, moved, cur, filled, part, free, loc>> /\ Push("partial", some)
      /\ empty \subseteq poolFilled /\ some \subseteq poolFilled \ empty
      /\ poolFilled' = poolFilled \ (empty \cup some) /\ swept' = swept \cup empty
  BY DEF SweepFilled, own, rounds
<1>2. /\ LinksInv' /\ On("partial")' = On("partial") \cup some
      /\ (\A t \in Stacks \ {"partial"} : On(t)' = On(t)) /\ Apart' = Apart
  <2>1. PICK kind, who : OwnedBy(kind, who)
    BY DEF OwnerInv
  <2>2. some \cap Apart = {} /\ \A t \in Stacks : some \cap On(t) = {}
    BY <1>0, <1>1, <2>1, OwnerFacts, StackKinds DEF Held
  <2>3. some \in SUBSET Segs /\ "partial" \in Stacks
    BY <1>0, <1>1, StackKinds DEF TypeInv
  <2>. QED
    BY <1>0, <1>1, <2>2, <2>3, ListsPushed
<1>3. PICK kind, who : OwnedBy(kind, who)
  BY DEF OwnerInv
<1>4. PICK M : M = empty \cup some
  OBVIOUS
<1>5. PICK k2 : k2 = [s \in Segs |-> IF s \in some THEN "partial" ELSE IF s \in empty THEN "swept" ELSE kind[s]]
  OBVIOUS
<1>a. /\ \A s \in Segs, t \in Stacks : s \in On(t) <=> kind[s] = t
      /\ \A s \in Segs : s \in Apart <=> kind[s] = "moved"
      /\ kind \in [Segs -> Kinds]
  BY <1>0, <1>3, OwnerFacts
<1>6. /\ M \in SUBSET Segs /\ k2 \in [Segs -> Kinds] /\ \A s \in M : kind[s] = "dead"
  <2>1. \A s \in M : kind[s] = "dead"
    BY <1>0, <1>1, <1>3, <1>4, OwnerFacts
  <2>. QED
    BY <1>4, <1>5, <1>a, <2>1, StackKinds
<1>7. InLists(k2)'
  <2>1. \A s \in Segs, t \in Stacks : s \in On(t)' <=> k2[s] = t
    BY <1>2, <1>4, <1>5, <1>6, <1>a, StackKinds DEF Held
  <2>2. \A s \in Segs : s \in Apart' <=> k2[s] = "moved"
    BY <1>2, <1>4, <1>5, <1>6, <1>a, StackKinds
  <2>. QED
    BY <2>1, <2>2, ListsIntro
<1>8. InPool(k2)'
  BY <1>0, <1>1, <1>3, <1>4, <1>5, <1>6, OwnerFacts, StackKinds DEF InPool, Held
<1>9. HeldBy(k2, who, M, w)'
  BY <1>0, <1>1, <1>3, <1>4, <1>5, <1>6, OwnerFacts, StackKinds, SegType DEF HeldBy, Held
<1>10. OthersKeep(w)
  BY <1>0, <1>1 DEF OthersKeep, TypeInv, TypeOK
<1>11. Moved(kind, who, M, k2, w)
  BY <1>0, <1>1, <1>3, <1>4, <1>5, <1>6, OwnerFacts, StackKinds DEF Moved, Held
<1>. QED
  BY <1>2, <1>3, <1>6, <1>7, <1>8, <1>9, <1>10, <1>11, OwnerMove

LEMMA EndGCOwner ==
  ASSUME ControlInv, OwnerInv, NEW w \in Workers, EndGC(w) PROVE OwnerInv'
<1>0. TypeInv /\ LinksInv
  BY DEF ControlInv, OwnerInv
<1>c. PICK S \in SUBSET Segs : S = swept
  BY <1>0 DEF TypeInv
<1>1. /\ UNCHANGED <<alloced, moved, cur, filled, part, free, loc, poolFilled>> /\ Push("free", S)
      /\ swept = S /\ swept' = {}
  BY <1>c DEF EndGC, own
<1>2. /\ LinksInv' /\ On("free")' = On("free") \cup S
      /\ (\A t \in Stacks \ {"free"} : On(t)' = On(t)) /\ Apart' = Apart
  <2>1. PICK kind, who : OwnedBy(kind, who)
    BY DEF OwnerInv
  <2>2. S \cap Apart = {} /\ \A t \in Stacks : S \cap On(t) = {}
    BY <1>0, <1>1, <2>1, OwnerFacts, StackKinds DEF Held
  <2>3. S \in SUBSET Segs /\ "free" \in Stacks
    BY <1>0, <1>1, StackKinds DEF TypeInv
  <2>. QED
    BY <1>0, <1>1, <2>2, <2>3, ListsPushed
<1>3. PICK kind, who : OwnedBy(kind, who)
  BY DEF OwnerInv
<1>4. PICK M : M = S
  OBVIOUS
<1>5. PICK k2 : k2 = [s \in Segs |-> IF s \in M THEN "free" ELSE kind[s]]
  OBVIOUS
<1>a. /\ \A s \in Segs, t \in Stacks : s \in On(t) <=> kind[s] = t
      /\ \A s \in Segs : s \in Apart <=> kind[s] = "moved"
      /\ kind \in [Segs -> Kinds]
  BY <1>0, <1>3, OwnerFacts
<1>6. /\ M \in SUBSET Segs /\ k2 \in [Segs -> Kinds] /\ \A s \in M : kind[s] = "swept"
  <2>1. \A s \in M : kind[s] = "swept"
    BY <1>0, <1>1, <1>3, <1>4, OwnerFacts
  <2>. QED
    BY <1>4, <1>5, <1>a, <2>1, StackKinds
<1>7. InLists(k2)'
  <2>1. \A s \in Segs, t \in Stacks : s \in On(t)' <=> k2[s] = t
    BY <1>2, <1>4, <1>5, <1>6, <1>a, StackKinds DEF Held
  <2>2. \A s \in Segs : s \in Apart' <=> k2[s] = "moved"
    BY <1>2, <1>4, <1>5, <1>6, <1>a, StackKinds
  <2>. QED
    BY <2>1, <2>2, ListsIntro
<1>8. InPool(k2)'
  BY <1>0, <1>1, <1>3, <1>4, <1>5, <1>6, OwnerFacts, StackKinds DEF InPool, Held
<1>9. HeldBy(k2, who, M, w)'
  BY <1>0, <1>1, <1>3, <1>4, <1>5, <1>6, OwnerFacts, StackKinds, SegType DEF HeldBy, Held
<1>10. OthersKeep(w)
  BY <1>0, <1>1 DEF OthersKeep, TypeInv, TypeOK
<1>11. Moved(kind, who, M, k2, w)
  BY <1>0, <1>1, <1>3, <1>4, <1>5, <1>6, OwnerFacts, StackKinds DEF Moved, Held
<1>. QED
  BY <1>2, <1>3, <1>6, <1>7, <1>8, <1>9, <1>10, <1>11, OwnerMove

\* The remaining steps leave the segments where they are.
LEMMA StillOwner ==
  ASSUME ControlInv, OwnerInv, UNCHANGED <<top, next, poolFilled, alloced, cur, filled, part, free, swept, moved>>,
         UNCHANGED loc
         \/ (\E w \in Workers, r \in LocalType : loc' = [loc EXCEPT ![w] = r] /\ r.seg = loc[w].seg)
  PROVE  OwnerInv'
<1>1. \A u \in Workers : loc'[u].seg = loc[u].seg
  BY DEF ControlInv, TypeInv
<1>. QED
  BY <1>1, OwnerFrame

LEMMA OwnerStep == ControlInv /\ OwnerInv /\ [Next]_vars /\ ~raced' => OwnerInv'
<1>. SUFFICES ASSUME ControlInv, OwnerInv, [Next]_vars, ~raced' PROVE OwnerInv'
  OBVIOUS
<1>1. CASE Next
  <2>1. ASSUME NEW w \in Workers, Pool(w) PROVE OwnerInv'
    <3>1. CASE ClearMarked(w)
      BY <3>1, StillOwner DEF ClearMarked, own, shared, rounds
    <3>. QED
      BY <2>1, <3>1, PopLoadOwner, PopCasOwner, ExtendOwner, UseFoundOwner DEF Pool
  <2>2. ASSUME NEW w \in Workers, Worker(w) PROVE OwnerInv'
    <3>1. CASE AllocYoung(w) \/ GiveUp(w) \/ EndWait(w)
      BY <3>1, StillOwner DEF AllocYoung, GiveUp, EndWait, own, shared, rounds
    <3>2. CASE RequestGC(w)
      BY <3>2, StillOwner DEF RequestGC, StartGC, own, shared
    <3>3. CASE WaitGC(w)
      <4>1. /\ UNCHANGED <<top, next, poolFilled, alloced, cur, filled, part, free, swept, moved>>
            /\ loc' = [loc EXCEPT ![w] = WaitLocals(loc[w])] /\ loc[w].seg = Null
        BY <3>3 DEF WaitGC, StartGC, own, shared, rounds, WaitLocals, ControlInv, LocalInv, LocalOf
      <4>2. WaitLocals(loc[w]) \in LocalType /\ WaitLocals(loc[w]).seg = Null
        BY <3>3, WaitGCMoves DEF ControlInv
      <4>. QED
        BY <4>1, <4>2, StillOwner
    <3>4. CASE \E r \in Phases : Answer(w, r)
      BY <3>4, StillOwner DEF Answer, own, shared
    <3>5. CASE \E empty \in BOOLEAN : Sweep(w, empty)
      BY <3>5, SweepEmptyOwner, SweepBackOwner
    <3>. QED
      BY <2>2, <3>1, <3>2, <3>3, <3>4, <3>5, FindSegmentOwner, TakePartialOwner, EndGCOwner, AsyncOwner,
         SweepFilledOwner DEF Worker
  <2>3. ASSUME NEW w \in Workers, StartInit(w) PROVE OwnerInv'
    <3>. DEFINE r == Starts(Local, "init", "partial", Null, DUMMY_PHASE)
    <3>1. r \in LocalType /\ r.seg = Null
      BY NoLocals, NullType DEF Starts, Locals, LocalType, Stacks
    <3>2. /\ UNCHANGED <<top, next, poolFilled, alloced, cur, filled, part, free, swept, moved>>
          /\ loc' = [loc EXCEPT ![w] = r] /\ loc[w].seg = Null
      BY <2>3 DEF StartInit, own, shared, rounds, ControlInv, LocalInv, LocalOf
    <3>. QED
      BY <3>1, <3>2, StillOwner
  <2>4. ASSUME NEW w \in Workers, Register(w) \/ Signal(w) PROVE OwnerInv'
    BY <2>4, StillOwner DEF Register, Signal, own, shared
  <2>5. CASE NextRound
    BY <2>5, StillOwner DEF NextRound, own, shared
  <2>. QED
    BY <1>1, <2>1, <2>2, <2>3, <2>4, <2>5, KillOwner, TakeMarkedOwner, PutMarkedOwner DEF Next
<1>2. CASE UNCHANGED vars
  BY <1>2, StillOwner DEF vars
<1>. QED
  BY <1>1, <1>2

LEMMA OwnerInit == Init => OwnerInv
<1>. SUFFICES ASSUME Init PROVE OwnerInv
  OBVIOUS
<1>1. /\ top = [s \in Stacks |-> IF s = "partial" THEN Pool0 ELSE Null]
      /\ next = [s \in Segs |-> IF s \in 1..Pool0 THEN s - 1 ELSE Null]
      /\ moved.list = Null /\ poolFilled = {} /\ swept = {} /\ alloced = Pool0
      /\ cur = [w \in Workers |-> Null] /\ filled = [w \in Workers |-> {}]
      /\ part = [w \in Workers |-> {}] /\ free = [w \in Workers |-> {}]
      /\ \A w \in Workers : loc[w].seg = Null
  BY NoLocals DEF Init
<1>2. Pool0 \in 0..Count /\ Count \in Nat /\ Pool0 \in Nat /\ 1..Pool0 \subseteq Segs /\ Pool0 \in Link
      /\ Null = 0 /\ (Pool0 # Null => Pool0 \in 1..Pool0)
  BY CountType DEF Segs, Link, Null
<1>3. /\ next \in [Segs -> Link] /\ \A s \in 1..Pool0 : next[s] = s - 1 /\ s - 1 \in 0..Pool0
      /\ \A s \in 1..Pool0 : s - 1 \in Link
  BY <1>1, <1>2 DEF Link, Segs
<1>4. ASSUME NEW x \in 0..Pool0 PROVE x \in Link /\ Chain(next, x) \subseteq 1..x
  <2>1. x \in Link /\ 1..x \subseteq Segs /\ x \in (1..x) \cup {Null}
    BY <1>2 DEF Link, Segs
  <2>2. \A y \in 1..x : next[y] \in (1..x) \cup {Null}
    BY <1>2, <1>3
  <2>. QED
    BY <1>3, <2>1, <2>2, ChainLeast
<1>5. 1..Pool0 \subseteq Chain(next, Pool0)
  <2>. DEFINE C == Chain(next, Pool0)
              S == (1..Pool0) \ C
  <2>. SUFFICES ASSUME S # {} PROVE FALSE
    OBVIOUS
  <2>1. S \in SUBSET (0..Pool0)
    OBVIOUS
  <2>2. PICK x \in S : \A y \in S : y <= x
    BY <1>2, <2>1, GreatestExists
  <2>3. Pool0 \in C
    BY <1>2, <1>3, <2>2, ChainClosed
  <2>4. x \in 1..Pool0 /\ x # Pool0 /\ x \notin C
    BY <2>2, <2>3
  <2>5. x + 1 \in 1..Pool0 /\ ~(x + 1 <= x) /\ x + 1 - 1 = x /\ x # Null
    BY <1>2, <2>4
  <2>6. x + 1 \in C
    BY <2>2, <2>5
  <2>7. next[x + 1] = x
    BY <1>3, <2>5
  <2>. QED
    BY <1>2, <1>3, <2>4, <2>5, <2>6, <2>7, ChainClosed
<1>6. Chain(next, Pool0) = 1..Pool0
  <2>1. Pool0 \in 0..Pool0
    BY <1>2
  <2>2. Chain(next, Pool0) \subseteq 1..Pool0
    BY <1>4, <2>1
  <2>. QED
    BY <1>5, <2>2
<1>7. Chain(next, Null) = {}
  BY <1>3, ChainNull
<1>8. Acyclic(next, Pool0)
  <2>1. ASSUME NEW x \in 1..Pool0 PROVE x \notin Chain(next, next[x])
    <3>1. x - 1 \in 0..Pool0 /\ next[x] = x - 1 /\ x \notin 1..(x - 1)
      BY <1>2, <1>3
    <3>. QED
      BY <1>4, <3>1
  <2>. QED
    BY <1>6, <2>1 DEF Acyclic
<1>9. LinksInv
  <2>1. Acyclic(next, Null)
    BY <1>7 DEF Acyclic
  <2>. QED
    BY <1>1, <1>8, <2>1 DEF LinksInv
<1>10. PICK kind : kind = [s \in Segs |-> IF s \in 1..Pool0 THEN "partial" ELSE "unused"]
  OBVIOUS
<1>11. \A s \in Segs : s > alloced <=> kind[s] = "unused"
  BY <1>1, <1>2, <1>10 DEF Segs
<1>12. InLists(kind)
  BY <1>1, <1>6, <1>7, <1>10 DEF InLists, ListFrom, Stacks
<1>13. OwnedBy(kind, kind)
  BY <1>1, <1>10, <1>11, <1>12, SegType DEF OwnedBy, WhoOf, InPool, InHeaps, Kinds, Stacks
<1>. QED
  BY <1>9, <1>13 DEF OwnerInv

-----------------------------------------------------------------------------
(* Snapshots.                                                               *)

\* A signal tells a worker nothing about snapshots that it has not accepted.
LEMMA BeforeFacts ==
  /\ \A p \in Int, r \in Int : <<p, r>> \in Successors => (BeforeSnapshot(p) <=> BeforeSnapshot(Pre(r)))
  /\ BeforeSnapshot(ASYNC) /\ BeforeSnapshot(SYNC1) /\ BeforeSnapshot(Pre(SYNC1)) /\ BeforeSnapshot(Pre(SYNC2))
  /\ ~BeforeSnapshot(SYNC2) /\ ~BeforeSnapshot(MARK) /\ ~BeforeSnapshot(Pre(MARK))
  /\ ~BeforeSnapshot(Pre(ASYNC)) /\ ~BeforeSnapshot(DUMMY_PHASE)
BY DEF Successors, BeforeSnapshot, Pre, ASYNC, PRESYNC2, SYNC1, SYNC2, MARK, DUMMY_PHASE

\* The phase a worker has read before it looked for a segment is as good as
\* the one it is in.
LEMMA LpFacts ==
  ASSUME TypeInv, PhaseInv, NEW w \in members, Finding(w)
  PROVE  BeforeSnapshot(loc[w].lp) <=> BeforeSnapshot(phase[w])
<1>1. w \in Workers /\ loc[w].lp \in Int /\ round \in Int
  <2>1. w \in Workers /\ loc[w] \in LocalType
    BY DEF TypeInv
  <2>2. loc[w].lp \in Phases \cup {DUMMY_PHASE}
    BY <2>1, FieldTypes
  <2>3. \A p \in Phases \cup {DUMMY_PHASE} : p \in Int
    BY DEF Phases, DUMMY_PHASE
  <2>. QED
    BY <2>1, <2>2, <2>3 DEF TypeInv, ASYNC, SYNC1, SYNC2, MARK
<1>. QED
  BY <1>1, BeforeFacts DEF PhaseInv, PhaseOf

\* Who will answer ASYNC has taken its snapshot.
LEMMA MeanwhileFacts ==
  ASSUME TypeInv, PhaseInv, NEW w \in Workers, NEW u \in members, Meanwhile(w, u)
  PROVE  ~BeforeSnapshot(phase[u])
<1>1. u \in Workers /\ phase[u] \in Int /\ round \in Int
  BY DEF TypeInv, TypeOK, Phases, ASYNC, SYNC1, SYNC2, MARK
<1>2. round = MARK \/ (round = ASYNC /\ u \in waiting)
  BY DEF Meanwhile
<1>3. ~BeforeSnapshot(Pre(round))
  BY <1>2, BeforeFacts
<1>4. u \notin waiting => phase[u] = MARK
  BY <1>2 DEF PhaseInv, PhaseOf
<1>. QED
  BY <1>1, <1>3, <1>4, BeforeFacts DEF PhaseInv, PhaseOf

LEMMA UnsentFacts ==
  ASSUME TypeInv, PhaseInv, NEW w \in unsent
  PROVE  w \in members /\ w \in Workers /\ (BeforeSnapshot(phase[w]) <=> BeforeSnapshot(Pre(round)))
<1>1. w \in waiting /\ w \in members /\ w \in Workers
  BY DEF TypeInv, TypeOK
<1>2. phase[w] \in Int /\ round \in Int
  BY <1>1 DEF TypeInv, TypeOK, Phases, ASYNC, SYNC1, SYNC2, MARK
<1>. QED
  BY <1>1, <1>2, BeforeFacts DEF PhaseInv, PhaseOf

-----------------------------------------------------------------------------
(* A segment is in one place.                                               *)

Places4 == On("partial") \cup On("marked") \cup On("free") \cup Apart

LEMMA OfUsed ==
  ASSUME TypeInv, OwnerInv, NEW w \in Workers, NEW s \in Used(w)
  PROVE  /\ s \in Segs /\ s \notin Places4 \cup poolFilled \cup swept /\ ~(s > alloced)
         /\ \A u \in Workers : /\ s \notin part[u] \cup free[u] /\ s # loc[u].seg
                               /\ s \in Used(u) => u = w
         /\ s \in filled[w] => s # cur[w]
<1>1. PICK kind, who : OwnedBy(kind, who)
  BY DEF OwnerInv
<1>2. s \in Segs /\ (s = cur[w] \/ s \in filled[w])
  BY DEF Used, TypeInv, TypeOK
<1>3. kind[s] \in {"cur", "filled"} /\ who[s] = w
  BY <1>1, <1>2, OwnerFacts
<1>. QED
  BY <1>1, <1>2, <1>3, OwnerFacts, StackKinds DEF Places4, Used

LEMMA OfPart ==
  ASSUME TypeInv, OwnerInv, NEW w \in Workers, NEW s \in part[w]
  PROVE  /\ s \in Segs /\ s \notin Places4 \cup poolFilled \cup swept /\ ~(s > alloced)
         /\ \A u \in Workers : /\ s \notin Used(u) \cup free[u] /\ s # loc[u].seg
                               /\ s \in part[u] => u = w
<1>1. PICK kind, who : OwnedBy(kind, who)
  BY DEF OwnerInv
<1>2. s \in Segs
  BY DEF TypeInv
<1>3. kind[s] = "part" /\ who[s] = w
  BY <1>1, <1>2, OwnerFacts
<1>. QED
  BY <1>1, <1>2, <1>3, OwnerFacts, StackKinds DEF Places4, Used

LEMMA OfFree ==
  ASSUME TypeInv, OwnerInv, NEW w \in Workers, NEW s \in free[w]
  PROVE  /\ s \in Segs /\ s \notin Places4 \cup poolFilled \cup swept /\ ~(s > alloced)
         /\ \A u \in Workers : /\ s \notin Used(u) \cup part[u] /\ s # loc[u].seg
                               /\ s \in free[u] => u = w
<1>1. PICK kind, who : OwnedBy(kind, who)
  BY DEF OwnerInv
<1>2. s \in Segs
  BY DEF TypeInv
<1>3. kind[s] = "own" /\ who[s] = w
  BY <1>1, <1>2, OwnerFacts
<1>. QED
  BY <1>1, <1>2, <1>3, OwnerFacts, StackKinds DEF Places4, Used

LEMMA OfHand ==
  ASSUME TypeInv, OwnerInv, NEW w \in Workers, NEW s, s = loc[w].seg, s # Null
  PROVE  /\ s \in Segs /\ s \notin Places4 \cup poolFilled \cup swept /\ ~(s > alloced)
         /\ \A u \in Workers : /\ s \notin Used(u) \cup part[u] \cup free[u]
                               /\ s = loc[u].seg => u = w
<1>1. PICK kind, who : OwnedBy(kind, who)
  BY DEF OwnerInv
<1>2. s \in Segs
  BY FieldTypes DEF TypeInv, Link
<1>3. kind[s] = "hand" /\ who[s] = w
  BY <1>1, <1>2, OwnerFacts
<1>. QED
  BY <1>1, <1>2, <1>3, OwnerFacts, StackKinds DEF Places4, Used

LEMMA OfDead ==
  ASSUME TypeInv, OwnerInv, NEW s \in poolFilled
  PROVE  /\ s \in Segs /\ s \notin Places4 \cup swept /\ ~(s > alloced)
         /\ \A u \in Workers : s \notin Used(u) \cup part[u] \cup free[u] /\ s # loc[u].seg
<1>1. PICK kind, who : OwnedBy(kind, who)
  BY DEF OwnerInv
<1>2. s \in Segs
  BY DEF TypeInv
<1>3. kind[s] = "dead"
  BY <1>1, <1>2, OwnerFacts
<1>. QED
  BY <1>1, <1>2, <1>3, OwnerFacts, StackKinds DEF Places4, Used

LEMMA OfStack ==
  ASSUME TypeInv, OwnerInv, NEW st \in Stacks, NEW s \in On(st)
  PROVE  /\ s \in Segs /\ s \notin Apart \cup poolFilled \cup swept /\ ~(s > alloced)
         /\ \A t \in Stacks : s \in On(t) => t = st
         /\ \A u \in Workers : s \notin Used(u) \cup part[u] \cup free[u] /\ s # loc[u].seg
<1>1. PICK kind, who : OwnedBy(kind, who)
  BY DEF OwnerInv
<1>2. s \in Segs
  BY ListTypes
<1>3. kind[s] = st
  BY <1>1, <1>2, OwnerFacts
<1>. QED
  BY <1>1, <1>2, <1>3, OwnerFacts, StackKinds DEF Used, Held

-----------------------------------------------------------------------------
(* Snapshots.                                                               *)

\* Worker w moves the snapshots of the segments M, which are no current
\* segments of the others.
OthersUse(w) == \A u \in Workers \ {w} : /\ cur'[u] = cur[u] /\ filled'[u] = filled[u]
                                         /\ u \in members' <=> u \in members
                                         /\ phase'[u] = phase[u]

LEMMA SnapMove ==
  ASSUME TypeInv, SnapInv, NEW w \in Workers, NEW M, OthersUse(w),
         \A s \in Segs \ M : snap'[s] = snap[s],
         \A u \in Workers \ {w} : cur[u] \notin M,
         poolFilled \subseteq poolFilled' \cup M,
         Used(w) \subseteq Used(w)' \cup poolFilled' \cup M,
         \A s \in Segs \cap M : snap'[s] # "base" => s \in poolFilled' \cup Used(w)',
         SnapOf(w)'
  PROVE  SnapInv'
<1>1. ASSUME NEW u \in Workers \ {w} PROVE SnapOf(u)' /\ Used(u)' = Used(u)
  <2>1. SnapOf(u)
    BY DEF SnapInv
  <2>2. cur[u] # Null => cur[u] \in Segs /\ snap'[cur[u]] = snap[cur[u]]
    BY DEF TypeInv, TypeOK
  <2>3. cur'[u] = cur[u] /\ filled'[u] = filled[u] /\ (u \in members' <=> u \in members) /\ phase'[u] = phase[u]
    BY DEF OthersUse
  <2>4. SnapOf(u)'
    BY <2>1, <2>2, <2>3 DEF SnapOf
  <2>. QED
    BY <2>3, <2>4 DEF Used
<1>2. ASSUME NEW s \in Segs, snap'[s] # "base"
      PROVE  s \in poolFilled' \/ \E u \in Workers : s \in Used(u)'
  <2>1. CASE s \in M
    BY <1>2, <2>1
  <2>2. CASE s \notin M
    <3>1. s \in poolFilled \/ \E u \in Workers : s \in Used(u)
      BY <1>2, <2>2 DEF SnapInv
    <3>. QED
      BY <1>1, <2>2, <3>1
  <2>. QED
    BY <2>1, <2>2
<1>3. \A u \in Workers : SnapOf(u)'
  BY <1>1
<1>. QED
  BY <1>2, <1>3 DEF SnapInv

LEMMA SnapFrame ==
  ASSUME TypeInv, SnapInv, UNCHANGED <<snap, poolFilled, cur, filled, members, phase>>
  PROVE  SnapInv'
BY DEF SnapInv, SnapOf, Used

\* The segment a worker has found has its snapshot at its base.
LEMMA HandBase ==
  ASSUME TypeInv, OwnerInv, SnapInv, NEW w \in Workers, NEW h, h = loc[w].seg, h # Null
  PROVE  h \in Segs /\ snap[h] = "base"
BY OfHand DEF SnapInv

\* What UseFound does.
LEMMA UseFoundFacts ==
  ASSUME ControlInv, NEW w \in Workers, UseFound(w)
  PROVE  /\ UNCHANGED <<filled, part, free, shared, dirty, stale, rounds, swept, raced>>
         /\ loc[w].seg \in Segs /\ loc[w].seg # Null /\ cur[w] = Null /\ cur' = [cur EXCEPT ![w] = loc[w].seg]
         /\ snap' = SnapshotAt(loc[w].lp, {loc[w].seg}) /\ pc[w] = "set" /\ pc'[w] \in {"run", "register"}
         /\ IF BeforeSnapshot(loc[w].lp)
            THEN covered' = covered \cup {loc[w].seg} /\ UNCHANGED young
            ELSE young' = young \cup {loc[w].seg} /\ UNCHANGED covered
         /\ loc' = [loc EXCEPT ![w] = Local] /\ \A u \in Workers \ {w} : pc'[u] = pc[u]
         /\ w \in members => BeforeSnapshot(loc[w].lp) <=> BeforeSnapshot(phase[w])
         /\ w \notin members => ~BeforeSnapshot(loc[w].lp)
<1>1. loc[w] \in LocalType /\ pc[w] = "set" /\ pc \in [Workers -> Labels]
  BY DEF ControlInv, TypeInv, UseFound
<1>2. loc[w].seg \in Segs /\ loc[w].seg # Null
  BY <1>1, FieldTypes DEF ControlInv, LocalInv, LocalOf, Link
<1>3. loc[w].use \in {"find", "init"}
  BY <1>1, FieldTypes DEF ControlInv, LocalInv, LocalOf, InPoolCode
<1>4. w \in members => Finding(w)
  BY <1>1, <1>3 DEF ControlInv, LocalInv, LocalOf, Finding, Registering, InPoolCode
<1>5. w \notin members => loc[w].use = "init" /\ loc[w].lp = DUMMY_PHASE /\ cur[w] = Null
  BY <1>1, <1>3 DEF ControlInv, LocalInv, LocalOf, Finding, Registering, InPoolCode, HeapInv, HeapOf
<1>6. cur[w] = Null
  BY <1>4, <1>5 DEF ControlInv, HeapInv, HeapOf
<1>7. w \in members => BeforeSnapshot(loc[w].lp) <=> BeforeSnapshot(phase[w])
  BY <1>4, LpFacts DEF ControlInv
<1>8. w \notin members => ~BeforeSnapshot(loc[w].lp)
  BY <1>5, BeforeFacts
<1>9. pc'[w] \in {"run", "register"} /\ \A u \in Workers \ {w} : pc'[u] = pc[u]
  BY <1>1 DEF UseFound, Goto
<1>. QED
  BY <1>1, <1>2, <1>6, <1>7, <1>8, <1>9 DEF UseFound, SetAllocPtr

LEMMA UseFoundSnap ==
  ASSUME ControlInv, OwnerInv, SnapInv, NEW w \in Workers, UseFound(w) PROVE SnapInv'
<1>0. TypeInv
  BY DEF ControlInv
<1>1. PICK h : h = loc[w].seg
  OBVIOUS
<1>2. /\ h \in Segs /\ h # Null /\ cur[w] = Null /\ cur' = [cur EXCEPT ![w] = h]
      /\ snap' = SnapshotAt(loc[w].lp, {h}) /\ UNCHANGED <<filled, poolFilled, members, phase>>
      /\ w \in members => BeforeSnapshot(loc[w].lp) <=> BeforeSnapshot(phase[w])
      /\ w \notin members => ~BeforeSnapshot(loc[w].lp)
  BY <1>1, UseFoundFacts DEF shared, rounds
<1>3. snap[h] = "base" /\ \A u \in Workers : h # cur[u]
  BY <1>0, <1>1, <1>2, HandBase, OfHand DEF Used
<1>4. cur'[w] = h /\ \A u \in Workers \ {w} : cur'[u] = cur[u]
  BY <1>0, <1>2 DEF TypeInv, TypeOK
<1>5. /\ \A s \in Segs \ {h} : snap'[s] = snap[s]
      /\ snap'[h] = IF BeforeSnapshot(loc[w].lp) THEN "limit" ELSE "base"
  BY <1>2, <1>3 DEF SnapshotAt
<1>6. SnapOf(w)'
  BY <1>2, <1>4, <1>5 DEF SnapOf
<1>7. OthersUse(w) /\ h \in Used(w)' /\ Used(w) \subseteq Used(w)'
  BY <1>2, <1>4 DEF OthersUse, Used
<1>. QED
  BY <1>0, <1>2, <1>3, <1>5, <1>6, <1>7, SnapMove

\* What TakePartial and FindSegment do to the current segment.
LEMMA ReleaseFacts ==
  ASSUME ControlInv, NEW w \in Workers, NEW s, Release(w), cur' = [cur EXCEPT ![w] = s]
  PROVE  /\ cur'[w] = s /\ filled'[w] = filled[w] \cup ({cur[w]} \ {Null})
         /\ Used(w)' = Used(w) \cup ({s} \ {Null})
         /\ \A u \in Workers \ {w} : cur'[u] = cur[u] /\ filled'[u] = filled[u]
<1>1. cur \in [Workers -> Link] /\ filled \in [Workers -> SUBSET Segs] /\ Null \notin filled[w]
  BY SegType DEF ControlInv, TypeInv, TypeOK, Link
<1>. QED
  BY <1>1 DEF Release, Used

LEMMA TakePartialSnap ==
  ASSUME ControlInv, OwnerInv, SnapInv, NEW w \in Workers, NEW s0 \in Segs, TakePartial(w, s0)
  PROVE  SnapInv'
<1>0. TypeInv /\ w \in members
  BY DEF ControlInv, LocalInv, LocalOf, Registering, InPoolCode, TakePartial
<1>1. PICK c : c = cur[w]
  OBVIOUS
<1>2. /\ cur'[w] = s0 /\ Used(w)' = Used(w) \cup ({s0} \ {Null})
      /\ \A u \in Workers \ {w} : cur'[u] = cur[u] /\ filled'[u] = filled[u]
  BY ReleaseFacts DEF TakePartial
<1>3. /\ s0 \in part[w] /\ s0 # Null /\ UNCHANGED <<poolFilled, members, phase>>
      /\ snap' = SnapshotAt(phase[w], {s0, c})
  BY <1>1, SegType DEF TakePartial, shared, rounds
<1>4. snap[s0] = "base" /\ \A u \in Workers : s0 # cur[u]
  BY <1>0, <1>3, OfPart DEF SnapInv, Used
<1>5. c # Null => c \in Used(w) /\ \A u \in Workers \ {w} : c # cur[u]
  BY <1>0, <1>1, OfUsed DEF Used
<1>6. /\ \A s \in Segs \ {s0, c} : snap'[s] = snap[s]
      /\ snap'[s0] = IF BeforeSnapshot(phase[w]) THEN "limit" ELSE "base"
  BY <1>3, <1>4 DEF SnapshotAt
<1>7. SnapOf(w)'
  BY <1>0, <1>2, <1>3, <1>6 DEF SnapOf
<1>8. PICK M : M = {s0, c} \ {Null}
  OBVIOUS
<1>9. \A s \in Segs \ M : snap'[s] = snap[s]
  BY <1>6, <1>8, SegType
<1>10. OthersUse(w) /\ M \subseteq Used(w)' /\ Used(w) \subseteq Used(w)' /\ \A u \in Workers \ {w} : cur[u] \notin M
  BY <1>2, <1>3, <1>4, <1>5, <1>8 DEF OthersUse
<1>. QED
  BY <1>0, <1>3, <1>7, <1>9, <1>10, SnapMove

LEMMA FindSegmentSnap ==
  ASSUME ControlInv, OwnerInv, SnapInv, NEW w \in Workers, FindSegment(w) PROVE SnapInv'
<1>0. TypeInv /\ w \in members
  BY DEF ControlInv, LocalInv, LocalOf, Registering, InPoolCode, FindSegment
<1>1. PICK c : c = cur[w]
  OBVIOUS
<1>2. /\ cur'[w] = Null /\ Used(w) \subseteq Used(w)'
      /\ \A u \in Workers \ {w} : cur'[u] = cur[u] /\ filled'[u] = filled[u]
  BY ReleaseFacts DEF FindSegment
<1>3. UNCHANGED <<poolFilled, members, phase>> /\ snap' = SnapshotAt(phase[w], {c})
  BY <1>1 DEF FindSegment, shared, rounds
<1>5. c # Null => c \in Used(w) /\ \A u \in Workers \ {w} : c # cur[u]
  BY <1>0, <1>1, OfUsed DEF Used
<1>6. \A s \in Segs \ {c} : snap'[s] = snap[s]
  BY <1>3 DEF SnapshotAt
<1>7. SnapOf(w)'
  BY <1>2 DEF SnapOf
<1>8. PICK M : M = {c} \ {Null}
  OBVIOUS
<1>9. \A s \in Segs \ M : snap'[s] = snap[s]
  BY <1>6, <1>8, SegType
<1>10. OthersUse(w) /\ M \subseteq Used(w)' /\ \A u \in Workers \ {w} : cur[u] \notin M
  BY <1>2, <1>3, <1>5, <1>8 DEF OthersUse
<1>. QED
  BY <1>0, <1>2, <1>3, <1>7, <1>9, <1>10, SnapMove

LEMMA SignalSnap ==
  ASSUME ControlInv, SnapInv, NEW w \in Workers, Signal(w) PROVE SnapInv'
<1>0. TypeInv /\ PhaseInv
  BY DEF ControlInv
<1>1. /\ UNCHANGED <<snap, poolFilled, cur, filled, members>> /\ w \in unsent
      /\ phase' = [phase EXCEPT ![w] = Pre(round)]
  BY DEF Signal, own, shared, bits
<1>2. \A u \in Workers : BeforeSnapshot(phase'[u]) <=> BeforeSnapshot(phase[u])
  BY <1>0, <1>1, UnsentFacts DEF TypeInv, TypeOK
<1>3. \A u \in Workers : Used(u)' = Used(u)
  BY <1>1 DEF Used
<1>4. \A u \in Workers : SnapOf(u)'
  BY <1>1, <1>2 DEF SnapInv, SnapOf
<1>. QED
  BY <1>1, <1>3, <1>4 DEF SnapInv

\* What Answer does.
LEMMA AnswerFacts ==
  ASSUME ControlInv, NEW w \in Workers, NEW r \in Phases, Answer(w, r)
  PROVE  /\ UNCHANGED <<own, shared, covered, young, dirty, stale, members, round, gcCount, moved, swept, pc, loc, raced>>
         /\ r \in {SYNC1, SYNC2, MARK} /\ round = r /\ w \in waiting /\ w \in members /\ waiting' = waiting \ {w}
         /\ pc[w] \in {"run", "wait"} /\ phase[w] = Pre(r) /\ phase' = [phase EXCEPT ![w] = r]
         /\ snap' = IF r = SYNC2 THEN Snapshot(w) ELSE snap
         /\ r # SYNC2 => BeforeSnapshot(r) <=> BeforeSnapshot(phase[w])
         /\ r = SYNC2 => ~BeforeSnapshot(r)
<1>1. Accepts(w, r) /\ Respond(w) /\ r \in {SYNC1, SYNC2, MARK}
  BY DEF Answer
<1>2. phase[w] = Pre(r) /\ w \in members
  BY <1>1 DEF Accepts, ControlInv, TypeInv
<1>3. /\ r # SYNC2 => BeforeSnapshot(r) <=> BeforeSnapshot(phase[w])
      /\ r = SYNC2 => ~BeforeSnapshot(r)
  BY <1>1, <1>2, BeforeFacts
<1>. QED
  BY <1>1, <1>2, <1>3 DEF Answer, Accepts, Respond, Polls

LEMMA AnswerSnap ==
  ASSUME ControlInv, OwnerInv, SnapInv, NEW w \in Workers, NEW r \in Phases, Answer(w, r) PROVE SnapInv'
<1>0. TypeInv
  BY DEF ControlInv
<1>1. PICK M : M = IF r = SYNC2 THEN {cur[w]} \ {Null} ELSE {}
  OBVIOUS
<1>2. /\ UNCHANGED <<poolFilled, cur, filled, members>> /\ phase' = [phase EXCEPT ![w] = r] /\ w \in members
      /\ snap' = IF r = SYNC2 THEN Snapshot(w) ELSE snap
      /\ r # SYNC2 => BeforeSnapshot(r) <=> BeforeSnapshot(phase[w])
      /\ r = SYNC2 => ~BeforeSnapshot(r)
  BY AnswerFacts DEF own, shared
<1>3. phase'[w] = r /\ \A u \in Workers \ {w} : phase'[u] = phase[u]
  BY <1>0, <1>2 DEF TypeInv, TypeOK
<1>4. M \subseteq Used(w) /\ \A u \in Workers \ {w} : cur[u] \notin M
  BY <1>0, <1>1, OfUsed DEF Used
<1>5. (\A s \in Segs \ M : snap'[s] = snap[s]) /\ \A s \in M : snap'[s] = "mid"
  BY <1>0, <1>1, <1>2 DEF Snapshot, TypeInv, TypeOK
<1>6. cur[w] \in Link /\ SnapOf(w)
  BY <1>0 DEF TypeInv, TypeOK, Link, SnapInv
<1>7. SnapOf(w)'
  <2>1. CASE r = SYNC2
    BY <1>1, <1>2, <1>3, <1>5, <2>1 DEF SnapOf
  <2>2. CASE r # SYNC2
    BY <1>2, <1>3, <1>6, <2>2 DEF SnapOf
  <2>. QED
    BY <2>1, <2>2
<1>8. OthersUse(w) /\ Used(w)' = Used(w)
  BY <1>2, <1>3 DEF OthersUse, Used
<1>. QED
  BY <1>0, <1>2, <1>4, <1>5, <1>7, <1>8, SnapMove

\* What Async leaves the worker with, and what it does to the bits.
Keeps(w, empty, some) == (filled[w] \ (empty \cup some)) \cup ({cur[w]} \ {Null})

AsyncLeaves(w, empty, some, K) ==
  /\ snap' = SnapReset(K, empty \cup some)
  /\ covered' = (covered \cup (young \cap K)) \ empty /\ young' = young \ K
  /\ dirty' = dirty \ (K \cup part[w] \cup empty \cup some)
  /\ stale' = stale \ (K \cup part[w] \cup empty \cup some)
  /\ cur' = cur /\ filled'[w] = filled[w] \ (empty \cup some)
  /\ part'[w] = (part[w] \ empty) \cup some /\ free'[w] = empty
  /\ \A u \in Workers \ {w} : filled'[u] = filled[u] /\ part'[u] = part[u] /\ free'[u] = free[u]
  /\ Used(w)' = K /\ (cur[w] # Null => cur[w] \in K) /\ K \subseteq Used(w) /\ Used(w) \subseteq K \cup empty \cup some
  /\ K \cap (empty \cup some) = {} /\ w \in members /\ w \in waiting
  /\ empty \subseteq part[w] \cup Used(w) /\ some \subseteq Used(w)
  /\ \A s \in empty \cup some : s \in part[w] \/ (s \in Used(w) /\ snap[s] = "limit")
  /\ \A u \in Workers \ {w} : (K \cup empty \cup some) \cap Used(u) = {}

LEMMA AsyncSegs ==
  ASSUME ControlInv, OwnerInv, NEW w \in Workers, NEW empty \in SUBSET Segs, NEW some \in SUBSET Segs,
         Async(w, empty, some)
  PROVE  \E K \in SUBSET Segs : K = Keeps(w, empty, some) /\ AsyncLeaves(w, empty, some, K)
<1>k. PICK K : K = Keeps(w, empty, some)
  OBVIOUS
<1>0. TypeInv /\ AsyncDoes(w, empty, some)
  BY AsyncFacts DEF ControlInv
<1>1. /\ snap' = SnapReset(K, empty \cup some)
      /\ covered' = (covered \cup (young \cap K)) \ empty /\ young' = young \ K
      /\ dirty' = dirty \ (K \cup part[w] \cup empty \cup some)
      /\ stale' = stale \ (K \cup part[w] \cup empty \cup some)
  BY <1>k DEF Async, Keeps, Clear
<1>2. /\ cur' = cur /\ filled'[w] = filled[w] \ (empty \cup some)
      /\ part'[w] = (part[w] \ empty) \cup some /\ free'[w] = empty /\ w \in members /\ w \in waiting
      /\ \A u \in Workers \ {w} : filled'[u] = filled[u] /\ part'[u] = part[u] /\ free'[u] = free[u]
  BY <1>0 DEF AsyncDoes, TypeInv
<1>3. /\ empty \subseteq part[w] \cup filled[w] /\ some \subseteq filled[w]
      /\ \A s \in empty \cup some : s \in part[w] \/ (s \in filled[w] /\ snap[s] = "limit")
  BY <1>0 DEF AsyncDoes, Reclaimable
<1>4. \A s \in Used(w) : s \notin part[w] /\ (s \in filled[w] => s # cur[w])
      /\ \A u \in Workers \ {w} : s \notin Used(u)
  BY <1>0, OfUsed
<1>5. \A s \in part[w], u \in Workers : s \notin Used(u)
  BY <1>0, OfPart
<1>6. filled[w] \subseteq Used(w) /\ (cur[w] # Null => cur[w] \in Used(w)) /\ Null \notin filled[w]
  BY <1>0, SegType DEF Used, TypeInv
<1>7. Used(w)' = K
  BY <1>k, <1>2, <1>6 DEF Keeps, Used
<1>8. K \subseteq Used(w) /\ Used(w) \subseteq K \cup empty \cup some
  BY <1>k, <1>6 DEF Keeps, Used
<1>9. cur[w] # Null => cur[w] \notin empty \cup some
  BY <1>3, <1>4, <1>6
<1>10. K \cap (empty \cup some) = {}
  BY <1>k, <1>9 DEF Keeps
<1>11. ASSUME NEW u \in Workers \ {w}, NEW s \in K \cup empty \cup some PROVE s \notin Used(u)
  BY <1>3, <1>4, <1>5, <1>6, <1>8
<1>12. K \in SUBSET Segs /\ (cur[w] # Null => cur[w] \in K)
  BY <1>k, <1>0 DEF Keeps, TypeInv, TypeOK
<1>13. AsyncLeaves(w, empty, some, K)
  BY <1>1, <1>2, <1>3, <1>6, <1>7, <1>8, <1>10, <1>11, <1>12 DEF AsyncLeaves
<1>. QED
  BY <1>k, <1>12, <1>13

LEMMA AsyncSnap ==
  ASSUME ControlInv, OwnerInv, SnapInv, NEW w \in Workers, NEW empty \in SUBSET Segs, NEW some \in SUBSET Segs,
         Async(w, empty, some)
  PROVE SnapInv'
<1>0. TypeInv /\ AsyncDoes(w, empty, some)
  BY AsyncFacts DEF ControlInv
<1>1. PICK K \in SUBSET Segs : K = Keeps(w, empty, some) /\ AsyncLeaves(w, empty, some, K)
  BY AsyncSegs
<1>2. /\ snap' = SnapReset(K, empty \cup some) /\ cur' = cur /\ Used(w)' = K
      /\ Used(w) \subseteq K \cup empty \cup some /\ K \cap (empty \cup some) = {} /\ w \in members
      /\ \A u \in Workers \ {w} : filled'[u] = filled[u] /\ (K \cup empty \cup some) \cap Used(u) = {}
  BY <1>1 DEF AsyncLeaves
<1>3. /\ poolFilled' = poolFilled /\ members' = members /\ phase'[w] = ASYNC
      /\ \A u \in Workers \ {w} : phase'[u] = phase[u]
  BY <1>0 DEF AsyncDoes, TypeInv, TypeOK
<1>4. PICK M : M = K \cup empty \cup some
  OBVIOUS
<1>5. /\ \A s \in Segs \ M : snap'[s] = snap[s]
      /\ \A s \in Segs \cap M : snap'[s] # "base" => s \in K
      /\ \A s \in Segs \cap K : snap'[s] = "limit"
  BY <1>2, <1>4 DEF SnapReset
<1>6. \A u \in Workers \ {w} : cur[u] \notin M
  <2>1. Null \notin M
    BY <1>1, <1>4, SegType
  <2>. QED
    BY <1>2, <1>4, <2>1 DEF Used
<1>7. SnapOf(w)'
  <2>1. cur[w] # Null => cur[w] \in K /\ cur[w] \in Segs
    BY <1>1 DEF AsyncLeaves
  <2>. QED
    BY <1>2, <1>3, <1>5, <2>1, BeforeFacts DEF SnapOf
<1>8. OthersUse(w)
  BY <1>2, <1>3 DEF OthersUse
<1>9. Used(w) \subseteq Used(w)' \cup poolFilled' \cup M
  BY <1>2, <1>4
<1>10. poolFilled \subseteq poolFilled' \cup M /\ \A s \in Segs \cap M : snap'[s] # "base" => s \in poolFilled' \cup Used(w)'
  BY <1>2, <1>3, <1>5
<1>. QED
  BY <1>0, <1>5, <1>6, <1>7, <1>8, <1>9, <1>10, SnapMove

\* What Register does.
LEMMA RegisterFacts ==
  ASSUME ControlInv, NEW w \in Workers, Register(w)
  PROVE  /\ w \notin members /\ members' = members \cup {w} /\ phase' = [phase EXCEPT ![w] = round]
         /\ UNCHANGED <<round, waiting, cur, filled, part, free, shared, dirty, stale, unsent, gcCount, moved, swept, loc>>
         /\ snap' = SnapshotAt(round, {cur[w]}) /\ cur[w] \in Segs /\ cur[w] # Null
         /\ IF BeforeSnapshot(round)
            THEN covered' = covered \cup {cur[w]} /\ young' = young \ {cur[w]}
            ELSE UNCHANGED <<covered, young>>
         /\ raced' = (raced \/ cur[w] \in stale \/ (round = ASYNC /\ cur[w] \in dirty))
         /\ pc'[w] = "run" /\ pc[w] = "register" /\ \A u \in Workers \ {w} : pc'[u] = pc[u]
         /\ filled[w] = {} /\ part[w] = {} /\ free[w] = {} /\ w \notin waiting
<1>1. w \notin members /\ cur[w] # Null /\ filled[w] = {} /\ part[w] = {} /\ free[w] = {}
  BY DEF ControlInv, Register, Join, HeapInv, HeapOf
<1>2. cur[w] \in Segs /\ w \notin waiting /\ pc \in [Workers -> Labels]
  BY <1>1 DEF ControlInv, TypeInv, TypeOK
<1>. QED
  BY <1>1, <1>2 DEF Register, Join, Goto

LEMMA RegisterSnap ==
  ASSUME ControlInv, OwnerInv, SnapInv, NEW w \in Workers, Register(w) PROVE SnapInv'
<1>0. TypeInv
  BY DEF ControlInv
<1>1. PICK c : c = cur[w]
  OBVIOUS
<1>2. /\ w \notin members /\ members' = members \cup {w} /\ phase' = [phase EXCEPT ![w] = round]
      /\ UNCHANGED <<cur, filled, poolFilled>> /\ snap' = SnapshotAt(round, {c}) /\ c \in Segs /\ c # Null
  BY <1>1, RegisterFacts DEF shared
<1>3. phase'[w] = round /\ \A u \in Workers \ {w} : phase'[u] = phase[u]
  BY <1>0, <1>2 DEF TypeInv, TypeOK
<1>4. snap[c] = "base"
  BY <1>1, <1>2 DEF SnapInv, SnapOf
<1>5. /\ \A s \in Segs \ {c} : snap'[s] = snap[s]
      /\ snap'[c] = IF BeforeSnapshot(round) THEN "limit" ELSE "base"
  BY <1>2, <1>4 DEF SnapshotAt
<1>6. SnapOf(w)'
  BY <1>1, <1>2, <1>3, <1>5 DEF SnapOf
<1>7. OthersUse(w) /\ Used(w)' = Used(w) /\ c \in Used(w)
  BY <1>1, <1>2, <1>3 DEF OthersUse, Used
<1>8. \A u \in Workers \ {w} : cur[u] # c
  BY <1>0, <1>1, <1>2, <1>7, OfUsed DEF Used
<1>. QED
  BY <1>0, <1>2, <1>5, <1>6, <1>7, <1>8, SnapMove

\* What Kill does.
LEMMA KillFacts ==
  ASSUME ControlInv, NEW w \in Workers, Kill(w)
  PROVE  /\ w \in unsent /\ w \in waiting /\ w \in members /\ round = SYNC1 /\ BeforeSnapshot(phase[w])
         /\ members' = members \ {w} /\ waiting' = waiting \ {w} /\ pc[w] = "run" /\ pc'[w] = "none"
         /\ UNCHANGED <<room, alloced, bits, phase, gcCount, moved, swept, loc, round>>
         /\ poolFilled' = poolFilled \cup part[w] \cup Used(w) /\ Push("free", free[w])
         /\ cur'[w] = Null /\ filled'[w] = {} /\ part'[w] = {} /\ free'[w] = {} /\ Used(w)' = {}
         /\ \A u \in Workers \ {w} : /\ cur'[u] = cur[u] /\ filled'[u] = filled[u] /\ part'[u] = part[u]
                                     /\ free'[u] = free[u] /\ pc'[u] = pc[u]
<1>0. TypeInv
  BY DEF ControlInv
<1>1. w \in unsent /\ w \in waiting /\ w \in members /\ round = SYNC1
  BY <1>0 DEF Kill, Retire, TypeInv, SYNC1
<1>2. <<phase[w], round>> \in Successors /\ phase[w] \in Int
  <2>1. <<phase[w], round>> \in Successors
    BY <1>1 DEF ControlInv, PhaseInv, PhaseOf
  <2>2. phase[w] \in Phases
    BY <1>0 DEF TypeInv, TypeOK
  <2>. QED
    BY <2>1, <2>2 DEF Phases
<1>3. BeforeSnapshot(phase[w])
  BY <1>1, <1>2 DEF Successors, BeforeSnapshot, SYNC1, ASYNC, PRESYNC2
<1>4. Null \notin filled[w] /\ poolFilled' = poolFilled \cup part[w] \cup Used(w)
  BY <1>0, SegType DEF Kill, Used, TypeInv
<1>5. /\ cur'[w] = Null /\ filled'[w] = {} /\ part'[w] = {} /\ free'[w] = {} /\ pc'[w] = "none"
      /\ \A u \in Workers \ {w} : /\ cur'[u] = cur[u] /\ filled'[u] = filled[u] /\ part'[u] = part[u]
                                  /\ free'[u] = free[u] /\ pc'[u] = pc[u]
  BY <1>0 DEF Kill, TypeInv, TypeOK, Goto
<1>. QED
  BY <1>1, <1>3, <1>4, <1>5 DEF Kill, Retire, Used

LEMMA KillSnap ==
  ASSUME ControlInv, SnapInv, NEW w \in Workers, Kill(w) PROVE SnapInv'
<1>0. TypeInv
  BY DEF ControlInv
<1>1. /\ members' = members \ {w} /\ UNCHANGED <<snap, phase>> /\ poolFilled' = poolFilled \cup part[w] \cup Used(w)
      /\ cur'[w] = Null /\ \A u \in Workers \ {w} : cur'[u] = cur[u] /\ filled'[u] = filled[u]
  BY KillFacts DEF bits
<1>2. OthersUse(w) /\ SnapOf(w)'
  BY <1>0, <1>1 DEF OthersUse, SnapOf
<1>3. \A M : M = {} => SnapInv'
  BY <1>0, <1>1, <1>2, SnapMove
<1>. QED
  BY <1>3

LEMMA SweepSnap ==
  ASSUME ControlInv, OwnerInv, SnapInv, NEW w \in Workers,
         \/ \E empty \in BOOLEAN : Sweep(w, empty)
         \/ \E empty, some \in SUBSET Segs : SweepFilled(w, empty, some)
  PROVE  SnapInv'
<1>0. TypeInv
  BY DEF ControlInv
<1>1. PICK M : /\ M \subseteq Segs
               /\ \A s \in Segs : snap'[s] = IF s \in M THEN "base" ELSE snap[s]
               /\ \A u \in Workers : M \cap Used(u) = {}
               /\ poolFilled \subseteq poolFilled' \cup M
               /\ UNCHANGED <<cur, filled, members, phase>>
  <2>1. ASSUME NEW empty \in BOOLEAN, Sweep(w, empty)
        PROVE  /\ loc[w].seg \in Segs /\ \A u \in Workers : loc[w].seg \notin Used(u)
               /\ \A s \in Segs : snap'[s] = IF s = loc[w].seg THEN "base" ELSE snap[s]
               /\ poolFilled' = poolFilled /\ UNCHANGED <<cur, filled, members, phase>>
    <3>1. loc[w].seg # Null
      BY <2>1 DEF ControlInv, LocalInv, LocalOf, Sweep
    <3>2. snap' = [snap EXCEPT ![loc[w].seg] = "base"]
      BY <2>1 DEF Sweep
    <3>. QED
      BY <1>0, <2>1, <3>1, <3>2, OfHand DEF Sweep, TypeInv, TypeOK, own, rounds
  <2>2. ASSUME NEW empty \in SUBSET Segs, NEW some \in SUBSET Segs, SweepFilled(w, empty, some)
        PROVE  /\ \A u \in Workers : poolFilled \cap Used(u) = {}
               /\ \A s \in Segs : snap'[s] = IF s \in poolFilled THEN "base" ELSE snap[s]
               /\ UNCHANGED <<cur, filled, members, phase>>
    BY <1>0, <2>2, OfDead DEF SweepFilled, own, rounds
  <2>3. CASE \E empty \in BOOLEAN : Sweep(w, empty)
    <3>1. WITNESS {loc[w].seg}
    <3>. QED
      BY <2>1, <2>3
  <2>4. CASE \E empty, some \in SUBSET Segs : SweepFilled(w, empty, some)
    BY <1>0, <2>2, <2>4 DEF TypeInv
  <2>. QED
    BY <2>3, <2>4
<1>2. \A u \in Workers : SnapOf(u)'
  BY <1>0, <1>1 DEF SnapInv, SnapOf, Used, TypeInv, TypeOK
<1>3. \A u \in Workers : cur[u] \notin M
  BY <1>1, SegType DEF Used
<1>4. OthersUse(w) /\ Used(w)' = Used(w)
  BY <1>1 DEF OthersUse, Used
<1>. QED
  BY <1>0, <1>1, <1>2, <1>3, <1>4, SnapMove

LEMMA SnapStep == ControlInv /\ OwnerInv /\ SnapInv /\ [Next]_vars => SnapInv'
<1>. SUFFICES ASSUME ControlInv, OwnerInv, SnapInv, [Next]_vars PROVE SnapInv'
  OBVIOUS
<1>0. TypeInv
  BY DEF ControlInv
<1>1. CASE Next
  <2>1. ASSUME NEW w \in Workers, Pool(w) PROVE SnapInv'
    <3>1. CASE PopLoad(w) \/ PopCas(w) \/ ClearMarked(w) \/ Extend(w)
      BY <1>0, <3>1, SnapFrame DEF PopLoad, PopCas, ClearMarked, Extend, own, shared, rounds, bits
    <3>. QED
      BY <2>1, <3>1, UseFoundSnap DEF Pool
  <2>2. ASSUME NEW w \in Workers, Worker(w) PROVE SnapInv'
    <3>1. CASE AllocYoung(w) \/ GiveUp(w) \/ EndWait(w) \/ EndGC(w)
      BY <1>0, <3>1, SnapFrame DEF AllocYoung, GiveUp, EndWait, EndGC, own, shared, rounds, bits
    <3>2. CASE RequestGC(w)
      BY <1>0, <3>2, SnapFrame DEF RequestGC, StartGC, Announce, Begin, own, shared
    <3>3. CASE WaitGC(w)
      BY <1>0, <3>3, SnapFrame DEF WaitGC, StartGC, Announce, Begin, own, shared, rounds
    <3>. QED
      BY <2>2, <3>1, <3>2, <3>3, FindSegmentSnap, TakePartialSnap, AnswerSnap, AsyncSnap, SweepSnap DEF Worker
  <2>3. ASSUME NEW w \in Workers, StartInit(w) PROVE SnapInv'
    BY <1>0, <2>3, SnapFrame DEF StartInit, own, shared, rounds, bits
  <2>4. CASE NextRound \/ TakeMarked \/ PutMarked
    BY <1>0, <2>4, SnapFrame DEF NextRound, TakeMarked, PutMarked, Announce, Begin, own, shared, bits
  <2>. QED
    BY <1>1, <2>1, <2>2, <2>3, <2>4, RegisterSnap, SignalSnap, KillSnap DEF Next
<1>2. CASE UNCHANGED vars
  BY <1>0, <1>2, SnapFrame DEF vars
<1>. QED
  BY <1>1, <1>2

-----------------------------------------------------------------------------
(* The objects behind the snapshots.                                        *)

\* Only worker w allocates, and what it leaves has no objects behind a snapshot.
LEMMA YoungMove ==
  ASSUME YoungInv, NEW w \in Workers, OthersUse(w),
         \A s \in young' \ young : s \in Used(w)' /\ \A u \in Workers \ {w} : s \notin Used(u),
         \A s \in young' : s \in Used(w) => s \in Used(w)',
         \A u \in Workers \ {w} : \A s \in Used(u) : s \in young' => snap'[s] = snap[s] \/ snap'[s] # "limit",
         YoungOf(w)'
  PROVE  YoungInv'
<1>1. ASSUME NEW u \in Workers \ {w} PROVE Used(u)' = Used(u) /\ YoungOf(u)'
  <2>1. /\ cur'[u] = cur[u] /\ filled'[u] = filled[u] /\ (u \in members' <=> u \in members)
        /\ phase'[u] = phase[u]
    BY DEF OthersUse
  <2>2. Used(u)' = Used(u)
    BY <2>1 DEF Used
  <2>3. YoungOf(u)
    BY DEF YoungInv
  <2>. QED
    BY <2>1, <2>2, <2>3 DEF YoungOf
<1>2. ASSUME NEW s \in young' PROVE \E u \in Workers : s \in Used(u)'
  <2>1. CASE s \in young
    BY <1>1, <2>1 DEF YoungInv
  <2>2. CASE s \notin young
    BY <2>2
  <2>. QED
    BY <2>1, <2>2
<1>3. \A u \in Workers : YoungOf(u)'
  BY <1>1
<1>. QED
  BY <1>2, <1>3 DEF YoungInv

LEMMA YoungFrame ==
  ASSUME YoungInv, UNCHANGED <<snap, young, cur, filled, members, phase>>
  PROVE  YoungInv'
BY DEF YoungInv, YoungOf, Used

LEMMA AllocYoungYoung ==
  ASSUME ControlInv, OwnerInv, SnapInv, YoungInv, NEW w \in Workers, AllocYoung(w) PROVE YoungInv'
<1>0. TypeInv
  BY DEF ControlInv
<1>1. /\ UNCHANGED <<snap, cur, filled, members, phase>> /\ pc[w] = "run" /\ cur[w] # Null
      /\ ~BeforeSnapshot(phase[w]) /\ young' = young \cup {cur[w]}
  BY DEF AllocYoung, own, rounds
<1>2. w \in members
  BY <1>1 DEF ControlInv, LocalInv, LocalOf, Registering, InPoolCode
<1>3. snap[cur[w]] # "limit" /\ cur[w] \in Used(w)
  BY <1>1, <1>2 DEF SnapInv, SnapOf, Used
<1>4. Used(w)' = Used(w) /\ OthersUse(w)
  BY <1>1 DEF Used, OthersUse
<1>5. YoungOf(w)'
  BY <1>1, <1>3, <1>4 DEF YoungInv, YoungOf
<1>6. \A u \in Workers \ {w} : cur[w] \notin Used(u)
  BY <1>0, <1>3, OfUsed
<1>. QED
  BY <1>1, <1>3, <1>4, <1>5, <1>6, YoungMove

LEMMA UseFoundYoung ==
  ASSUME ControlInv, OwnerInv, SnapInv, YoungInv, NEW w \in Workers, UseFound(w) PROVE YoungInv'
<1>0. TypeInv
  BY DEF ControlInv
<1>1. PICK h : h = loc[w].seg
  OBVIOUS
<1>2. /\ h \in Segs /\ h # Null /\ cur[w] = Null /\ cur' = [cur EXCEPT ![w] = h]
      /\ snap' = SnapshotAt(loc[w].lp, {h}) /\ UNCHANGED <<filled, members, phase>>
      /\ w \in members => BeforeSnapshot(loc[w].lp) <=> BeforeSnapshot(phase[w])
      /\ IF BeforeSnapshot(loc[w].lp) THEN UNCHANGED young ELSE young' = young \cup {h}
  BY <1>1, UseFoundFacts DEF rounds
<1>3. snap[h] = "base" /\ \A u \in Workers : h \notin Used(u)
  BY <1>0, <1>1, <1>2, HandBase, OfHand
<1>4. cur'[w] = h /\ \A u \in Workers \ {w} : cur'[u] = cur[u]
  BY <1>0, <1>2 DEF TypeInv, TypeOK
<1>5. /\ \A s \in Segs \ {h} : snap'[s] = snap[s]
      /\ snap'[h] = IF BeforeSnapshot(loc[w].lp) THEN "limit" ELSE "base"
  BY <1>2, <1>3 DEF SnapshotAt
<1>6. OthersUse(w) /\ Used(w)' = Used(w) \cup {h}
  BY <1>2, <1>4 DEF OthersUse, Used
<1>7. h \notin young /\ young \subseteq Segs
  BY <1>0, <1>3 DEF YoungInv, TypeInv
<1>8. YoungOf(w)'
  <2>1. CASE BeforeSnapshot(loc[w].lp)
    BY <1>2, <1>5, <1>6, <1>7, <2>1 DEF YoungInv, YoungOf
  <2>2. CASE ~BeforeSnapshot(loc[w].lp)
    BY <1>2, <1>5, <1>6, <1>7, <2>2 DEF YoungInv, YoungOf
  <2>. QED
    BY <2>1, <2>2
<1>9. \A u \in Workers \ {w} : \A s \in Used(u) : s \in young' => snap'[s] = snap[s]
  BY <1>2, <1>3, <1>5, <1>7
<1>. QED
  BY <1>2, <1>3, <1>6, <1>8, <1>9, YoungMove

LEMMA TakePartialYoung ==
  ASSUME ControlInv, OwnerInv, SnapInv, YoungInv, NEW w \in Workers, NEW s0 \in Segs, TakePartial(w, s0)
  PROVE  YoungInv'
<1>0. TypeInv /\ w \in members
  BY DEF ControlInv, LocalInv, LocalOf, Registering, InPoolCode, TakePartial
<1>1. PICK c : c = cur[w]
  OBVIOUS
<1>2. /\ Used(w)' = Used(w) \cup ({s0} \ {Null})
      /\ \A u \in Workers \ {w} : cur'[u] = cur[u] /\ filled'[u] = filled[u]
  BY ReleaseFacts DEF TakePartial
<1>3. /\ s0 \in part[w] /\ s0 # Null /\ UNCHANGED <<members, phase>>
      /\ snap' = SnapshotAt(phase[w], {s0, c})
      /\ IF BeforeSnapshot(phase[w]) THEN UNCHANGED young ELSE young' = young \cup {s0}
  BY <1>1, SegType DEF TakePartial, rounds
<1>4. snap[s0] = "base" /\ \A u \in Workers : s0 \notin Used(u)
  BY <1>0, <1>3, OfPart DEF SnapInv
<1>5. OthersUse(w) /\ s0 \notin young /\ young \subseteq Segs
  BY <1>0, <1>2, <1>3, <1>4 DEF OthersUse, YoungInv, TypeInv
<1>6. CASE BeforeSnapshot(phase[w])
  <2>1. young' \cap Used(w)' = {}
    BY <1>0, <1>2, <1>3, <1>5, <1>6 DEF YoungInv, YoungOf
  <2>2. YoungOf(w)'
    BY <2>1 DEF YoungOf
  <2>3. ASSUME NEW u \in Workers \ {w}, NEW s \in Used(u) PROVE s \in young' => snap'[s] = snap[s]
    <3>1. s # s0 /\ s \in Segs
      BY <1>0, <1>4, OfUsed
    <3>2. s # c
      BY <1>0, <1>1, OfUsed, SegType DEF Used
    <3>. QED
      BY <1>3, <3>1, <3>2 DEF SnapshotAt
  <2>. QED
    BY <1>2, <1>3, <1>4, <1>5, <1>6, <2>2, <2>3, YoungMove
<1>7. CASE ~BeforeSnapshot(phase[w])
  <2>1. \A s \in Segs : snap'[s] = snap[s]
    BY <1>3, <1>7 DEF SnapshotAt
  <2>2. YoungOf(w)'
    BY <1>2, <1>3, <1>4, <1>5, <1>7, <2>1 DEF YoungInv, YoungOf
  <2>3. \A u \in Workers \ {w} : \A s \in Used(u) : s \in young' => snap'[s] = snap[s]
    BY <1>0, <2>1, OfUsed
  <2>. QED
    BY <1>2, <1>3, <1>4, <1>5, <1>7, <2>2, <2>3, YoungMove
<1>. QED
  BY <1>6, <1>7

LEMMA FindSegmentYoung ==
  ASSUME ControlInv, OwnerInv, SnapInv, YoungInv, NEW w \in Workers, FindSegment(w) PROVE YoungInv'
<1>0. TypeInv /\ w \in members
  BY DEF ControlInv, LocalInv, LocalOf, Registering, InPoolCode, FindSegment
<1>1. PICK c : c = cur[w]
  OBVIOUS
<1>2. /\ Used(w)' = Used(w) \cup ({Null} \ {Null})
      /\ \A u \in Workers \ {w} : cur'[u] = cur[u] /\ filled'[u] = filled[u]
  BY ReleaseFacts DEF FindSegment
<1>3. UNCHANGED <<members, phase, young>> /\ snap' = SnapshotAt(phase[w], {c})
  BY <1>1 DEF FindSegment, rounds
<1>5. OthersUse(w) /\ young \subseteq Segs
  BY <1>0, <1>2, <1>3 DEF OthersUse, TypeInv
<1>6. YoungOf(w)'
  <2>1. CASE BeforeSnapshot(phase[w])
    <3>1. young' \cap Used(w)' = {}
      BY <1>0, <1>2, <1>3, <2>1 DEF YoungInv, YoungOf
    <3>. QED
      BY <3>1 DEF YoungOf
  <2>2. CASE ~BeforeSnapshot(phase[w])
    <3>1. \A s \in Segs : snap'[s] = snap[s]
      BY <1>3, <2>2 DEF SnapshotAt
    <3>. QED
      BY <1>2, <1>3, <1>5, <3>1 DEF YoungInv, YoungOf
  <2>. QED
    BY <2>1, <2>2
<1>7. ASSUME NEW u \in Workers \ {w}, NEW s \in Used(u) PROVE snap'[s] = snap[s]
  <2>1. s \in Segs /\ s # c
    BY <1>0, <1>1, OfUsed, SegType DEF Used
  <2>. QED
    BY <1>3, <2>1 DEF SnapshotAt
<1>. QED
  BY <1>2, <1>3, <1>5, <1>6, <1>7, YoungMove

LEMMA SignalYoung ==
  ASSUME ControlInv, YoungInv, NEW w \in Workers, Signal(w) PROVE YoungInv'
<1>0. TypeInv /\ PhaseInv
  BY DEF ControlInv
<1>1. /\ UNCHANGED <<snap, young, cur, filled, members>> /\ w \in unsent
      /\ phase' = [phase EXCEPT ![w] = Pre(round)]
  BY DEF Signal, own, bits
<1>2. \A u \in Workers : BeforeSnapshot(phase'[u]) <=> BeforeSnapshot(phase[u])
  BY <1>0, <1>1, UnsentFacts DEF TypeInv, TypeOK
<1>3. \A u \in Workers : Used(u)' = Used(u)
  BY <1>1 DEF Used
<1>4. \A u \in Workers : YoungOf(u)'
  BY <1>1, <1>2, <1>3 DEF YoungInv, YoungOf
<1>. QED
  BY <1>1, <1>3, <1>4 DEF YoungInv

LEMMA AnswerYoung ==
  ASSUME ControlInv, YoungInv, NEW w \in Workers, NEW r \in Phases, Answer(w, r) PROVE YoungInv'
<1>0. TypeInv
  BY DEF ControlInv
<1>2. /\ UNCHANGED <<young, cur, filled, members>> /\ phase' = [phase EXCEPT ![w] = r] /\ w \in members
      /\ snap' = IF r = SYNC2 THEN Snapshot(w) ELSE snap
      /\ r # SYNC2 => BeforeSnapshot(r) <=> BeforeSnapshot(phase[w])
      /\ r = SYNC2 => ~BeforeSnapshot(r)
  BY AnswerFacts DEF own
<1>3. phase'[w] = r /\ \A u \in Workers \ {w} : phase'[u] = phase[u]
  BY <1>0, <1>2 DEF TypeInv, TypeOK
<1>4. \A s \in Segs : snap'[s] = snap[s] \/ snap'[s] # "limit"
  BY <1>0, <1>2 DEF Snapshot, TypeInv, TypeOK
<1>5. OthersUse(w) /\ Used(w)' = Used(w)
  BY <1>2, <1>3 DEF OthersUse, Used
<1>6. YoungOf(w)'
  BY <1>0, <1>2, <1>3, <1>4, <1>5 DEF YoungInv, YoungOf, TypeInv
<1>7. \A u \in Workers \ {w} : \A s \in Used(u) : s \in young' => snap'[s] = snap[s] \/ snap'[s] # "limit"
  BY <1>0, <1>2, <1>4 DEF TypeInv
<1>. QED
  BY <1>2, <1>5, <1>6, <1>7, YoungMove

LEMMA AsyncYoung ==
  ASSUME ControlInv, OwnerInv, YoungInv, NEW w \in Workers, NEW empty \in SUBSET Segs, NEW some \in SUBSET Segs,
         Async(w, empty, some)
  PROVE YoungInv'
<1>0. TypeInv /\ AsyncDoes(w, empty, some)
  BY AsyncFacts DEF ControlInv
<1>1. PICK K \in SUBSET Segs : K = Keeps(w, empty, some) /\ AsyncLeaves(w, empty, some, K)
  BY AsyncSegs
<1>2. /\ snap' = SnapReset(K, empty \cup some) /\ cur' = cur /\ Used(w)' = K /\ young' = young \ K
      /\ Used(w) \subseteq K \cup empty \cup some /\ w \in members
      /\ \A u \in Workers \ {w} : filled'[u] = filled[u] /\ (K \cup empty \cup some) \cap Used(u) = {}
      /\ \A s \in empty \cup some : s \in part[w] \/ (s \in Used(w) /\ snap[s] = "limit")
  BY <1>1 DEF AsyncLeaves
<1>3. /\ members' = members /\ \A u \in Workers \ {w} : phase'[u] = phase[u]
  BY <1>0 DEF AsyncDoes, TypeInv, TypeOK
<1>4. OthersUse(w)
  BY <1>2, <1>3 DEF OthersUse
<1>5. YoungOf(w)'
  BY <1>2 DEF YoungOf
<1>6. ASSUME NEW s \in young', s \in Used(w) PROVE FALSE
  <2>1. s \notin part[w]
    BY <1>0, <1>6, OfUsed
  <2>2. snap[s] = "limit" /\ s \in young
    BY <1>2, <1>6, <2>1
  <2>. QED
    BY <1>6, <2>2 DEF YoungInv, YoungOf
<1>7. \A u \in Workers \ {w} : \A s \in Used(u) : snap'[s] = snap[s]
  BY <1>0, <1>2, OfUsed DEF SnapReset
<1>. QED
  BY <1>2, <1>4, <1>5, <1>6, <1>7, YoungMove

LEMMA RegisterYoung ==
  ASSUME ControlInv, OwnerInv, SnapInv, YoungInv, NEW w \in Workers, Register(w) PROVE YoungInv'
<1>0. TypeInv
  BY DEF ControlInv
<1>1. PICK c : c = cur[w]
  OBVIOUS
<1>2. /\ w \notin members /\ members' = members \cup {w} /\ phase' = [phase EXCEPT ![w] = round]
      /\ UNCHANGED <<cur, filled>> /\ snap' = SnapshotAt(round, {c}) /\ c \in Segs /\ c # Null
      /\ filled[w] = {} /\ IF BeforeSnapshot(round) THEN young' = young \ {c} ELSE UNCHANGED young
  BY <1>1, RegisterFacts
<1>3. phase'[w] = round /\ \A u \in Workers \ {w} : phase'[u] = phase[u]
  BY <1>0, <1>2 DEF TypeInv, TypeOK
<1>4. snap[c] = "base"
  BY <1>1, <1>2 DEF SnapInv, SnapOf
<1>5. /\ \A s \in Segs \ {c} : snap'[s] = snap[s]
      /\ snap'[c] = IF BeforeSnapshot(round) THEN "limit" ELSE "base"
  BY <1>2, <1>4 DEF SnapshotAt
<1>6. OthersUse(w) /\ Used(w)' = Used(w) /\ Used(w) = {c}
  BY <1>1, <1>2, <1>3 DEF OthersUse, Used
<1>7. YoungOf(w)'
  BY <1>2, <1>3, <1>5, <1>6 DEF YoungOf
<1>8. \A u \in Workers \ {w} : \A s \in Used(u) : snap'[s] = snap[s]
  BY <1>0, <1>5, <1>6, OfUsed
<1>. QED
  BY <1>2, <1>6, <1>7, <1>8, YoungMove

LEMMA KillYoung ==
  ASSUME ControlInv, OwnerInv, YoungInv, NEW w \in Workers, Kill(w) PROVE YoungInv'
<1>1. /\ members' = members \ {w} /\ UNCHANGED <<young, snap, phase>> /\ BeforeSnapshot(phase[w])
      /\ w \in members /\ Used(w)' = {} /\ \A u \in Workers \ {w} : cur'[u] = cur[u] /\ filled'[u] = filled[u]
  BY KillFacts DEF bits
<1>2. OthersUse(w) /\ YoungOf(w)'
  BY <1>1 DEF OthersUse, YoungOf
<1>3. young \cap Used(w) = {}
  BY <1>1 DEF YoungInv, YoungOf
<1>. QED
  BY <1>1, <1>2, <1>3, YoungMove

LEMMA SweepYoung ==
  ASSUME ControlInv, YoungInv, NEW w \in Workers,
         \/ \E empty \in BOOLEAN : Sweep(w, empty)
         \/ \E empty, some \in SUBSET Segs : SweepFilled(w, empty, some)
  PROVE  YoungInv'
<1>0. TypeInv
  BY DEF ControlInv
<1>1. /\ UNCHANGED <<young, cur, filled, members, phase>>
      /\ \A s \in Segs : snap'[s] = snap[s] \/ snap'[s] # "limit"
  BY <1>0 DEF Sweep, SweepFilled, own, rounds, TypeInv, TypeOK
<1>2. \A u \in Workers : Used(u)' = Used(u)
  BY <1>1 DEF Used
<1>3. \A u \in Workers : YoungOf(u)'
  BY <1>0, <1>1, <1>2 DEF YoungInv, YoungOf, TypeInv
<1>. QED
  BY <1>1, <1>2, <1>3 DEF YoungInv

LEMMA YoungStep == ControlInv /\ OwnerInv /\ SnapInv /\ YoungInv /\ [Next]_vars => YoungInv'
<1>. SUFFICES ASSUME ControlInv, OwnerInv, SnapInv, YoungInv, [Next]_vars PROVE YoungInv'
  OBVIOUS
<1>1. CASE Next
  <2>1. ASSUME NEW w \in Workers, Pool(w) PROVE YoungInv'
    <3>1. CASE PopLoad(w) \/ PopCas(w) \/ ClearMarked(w) \/ Extend(w)
      BY <3>1, YoungFrame DEF PopLoad, PopCas, ClearMarked, Extend, own, rounds, bits
    <3>. QED
      BY <2>1, <3>1, UseFoundYoung DEF Pool
  <2>2. ASSUME NEW w \in Workers, Worker(w) PROVE YoungInv'
    <3>1. CASE GiveUp(w) \/ EndWait(w) \/ EndGC(w)
      BY <3>1, YoungFrame DEF GiveUp, EndWait, EndGC, own, rounds, bits
    <3>2. CASE RequestGC(w)
      BY <3>2, YoungFrame DEF RequestGC, StartGC, Announce, Begin, own
    <3>3. CASE WaitGC(w)
      BY <3>3, YoungFrame DEF WaitGC, StartGC, Announce, Begin, own, rounds
    <3>. QED
      BY <2>2, <3>1, <3>2, <3>3, AllocYoungYoung, FindSegmentYoung, TakePartialYoung, AnswerYoung, AsyncYoung,
         SweepYoung DEF Worker
  <2>3. ASSUME NEW w \in Workers, StartInit(w) PROVE YoungInv'
    BY <2>3, YoungFrame DEF StartInit, own, rounds, bits
  <2>4. CASE NextRound \/ TakeMarked \/ PutMarked
    BY <2>4, YoungFrame DEF NextRound, TakeMarked, PutMarked, Announce, Begin, own, bits
  <2>. QED
    BY <1>1, <2>1, <2>2, <2>3, <2>4, RegisterYoung, SignalYoung, KillYoung DEF Next
<1>2. CASE UNCHANGED vars
  BY <1>2, YoungFrame DEF vars
<1>. QED
  BY <1>1, <1>2

-----------------------------------------------------------------------------
(* The bits of the collect bitmaps.                                         *)

Reusable == On("partial") \cup On("marked") \cup Apart

LEMMA BitsInvIs ==
  BitsInv <=> /\ Unused \cap (covered \cup dirty \cup stale) = {}
              /\ Reusable \cap stale = {}
              /\ round = ASYNC => On("partial") \cap dirty = {}
              /\ \A w \in members : BitsOf(w)
BY DEF BitsInv, Reusable, On, Apart

LEMMA UnusedIs ==
  \A s : s \in Unused <=> \/ s \in On("free") \cup swept
                          \/ s \in Segs /\ s > alloced
                          \/ \E w \in Workers : s \in free[w]
BY DEF Unused, On

\* The lists and the segments without a block do not change.
LEMMA ListsFrame ==
  ASSUME OwnerInv, UNCHANGED <<top, next>>, moved'.list = moved.list
  PROVE  /\ \A st \in Stacks : On(st)' = On(st)
         /\ Apart' = Apart /\ Reusable' = Reusable
         /\ UNCHANGED <<swept, alloced, free>> => Unused' = Unused
<1>1. (\A st \in Stacks : On(st)' = On(st)) /\ Apart' = Apart
  BY ListsKept DEF OwnerInv
<1>2. Reusable' = Reusable /\ On("free")' = On("free")
  BY <1>1 DEF Reusable, Stacks
<1>3. UNCHANGED <<swept, alloced, free>> => Unused' = Unused
  BY <1>2 DEF Unused, On
<1>. QED
  BY <1>1, <1>2, <1>3

\* Segments from elsewhere are pushed.
LEMMA PushLists ==
  ASSUME ControlInv, OwnerInv, NEW st \in Stacks, NEW S \in SUBSET Segs, Push(st, S),
         S \cap Places4 = {}, moved'.list = moved.list
  PROVE  /\ On(st)' = On(st) \cup S
         /\ \A t \in Stacks \ {st} : On(t)' = On(t)
         /\ Apart' = Apart /\ \A s \in Segs \ S : next'[s] = next[s]
<1>1. \A t \in Stacks : S \cap On(t) = {}
  BY DEF Places4, Stacks
<1>2. TypeInv /\ LinksInv /\ S \cap Apart = {}
  BY DEF ControlInv, OwnerInv, Places4
<1>3. \A s \in Segs \ S : next'[s] = next[s]
  BY <1>2, ListTypes, PushTypes
<1>. QED
  BY <1>1, <1>2, <1>3, ListsPushed

\* A worker has popped the segment h.
Popped(w, st, h) ==
  /\ st = loc[w].st /\ h = loc[w].old /\ h \in On(st) /\ top[st] = h
  /\ loc'[w].seg = h /\ loc'[w].lp = loc[w].lp /\ loc'[w].use = loc[w].use /\ loc'[w].st = st
  /\ pc'[w] = IF loc[w].use = "sweep" THEN "sweep" ELSE IF st = "marked" THEN "clear" ELSE "set"
  /\ On(st)' = On(st) \ {h}

LEMMA PopFacts ==
  ASSUME ControlInv, OwnerInv, NEW w \in Workers, PopCas(w), ~raced'
  PROVE  /\ UNCHANGED <<own, next, poolFilled, alloced, bits, rounds, swept>>
         /\ \A u \in Workers \ {w} : pc'[u] = pc[u] /\ loc'[u] = loc[u]
         /\ Apart' = Apart /\ pc[w] = "cas" /\ loc[w].st \in Stacks
         /\ \A t \in Stacks \ {loc[w].st} : On(t)' = On(t)
         /\ \/ pc'[w] = "load" /\ \A t \in Stacks : On(t)' = On(t)
            \/ \E st \in Stacks, h \in Segs : Popped(w, st, h)
<1>1. PICK l \in Labels, r \in LocalType : PopCases(w, l, r)
  BY PopCasMoves DEF ControlInv
<1>2. /\ UNCHANGED <<own, next, poolFilled, alloced, bits, rounds, swept, moved>> /\ pc[w] = "cas"
      /\ loc[w].seg = Null /\ loc[w].old # Null /\ loc[w].st \in Stacks /\ TypeInv /\ LinksInv
  BY DEF PopCas, own, rounds, ControlInv, LocalInv, LocalOf, OwnerInv
<1>3. CASE l = "load" /\ UNCHANGED top
  <2>1. (\A t \in Stacks : On(t)' = On(t)) /\ Apart' = Apart
    BY <1>2, <1>3, ListsKept
  <2>. QED
    BY <1>1, <1>2, <1>3, <2>1 DEF PopCases, Moves
<1>4. CASE ~(l = "load" /\ UNCHANGED top)
  <2>0. PICK st \in Stacks : st = loc[w].st
    BY <1>2
  <2>2. PICK h \in Segs : h = loc[w].old
    BY <1>2, FieldTypes DEF TypeInv, Link
  <2>1. r.seg = h /\ top[st] = h /\ top' = [top EXCEPT ![st] = next[h]]
    BY <1>1, <1>4, <2>0, <2>2 DEF PopCases
  <2>3. /\ On(st)' = On(st) \ {h} /\ h \in On(st) /\ Apart' = Apart
        /\ \A t \in Stacks \ {st} : On(t)' = On(t)
    <3>1. top[st] # Null /\ top' = [top EXCEPT ![st] = next[top[st]]] /\ next' = next
          /\ moved'.list = moved.list
      BY <1>2, <2>1, <2>2, SegType
    <3>. QED
      BY <1>2, <2>1, <3>1, ListsPopped
  <2>4. Popped(w, st, h)
    BY <1>1, <1>4, <2>0, <2>1, <2>2, <2>3 DEF Popped, PopCases, Moves
  <2>. QED
    BY <1>1, <1>2, <2>0, <2>3, <2>4 DEF PopCases, Moves
<1>. QED
  BY <1>3, <1>4

\* Only worker w moves segments, and what it puts back is clear.
OthersAnswer(w) == \A u \in members' \ {w} :
  /\ u \in members /\ cur'[u] = cur[u] /\ filled'[u] = filled[u] /\ part'[u] = part[u]
  /\ pc'[u] = pc[u] /\ loc'[u] = loc[u] /\ (Answered(u)' => Answered(u))

LEMMA BitsMove ==
  ASSUME BitsInv, NEW w, OthersAnswer(w), stale' \subseteq stale, dirty' \subseteq dirty,
         \A s \in covered' : s \in covered \/ s \notin Unused',
         \A s \in Unused' : s \in Unused \/ s \notin covered' \cup dirty' \cup stale',
         \A s \in Reusable' : s \in Reusable \/ s \notin stale',
         round' = ASYNC => \A s \in On("partial")' : (round = ASYNC /\ s \in On("partial")) \/ s \notin dirty',
         w \in members' => BitsOf(w)'
  PROVE  BitsInv'
<1>1. ASSUME NEW u \in members' \ {w} PROVE BitsOf(u)'
  <2>1. /\ u \in members /\ cur'[u] = cur[u] /\ filled'[u] = filled[u] /\ part'[u] = part[u]
        /\ pc'[u] = pc[u] /\ loc'[u] = loc[u] /\ (Answered(u)' => Answered(u))
    BY DEF OthersAnswer
  <2>2. BitsOf(u) /\ Occupied(u)' = Occupied(u)
    BY <2>1 DEF BitsInv, Occupied
  <2>. QED
    BY <2>1, <2>2 DEF BitsOf
<1>2. \A u \in members' : BitsOf(u)'
  BY <1>1
<1>3. /\ Unused \cap (covered \cup dirty \cup stale) = {}
      /\ Reusable \cap stale = {}
      /\ round = ASYNC => On("partial") \cap dirty = {}
  BY BitsInvIs
<1>4. /\ Unused' \cap (covered' \cup dirty' \cup stale') = {}
      /\ Reusable' \cap stale' = {}
      /\ round' = ASYNC => On("partial")' \cap dirty' = {}
  BY <1>3
<1>. QED
  BY <1>2, <1>4 DEF BitsInv, Reusable, On, Apart

LEMMA PopLoadBits ==
  ASSUME ControlInv, OwnerInv, BitsInv, NEW w \in Workers, PopLoad(w) PROVE BitsInv'
<1>0. TypeInv
  BY DEF ControlInv
<1>1. PICK l \in Labels, r \in LocalType : PopLoads(w, l, r)
  BY PopLoadMoves DEF ControlInv
<1>2. /\ UNCHANGED <<top, next, moved, swept, alloced, free, cur, filled, part>>
      /\ UNCHANGED <<covered, dirty, stale, members, round, waiting>>
  BY DEF PopLoad, own, shared, bits, rounds
<1>3. /\ pc'[w] \notin {"set", "clear"}
      /\ \A u \in Workers \ {w} : pc'[u] = pc[u] /\ loc'[u] = loc[u]
  BY <1>1 DEF PopLoads, Moves
<1>4. (\A st \in Stacks : On(st)' = On(st)) /\ Reusable' = Reusable /\ Unused' = Unused
  BY <1>2, ListsFrame
<1>5. OthersAnswer(w) /\ (w \in members => Occupied(w)' = Occupied(w) /\ BitsOf(w))
  BY <1>0, <1>2, <1>3 DEF OthersAnswer, Answered, Occupied, BitsInv, TypeInv
<1>6. w \in members' => BitsOf(w)'
  BY <1>2, <1>3, <1>5 DEF BitsOf, Answered
<1>7. "partial" \in Stacks
  BY StackKinds
<1>. QED
  BY <1>2, <1>4, <1>5, <1>6, <1>7, BitsInvIs, BitsMove

LEMMA PopCasBits ==
  ASSUME ControlInv, OwnerInv, BitsInv, NEW w \in Workers, PopCas(w), ~raced' PROVE BitsInv'
<1>0. TypeInv
  BY DEF ControlInv
<1>1. /\ UNCHANGED <<moved, swept, alloced, free, cur, filled, part>>
      /\ UNCHANGED <<covered, dirty, stale, members, round, waiting>>
      /\ \A u \in Workers \ {w} : pc'[u] = pc[u] /\ loc'[u] = loc[u]
      /\ Apart' = Apart /\ \A t \in Stacks \ {loc[w].st} : On(t)' = On(t)
      /\ \/ pc'[w] = "load" /\ \A t \in Stacks : On(t)' = On(t)
         \/ \E st \in Stacks, h \in Segs : Popped(w, st, h)
  BY PopFacts DEF own, bits, rounds
<1>2. \A t \in Stacks : On(t)' \subseteq On(t)
  BY <1>1 DEF Popped
<1>3. Reusable' \subseteq Reusable /\ Unused' \subseteq Unused /\ On("partial")' \subseteq On("partial")
  <2>1. /\ On("partial")' \subseteq On("partial") /\ On("marked")' \subseteq On("marked")
        /\ On("free")' \subseteq On("free")
    BY <1>2 DEF Stacks
  <2>. QED
    BY <1>1, <2>1 DEF Reusable, Unused, On
<1>4. OthersAnswer(w) /\ (w \in members => Occupied(w)' = Occupied(w) /\ BitsOf(w))
  BY <1>0, <1>1 DEF OthersAnswer, Answered, Occupied, BitsInv, TypeInv
<1>5. ASSUME w \in members PROVE BitsOf(w)'
  <2>1. /\ Occupied(w)' \cap stale' = {} /\ (Answered(w)' => Occupied(w)' \cap dirty' = {})
        /\ (Answered(w)' <=> Answered(w))
    BY <1>1, <1>4, <1>5 DEF BitsOf, Answered
  <2>2. CASE pc'[w] = "load"
    BY <2>1, <2>2 DEF BitsOf
  <2>3. CASE \E st \in Stacks, h \in Segs : Popped(w, st, h)
    <3>1. PICK st \in Stacks, h \in Segs : Popped(w, st, h)
      BY <2>3
    <3>2. /\ h \in On(st) /\ loc'[w].seg = h
          /\ pc'[w] = IF loc[w].use = "sweep" THEN "sweep" ELSE IF st = "marked" THEN "clear" ELSE "set"
      BY <3>1 DEF Popped
    <3>3. st = "marked" => h \notin stale
      BY <3>2, BitsInvIs DEF Reusable
    <3>4. st = "partial" => h \notin stale /\ (Answered(w) => h \notin dirty)
      BY <3>2, BitsInvIs DEF Reusable, Answered
    <3>5. st = "free" => h \notin stale /\ h \notin dirty
      BY <3>2, BitsInvIs, UnusedIs
    <3>. QED
      BY <1>1, <2>1, <3>2, <3>3, <3>4, <3>5 DEF BitsOf, Stacks
  <2>. QED
    BY <1>1, <2>2, <2>3
<1>. QED
  BY <1>1, <1>3, <1>4, <1>5, BitsInvIs, BitsMove

LEMMA ClearMarkedBits ==
  ASSUME ControlInv, OwnerInv, BitsInv, NEW w \in Workers, ClearMarked(w), ~raced' PROVE BitsInv'
<1>0. TypeInv
  BY DEF ControlInv
<1>1. /\ UNCHANGED <<top, next, moved, swept, alloced, free, cur, filled, part>>
      /\ UNCHANGED <<covered, members, round, waiting, loc>> /\ pc[w] = "clear"
      /\ ~(loc[w].lp = ASYNC /\ phase[w] # ASYNC) /\ pc' = [pc EXCEPT ![w] = "set"]
  BY DEF ClearMarked, own, shared, rounds, Goto
<1>2. \E S : dirty' = dirty \ S /\ stale' = stale \ S /\ (phase[w] = ASYNC => S = {loc[w].seg})
  BY DEF ClearMarked, Clear, ClearsTaken
<1>3. (\A st \in Stacks : On(st)' = On(st)) /\ Reusable' = Reusable /\ Unused' = Unused
  BY <1>1, ListsFrame
<1>4. pc'[w] = "set" /\ \A u \in Workers \ {w} : pc'[u] = pc[u]
  BY <1>0, <1>1 DEF TypeInv
<1>5. OthersAnswer(w) /\ (w \in members => Occupied(w)' = Occupied(w) /\ BitsOf(w))
  BY <1>0, <1>1, <1>4 DEF OthersAnswer, Answered, Occupied, BitsInv, TypeInv
<1>6. ASSUME w \in members PROVE BitsOf(w)'
  <2>1. /\ Occupied(w)' \cap stale' = {} /\ (Answered(w)' => Occupied(w)' \cap dirty' = {})
        /\ (Answered(w)' <=> Answered(w))
    BY <1>1, <1>2, <1>5, <1>6 DEF BitsOf, Answered
  <2>2. loc[w].seg \notin stale'
    BY <1>1, <1>2, <1>5, <1>6 DEF BitsOf
  <2>3. Answered(w) => phase[w] = ASYNC
    BY <1>6 DEF ControlInv, PhaseInv, PhaseOf, Answered
  <2>. QED
    BY <1>1, <1>2, <1>4, <2>1, <2>2, <2>3 DEF BitsOf
<1>7. "partial" \in Stacks /\ stale' \subseteq stale /\ dirty' \subseteq dirty
  BY <1>2, StackKinds
<1>. QED
  BY <1>1, <1>3, <1>5, <1>6, <1>7, BitsInvIs, BitsMove

LEMMA ExtendBits ==
  ASSUME ControlInv, OwnerInv, BitsInv, NEW w \in Workers, Extend(w) PROVE BitsInv'
<1>0. TypeInv
  BY DEF ControlInv
<1>1. PICK l \in Labels, r \in LocalType : Extends(w, l, r)
  BY ExtendMoves DEF ControlInv
<1>2. /\ UNCHANGED <<top, next, moved, swept, free, cur, filled, part>>
      /\ UNCHANGED <<covered, dirty, stale, members, round, waiting>>
  BY DEF Extend, own, bits, rounds
<1>3. /\ \A u \in Workers \ {w} : pc'[u] = pc[u] /\ loc'[u] = loc[u]
      /\ pc'[w] \in {"none", "fail"} \/ (pc'[w] = "set" /\ alloced' = alloced + 1 /\ alloced + 1 \in Segs /\ loc'[w].seg = alloced + 1)
      /\ alloced' \in {alloced, alloced + 1}
  BY <1>1 DEF Extends, Moves
<1>4. (\A st \in Stacks : On(st)' = On(st)) /\ Reusable' = Reusable
  BY <1>2, ListsFrame
<1>5. alloced \in Nat
  BY <1>0, CountType DEF TypeInv, TypeOK
<1>6. Unused' \subseteq Unused
  <2>1. \A s \in Segs : s > alloced' => s > alloced
    BY <1>3, <1>5, SegType
  <2>. QED
    BY <1>2, <1>4, <2>1 DEF Unused, On, Stacks
<1>7. OthersAnswer(w) /\ (w \in members => Occupied(w)' = Occupied(w) /\ BitsOf(w))
  BY <1>0, <1>2, <1>3 DEF OthersAnswer, Answered, Occupied, BitsInv, TypeInv
<1>8. ASSUME w \in members PROVE BitsOf(w)'
  <2>1. /\ Occupied(w)' \cap stale' = {} /\ (Answered(w)' => Occupied(w)' \cap dirty' = {})
    BY <1>2, <1>7, <1>8 DEF BitsOf, Answered
  <2>2. alloced + 1 \in Segs => alloced + 1 \notin stale \cup dirty
    BY <1>5, BitsInvIs, UnusedIs
  <2>. QED
    BY <1>2, <1>3, <2>1, <2>2 DEF BitsOf
<1>9. "partial" \in Stacks
  BY StackKinds
<1>. QED
  BY <1>2, <1>4, <1>6, <1>7, <1>8, <1>9, BitsInvIs, BitsMove

LEMMA UseFoundBits ==
  ASSUME ControlInv, OwnerInv, BitsInv, NEW w \in Workers, UseFound(w) PROVE BitsInv'
<1>0. TypeInv
  BY DEF ControlInv
<1>1. PICK h \in Segs : h = loc[w].seg
  BY UseFoundFacts
<1>2. /\ UNCHANGED <<top, next, moved, swept, alloced, free, filled, part>>
      /\ UNCHANGED <<dirty, stale, members, round, waiting>> /\ covered' \subseteq covered \cup {h}
      /\ cur' = [cur EXCEPT ![w] = h] /\ pc[w] = "set" /\ pc'[w] \in {"run", "register"} /\ h # Null
      /\ cur[w] = Null /\ loc' = [loc EXCEPT ![w] = Local] /\ \A u \in Workers \ {w} : pc'[u] = pc[u]
  BY <1>1, UseFoundFacts DEF shared, rounds
<1>3. (\A st \in Stacks : On(st)' = On(st)) /\ Reusable' = Reusable /\ Unused' = Unused
  BY <1>2, ListsFrame
<1>4. h \notin Unused
  BY <1>0, <1>1, <1>2, OfHand, UnusedIs DEF Places4
<1>5. cur'[w] = h /\ \A u \in Workers \ {w} : cur'[u] = cur[u] /\ loc'[u] = loc[u]
  BY <1>0, <1>2 DEF TypeInv, TypeOK
<1>6. OthersAnswer(w) /\ Occupied(w)' = Occupied(w) \cup {h}
  BY <1>0, <1>2, <1>5 DEF OthersAnswer, Answered, Occupied, TypeInv
<1>7. ASSUME w \in members PROVE BitsOf(w)'
  <2>1. BitsOf(w) /\ (Answered(w)' <=> Answered(w))
    BY <1>2, <1>7 DEF BitsInv, Answered
  <2>. QED
    BY <1>1, <1>2, <1>6, <2>1 DEF BitsOf
<1>8. "partial" \in Stacks
  BY StackKinds
<1>. QED
  BY <1>2, <1>3, <1>4, <1>6, <1>7, <1>8, BitsInvIs, BitsMove

LEMMA TakePartialBits ==
  ASSUME ControlInv, OwnerInv, BitsInv, NEW w \in Workers, NEW s0 \in Segs, TakePartial(w, s0)
  PROVE  BitsInv'
<1>0. TypeInv /\ w \in members
  BY DEF ControlInv, LocalInv, LocalOf, Registering, InPoolCode, TakePartial
<1>1. /\ UNCHANGED <<top, next, moved, swept, alloced, free, covered>>
      /\ UNCHANGED <<dirty, stale, members, round, waiting>> /\ s0 \in part[w]
      /\ part' = [part EXCEPT ![w] = part[w] \ {s0}] /\ loc' = [loc EXCEPT ![w] = Local]
      /\ pc' = [pc EXCEPT ![w] = "run"]
  BY DEF TakePartial, shared, rounds, Goto
<1>2. /\ cur'[w] = s0 /\ filled'[w] = filled[w] \cup ({cur[w]} \ {Null})
      /\ \A u \in Workers \ {w} : cur'[u] = cur[u] /\ filled'[u] = filled[u]
  BY ReleaseFacts DEF TakePartial
<1>3. (\A st \in Stacks : On(st)' = On(st)) /\ Reusable' = Reusable /\ Unused' = Unused
  BY <1>1, ListsFrame
<1>4. /\ part'[w] = part[w] \ {s0} /\ pc'[w] = "run"
      /\ \A u \in Workers \ {w} : part'[u] = part[u] /\ loc'[u] = loc[u] /\ pc'[u] = pc[u]
  BY <1>0, <1>1 DEF TypeInv
<1>5. OthersAnswer(w) /\ Occupied(w)' \subseteq Occupied(w)
  BY <1>0, <1>1, <1>2, <1>4, SegType DEF OthersAnswer, Answered, Occupied, TypeInv
<1>6. BitsOf(w)'
  <2>1. BitsOf(w) /\ (Answered(w)' <=> Answered(w))
    BY <1>0, <1>1 DEF BitsInv, Answered
  <2>. QED
    BY <1>1, <1>4, <1>5, <2>1 DEF BitsOf
<1>7. "partial" \in Stacks
  BY StackKinds
<1>. QED
  BY <1>1, <1>3, <1>5, <1>6, <1>7, BitsInvIs, BitsMove

LEMMA FindSegmentBits ==
  ASSUME ControlInv, OwnerInv, BitsInv, NEW w \in Workers, FindSegment(w) PROVE BitsInv'
<1>0. TypeInv /\ w \in members
  BY DEF ControlInv, LocalInv, LocalOf, Registering, InPoolCode, FindSegment
<1>1. PICK l \in Labels, r \in LocalType : Finds(w, l, r)
  BY <1>0, FindSegmentMoves
<1>2. /\ UNCHANGED <<top, next, moved, swept, alloced, part, covered>>
      /\ UNCHANGED <<dirty, stale, members, round, waiting>>
  BY DEF FindSegment, shared, rounds
<1>3. /\ cur'[w] = Null /\ filled'[w] = filled[w] \cup ({cur[w]} \ {Null})
      /\ \A u \in Workers \ {w} : cur'[u] = cur[u] /\ filled'[u] = filled[u]
  BY ReleaseFacts DEF FindSegment
<1>4. /\ \A u \in Workers \ {w} : pc'[u] = pc[u] /\ loc'[u] = loc[u]
      /\ pc'[w] \in {"fail", "load"} \/ (pc'[w] = "set" /\ loc'[w].seg \in free[w])
  BY <1>1 DEF Finds, Moves
<1>5. \A u \in Workers : free'[u] \subseteq free[u]
  BY <1>0, <1>1 DEF Finds, TypeInv
<1>6. (\A st \in Stacks : On(st)' = On(st)) /\ Reusable' = Reusable
  BY <1>2, ListsFrame
<1>7. Unused' \subseteq Unused
  BY <1>2, <1>5, <1>6 DEF Unused, On, Stacks
<1>8. OthersAnswer(w) /\ Occupied(w)' \subseteq Occupied(w)
  BY <1>0, <1>2, <1>3, <1>4 DEF OthersAnswer, Answered, Occupied, TypeInv
<1>9. BitsOf(w)'
  <2>1. BitsOf(w) /\ (Answered(w)' <=> Answered(w))
    BY <1>0, <1>2 DEF BitsInv, Answered
  <2>2. \A s \in free[w] : s \notin dirty \cup stale
    BY BitsInvIs, UnusedIs
  <2>. QED
    BY <1>2, <1>4, <1>8, <2>1, <2>2 DEF BitsOf
<1>10. "partial" \in Stacks
  BY StackKinds
<1>. QED
  BY <1>2, <1>6, <1>7, <1>8, <1>9, <1>10, BitsInvIs, BitsMove

\* Steps that leave the lists and the bits alone.
LEMMA BitsFrame ==
  ASSUME ControlInv, OwnerInv, BitsInv, NEW w \in Workers,
         UNCHANGED <<top, next, moved, swept, alloced, free, cur, filled, part, covered, dirty, stale, members,
                     round, waiting>>,
         \A u \in Workers \ {w} : pc'[u] = pc[u] /\ loc'[u] = loc[u],
         (pc'[w] = pc[w] /\ loc'[w] = loc[w]) \/ pc'[w] \notin {"set", "clear"}
  PROVE  BitsInv'
<1>1. (\A st \in Stacks : On(st)' = On(st)) /\ Reusable' = Reusable /\ Unused' = Unused
  BY ListsFrame
<1>2. OthersAnswer(w)
  BY DEF OthersAnswer, Answered, ControlInv, TypeInv
<1>3. w \in members' => BitsOf(w)'
  BY DEF BitsInv, BitsOf, Answered, Occupied
<1>4. "partial" \in Stacks
  BY StackKinds
<1>. QED
  BY <1>1, <1>2, <1>3, <1>4, BitsInvIs, BitsMove

\* A round is announced: no worker has answered it.
LEMMA RoundBits ==
  ASSUME ControlInv, OwnerInv, BitsInv,
         UNCHANGED <<swept, alloced, free, cur, filled, part, members, covered>>,
         waiting' = members, \A u \in members : (pc'[u] = pc[u] /\ loc'[u] = loc[u]) \/ pc'[u] \notin {"set", "clear"},
         stale' \subseteq stale \cup dirty, dirty' \subseteq dirty \cup covered,
         On("free")' = On("free"), Reusable' \subseteq Reusable,
         round' = ASYNC => On("partial")' = {},
         stale' \subseteq stale \/ (/\ Reusable \cap dirty = {}
                                   /\ \A u \in members : /\ Answered(u) /\ (pc[u] = "clear" => loc[u].lp = ASYNC))
  PROVE  BitsInv'
<1>1. Unused' = Unused
  BY DEF Unused, On
<1>2. Unused' \cap (covered' \cup dirty' \cup stale') = {}
  BY <1>1, BitsInvIs
<1>3. Reusable' \cap stale' = {}
  BY BitsInvIs
<1>4. ASSUME NEW u \in members PROVE BitsOf(u)'
  <2>1. BitsOf(u) /\ ~Answered(u)' /\ Occupied(u)' = Occupied(u)
    BY <1>4 DEF BitsInv, Answered, Occupied
  <2>2. Occupied(u) \cap stale' = {}
    BY <2>1 DEF BitsOf
  <2>3. pc[u] = "set" => loc[u].seg \notin stale'
    BY <2>1 DEF BitsOf
  <2>4. pc[u] = "clear" /\ loc[u].lp # ASYNC => loc[u].seg \notin stale'
    BY <2>1 DEF BitsOf
  <2>. QED
    BY <2>1, <2>2, <2>3, <2>4 DEF BitsOf
<1>5. \A u \in members' : BitsOf(u)'
  BY <1>4
<1>. QED
  BY <1>2, <1>3, <1>5 DEF BitsInv, Reusable, On, Apart

LEMMA StartGCBits ==
  ASSUME ControlInv, OwnerInv, BitsInv, StartGC, UNCHANGED <<own, shared, covered, swept>>,
         \A u \in members : (pc'[u] = pc[u] /\ loc'[u] = loc[u]) \/ pc'[u] \notin {"set", "clear"}
  PROVE  BitsInv'
<1>0. TypeInv
  BY DEF ControlInv
<1>1. /\ Announce(SYNC1) /\ round = ASYNC /\ waiting = {} /\ UNCHANGED moved /\ ~moved.on
      /\ top["marked"] = Null
  BY StartFacts
<1>2. /\ round' = SYNC1 /\ waiting' = members /\ members' = members
      /\ dirty' \subseteq dirty \cup covered /\ stale' \subseteq stale \cup dirty
  BY <1>1, AnnounceFacts
<1>3. moved.list = Null /\ next \in [Segs -> Link]
  BY <1>0, <1>1, ListTypes DEF ControlInv, CycleInv
<1>4. On("marked") = {} /\ Apart = {}
  BY <1>1, <1>3, ChainNull DEF On, Apart, ListFrom
<1>5. (\A st \in Stacks : On(st)' = On(st)) /\ Reusable' = Reusable
  BY <1>1, ListsFrame DEF shared
<1>6. Reusable \cap dirty = {}
  BY <1>1, <1>4, BitsInvIs DEF Reusable
<1>7. ASSUME NEW u \in members PROVE Answered(u) /\ (pc[u] = "clear" => loc[u].lp = ASYNC)
  <2>1. Answered(u) /\ phase[u] = ASYNC
    BY <1>1 DEF Answered, ControlInv, PhaseInv, PhaseOf
  <2>2. u \in Workers /\ loc[u] \in LocalType
    BY <1>0 DEF TypeInv
  <2>3. pc[u] = "clear" => Finding(u)
    BY <2>2, FieldTypes DEF ControlInv, LocalInv, LocalOf, Finding, Registering, InPoolCode
  <2>. QED
    BY <1>1, <2>1, <2>3 DEF ControlInv, PhaseInv, PhaseOf
<1>8. SYNC1 # ASYNC /\ "free" \in Stacks
  BY DEF SYNC1, ASYNC, Stacks
<1>9. UNCHANGED <<swept, alloced, free, cur, filled, part, members, covered>>
  BY <1>2 DEF own, shared
<1>. QED
  BY <1>2, <1>5, <1>6, <1>7, <1>8, <1>9, RoundBits

LEMMA NextRoundBits ==
  ASSUME ControlInv, OwnerInv, BitsInv, NextRound PROVE BitsInv'
<1>1. PICK r \in {SYNC2, MARK} : Announce(r)
  BY DEF NextRound, SYNC1, SYNC2, MARK
<1>2. /\ round' = r /\ waiting' = members /\ members' = members /\ dirty' \subseteq dirty \cup covered
  BY <1>1, AnnounceFacts
<1>3. stale' = stale /\ r # ASYNC
  BY <1>1 DEF Announce, SYNC1, SYNC2, MARK, ASYNC
<1>4. /\ UNCHANGED <<swept, alloced, free, cur, filled, part, covered, top, next, moved, pc, loc>>
  BY DEF NextRound, own, shared
<1>5. (\A st \in Stacks : On(st)' = On(st)) /\ Reusable' = Reusable
  BY <1>4, ListsFrame
<1>6. "free" \in Stacks
  BY DEF Stacks
<1>. QED
  BY <1>2, <1>3, <1>4, <1>5, <1>6, RoundBits

LEMMA TakenLists ==
  ASSUME ControlInv, OwnerInv, TakeMarked
  PROVE  /\ On("partial")' = {} /\ Apart' = On("partial") /\ Apart = {}
         /\ \A t \in Stacks \ {"partial"} : On(t)' = On(t)
BY ListsTaken DEF TakeMarked, own, ControlInv, CycleInv, OwnerInv

LEMMA PutLists ==
  ASSUME ControlInv, OwnerInv, PutMarked
  PROVE  /\ On("marked")' = Apart /\ Apart' = {} /\ On("marked") = {}
         /\ \A t \in Stacks \ {"marked"} : On(t)' = On(t)
         /\ On("partial") = {}
<1>1. On("partial") = {}
  BY ListTypes, ChainNull DEF PutMarked, ControlInv, CycleInv, On, ListFrom
<1>2. top["marked"] = Null
  BY DEF PutMarked, ControlInv, CycleInv, MARK, ASYNC
<1>. QED
  BY <1>1, <1>2, ListsPut DEF PutMarked, ControlInv, OwnerInv

LEMMA TakeMarkedBits ==
  ASSUME ControlInv, OwnerInv, BitsInv, TakeMarked PROVE BitsInv'
<1>1. /\ UNCHANGED <<swept, alloced, free, cur, filled, part, covered, dirty, stale, members, round, waiting, pc, loc>>
      /\ round = MARK
  BY DEF TakeMarked, own, bits
<1>2. /\ On("partial")' = {} /\ Apart' = On("partial") /\ On("marked")' = On("marked") /\ On("free")' = On("free")
  BY TakenLists DEF Stacks
<1>3. Reusable' \subseteq Reusable /\ Unused' = Unused
  BY <1>1, <1>2 DEF Reusable, Unused, On
<1>4. \A w \in members' : BitsOf(w)'
  BY <1>1 DEF BitsInv, BitsOf, Answered, Occupied
<1>5. /\ Unused' \cap (covered' \cup dirty' \cup stale') = {} /\ Reusable' \cap stale' = {}
  BY <1>1, <1>3, BitsInvIs
<1>. QED
  BY <1>2, <1>4, <1>5 DEF BitsInv, Reusable, On, Apart

LEMMA PutMarkedBits ==
  ASSUME ControlInv, OwnerInv, BitsInv, PutMarked PROVE BitsInv'
<1>1. /\ UNCHANGED <<swept, alloced, free, cur, filled, part, covered, pc, loc>> /\ Announce(ASYNC)
  BY DEF PutMarked, own
<1>2. /\ round' = ASYNC /\ waiting' = members /\ members' = members
  BY <1>1, AnnounceFacts
<1>3. dirty' = dirty /\ stale' = stale
  BY <1>1 DEF Announce, ASYNC, SYNC1
<1>4. /\ On("partial")' = {} /\ On("free")' = On("free") /\ Reusable' \subseteq Reusable
  BY PutLists DEF Stacks, Reusable
<1>. QED
  BY <1>1, <1>2, <1>3, <1>4, RoundBits

LEMMA OfSwept ==
  ASSUME TypeInv, OwnerInv, NEW s \in swept
  PROVE  s \in Segs /\ s \notin Places4 /\ \A u \in Workers : s \notin Used(u) \cup part[u] \cup free[u]
<1>1. PICK kind, who : OwnedBy(kind, who)
  BY DEF OwnerInv
<1>2. s \in Segs
  BY DEF TypeInv
<1>3. kind[s] = "swept"
  BY <1>1, <1>2, OwnerFacts
<1>. QED
  BY <1>1, <1>2, <1>3, OwnerFacts, StackKinds DEF Places4, Used

LEMMA KillBits ==
  ASSUME ControlInv, OwnerInv, BitsInv, NEW w \in Workers, Kill(w) PROVE BitsInv'
<1>0. TypeInv
  BY DEF ControlInv
<1>1. /\ members' = members \ {w} /\ round = SYNC1 /\ round' = round /\ waiting' = waiting \ {w}
      /\ UNCHANGED <<alloced, covered, dirty, stale, moved, swept, loc>> /\ Push("free", free[w]) /\ free'[w] = {}
      /\ \A u \in Workers \ {w} : /\ cur'[u] = cur[u] /\ filled'[u] = filled[u] /\ part'[u] = part[u]
                                  /\ free'[u] = free[u] /\ pc'[u] = pc[u]
  BY KillFacts DEF bits
<1>2. free[w] \in SUBSET Segs /\ free[w] \cap Places4 = {} /\ "free" \in Stacks
  BY <1>0, OfFree DEF TypeInv, Stacks
<1>3. /\ On("free")' = On("free") \cup free[w] /\ On("partial")' = On("partial")
      /\ On("marked")' = On("marked") /\ Apart' = Apart
  BY <1>1, <1>2, PushLists DEF Stacks
<1>4. Unused' \subseteq Unused /\ Reusable' = Reusable
  BY <1>1, <1>3 DEF Unused, On, Reusable
<1>5. OthersAnswer(w)
  BY <1>0, <1>1 DEF OthersAnswer, Answered, TypeInv
<1>. QED
  BY <1>1, <1>3, <1>4, <1>5, BitsMove

LEMMA AnswerBits ==
  ASSUME ControlInv, OwnerInv, BitsInv, NEW w \in Workers, NEW r \in Phases, Answer(w, r) PROVE BitsInv'
<1>1. /\ UNCHANGED <<top, next, moved, swept, alloced, free, cur, filled, part, covered, dirty, stale, members>>
      /\ UNCHANGED <<round, pc, loc>> /\ round # ASYNC
  BY AnswerFacts DEF own, shared, SYNC1, SYNC2, MARK, ASYNC
<1>2. (\A st \in Stacks : On(st)' = On(st)) /\ Reusable' = Reusable /\ Unused' = Unused
  BY <1>1, ListsFrame
<1>3. OthersAnswer(w)
  BY <1>1 DEF OthersAnswer, Answered
<1>4. w \in members' => BitsOf(w)'
  BY <1>1 DEF BitsInv, BitsOf, Answered, Occupied
<1>5. "partial" \in Stacks
  BY StackKinds
<1>. QED
  BY <1>1, <1>2, <1>3, <1>4, <1>5, BitsInvIs, BitsMove

LEMMA AsyncBits ==
  ASSUME ControlInv, OwnerInv, BitsInv, NEW w \in Workers, NEW empty \in SUBSET Segs, NEW some \in SUBSET Segs,
         Async(w, empty, some)
  PROVE BitsInv'
<1>0. TypeInv /\ AsyncDoes(w, empty, some)
  BY AsyncFacts DEF ControlInv
<1>1. PICK K \in SUBSET Segs : K = Keeps(w, empty, some) /\ AsyncLeaves(w, empty, some, K)
  BY AsyncSegs
<1>2. PICK f \in SUBSET Segs : f = free[w]
  BY <1>0 DEF TypeInv
<1>3. /\ UNCHANGED <<alloced, moved, swept, members, round>> /\ Push("free", f) /\ waiting' = waiting \ {w}
      /\ round = ASYNC /\ pc[w] \in {"run", "wait"}
  BY <1>0, <1>2 DEF AsyncDoes
<1>4. /\ covered' = (covered \cup (young \cap K)) \ empty
      /\ dirty' = dirty \ (K \cup part[w] \cup empty \cup some)
      /\ stale' = stale \ (K \cup part[w] \cup empty \cup some)
      /\ cur' = cur /\ filled'[w] = filled[w] \ (empty \cup some)
      /\ part'[w] = (part[w] \ empty) \cup some /\ free'[w] = empty
      /\ \A u \in Workers \ {w} : filled'[u] = filled[u] /\ part'[u] = part[u] /\ free'[u] = free[u]
      /\ Used(w)' = K /\ K \subseteq Used(w) /\ w \in members
  BY <1>1 DEF AsyncLeaves
<1>5. PICK l \in Labels, r \in LocalType : Asyncs(w, l, r)
  BY <1>0, AsyncMoves
<1>6. pc'[w] \in {"run", "wait", "load"} /\ \A u \in Workers \ {w} : pc'[u] = pc[u] /\ loc'[u] = loc[u]
  BY <1>3, <1>5 DEF Asyncs, Moves
<1>7. f \cap Places4 = {} /\ "free" \in Stacks
  BY <1>0, <1>2, OfFree DEF Stacks
<1>8. /\ On("free")' = On("free") \cup f /\ On("partial")' = On("partial")
      /\ On("marked")' = On("marked") /\ Apart' = Apart
  BY <1>3, <1>7, PushLists DEF Stacks
<1>9. Unused' \subseteq Unused \cup empty /\ Reusable' = Reusable
  BY <1>2, <1>3, <1>4, <1>8 DEF Unused, On, Reusable
<1>10. K \cap Unused = {}
  BY <1>0, <1>4, OfUsed, UnusedIs DEF Places4
<1>11. \A s \in Unused' : s \in Unused \/ s \notin covered' \cup dirty' \cup stale'
  BY <1>4, <1>9
<1>12. \A s \in covered' : s \in covered \/ s \notin Unused'
  BY <1>4, <1>9, <1>10
<1>13. OthersAnswer(w)
  BY <1>0, <1>3, <1>4, <1>6 DEF OthersAnswer, Answered, TypeInv
<1>14. Occupied(w)' \subseteq K \cup part[w] \cup some
  BY <1>4 DEF Occupied, Used
<1>15. BitsOf(w)'
  BY <1>4, <1>6, <1>14 DEF BitsOf
<1>16. stale' \subseteq stale /\ dirty' \subseteq dirty
  BY <1>4
<1>. QED
  BY <1>3, <1>8, <1>9, <1>11, <1>12, <1>13, <1>15, <1>16, BitsInvIs, BitsMove

LEMMA SweepBits ==
  ASSUME ControlInv, OwnerInv, BitsInv, NEW w \in Workers, NEW empty \in BOOLEAN, Sweep(w, empty) PROVE BitsInv'
<1>0. TypeInv
  BY DEF ControlInv
<1>1. PICK h : h = loc[w].seg
  OBVIOUS
<1>2. h \in Segs /\ h \notin Places4
  BY <1>0, <1>1, OfHand DEF Sweep, ControlInv, LocalInv, LocalOf
<1>3. /\ UNCHANGED <<cur, filled, part, free, alloced, moved, members, round, waiting>>
      /\ dirty' = dirty \ {h} /\ stale' = stale \ {h}
      /\ IF empty THEN swept' = swept \cup {h} /\ covered' = covered \ {h} /\ UNCHANGED <<top, next>>
         ELSE Push("partial", {h}) /\ UNCHANGED <<swept, covered>>
      /\ loc' = [loc EXCEPT ![w] = Gets(loc[w], Null)] /\ pc' = [pc EXCEPT ![w] = "load"]
  BY <1>1 DEF Sweep, Clear, own, rounds, Goto
<1>4. pc'[w] = "load" /\ \A u \in Workers \ {w} : pc'[u] = pc[u] /\ loc'[u] = loc[u]
  BY <1>0, <1>3 DEF TypeInv
<1>5. OthersAnswer(w)
  BY <1>0, <1>3, <1>4 DEF OthersAnswer, Answered, TypeInv
<1>6. w \in members' => BitsOf(w)'
  BY <1>3, <1>4 DEF BitsInv, BitsOf, Answered, Occupied
<1>7. CASE empty
  <2>1. (\A st \in Stacks : On(st)' = On(st)) /\ Reusable' = Reusable
    BY <1>3, <1>7, ListsFrame
  <2>2. Unused' \subseteq Unused \cup {h}
    BY <1>3, <1>7, <2>1 DEF Unused, On, Stacks
  <2>3. "partial" \in Stacks /\ \A s \in Unused' : s \in Unused \/ s \notin covered' \cup dirty' \cup stale'
    BY <1>3, <1>7, <2>2, StackKinds
  <2>. QED
    BY <1>3, <1>5, <1>6, <1>7, <2>1, <2>3, BitsInvIs, BitsMove
<1>8. CASE ~empty
  <2>1. /\ On("partial")' = On("partial") \cup {h} /\ On("free")' = On("free")
        /\ On("marked")' = On("marked") /\ Apart' = Apart
    BY <1>2, <1>3, <1>8, PushLists DEF Stacks
  <2>2. Unused' = Unused
    BY <1>3, <1>8, <2>1 DEF Unused, On
  <2>3. Reusable' = Reusable \cup {h}
    BY <2>1 DEF Reusable
  <2>. QED
    BY <1>3, <1>5, <1>6, <1>8, <2>1, <2>2, <2>3, BitsInvIs, BitsMove
<1>. QED
  BY <1>7, <1>8

LEMMA SweepFilledBits ==
  ASSUME ControlInv, OwnerInv, BitsInv, NEW w \in Workers, NEW empty \in SUBSET Segs, NEW some \in SUBSET Segs,
         SweepFilled(w, empty, some)
  PROVE  BitsInv'
<1>0. TypeInv
  BY DEF ControlInv
<1>1. /\ UNCHANGED <<cur, filled, part, free, alloced, moved, members, round, waiting, loc>>
      /\ dirty' = dirty \ poolFilled /\ stale' = stale \ poolFilled /\ covered' = covered \ empty
      /\ swept' = swept \cup empty /\ empty \subseteq poolFilled /\ some \subseteq poolFilled
      /\ Push("partial", some) /\ pc' = [pc EXCEPT ![w] = "poolfree"]
  BY DEF SweepFilled, Clear, own, rounds, Goto
<1>2. some \cap Places4 = {}
  BY <1>0, <1>1, OfDead
<1>3. /\ On("partial")' = On("partial") \cup some /\ On("free")' = On("free")
      /\ On("marked")' = On("marked") /\ Apart' = Apart
  BY <1>1, <1>2, PushLists DEF Stacks
<1>4. pc'[w] = "poolfree" /\ \A u \in Workers \ {w} : pc'[u] = pc[u]
  BY <1>0, <1>1 DEF TypeInv
<1>5. OthersAnswer(w)
  BY <1>0, <1>1, <1>4 DEF OthersAnswer, Answered, TypeInv
<1>6. w \in members' => BitsOf(w)'
  BY <1>1, <1>4 DEF BitsInv, BitsOf, Answered, Occupied
<1>7. Unused' \subseteq Unused \cup empty
  BY <1>1, <1>3 DEF Unused, On
<1>8. Reusable' = Reusable \cup some
  BY <1>3 DEF Reusable
<1>9. \A s \in Unused' : s \in Unused \/ s \notin covered' \cup dirty' \cup stale'
  BY <1>1, <1>7
<1>. QED
  BY <1>1, <1>3, <1>5, <1>6, <1>8, <1>9, BitsInvIs, BitsMove

LEMMA EndGCBits ==
  ASSUME ControlInv, OwnerInv, BitsInv, NEW w \in Workers, EndGC(w) PROVE BitsInv'
<1>0. TypeInv
  BY DEF ControlInv
<1>1. PICK S \in SUBSET Segs : S = swept
  BY <1>0 DEF TypeInv
<1>2. /\ UNCHANGED <<cur, filled, part, free, alloced, moved, members, round, waiting, loc, covered, dirty, stale>>
      /\ Push("free", S) /\ swept' = {} /\ pc' = [pc EXCEPT ![w] = IF loc[w].tries = 0 THEN "run" ELSE "wait"]
  BY <1>1 DEF EndGC, own, bits, Goto
<1>3. S \cap Places4 = {}
  BY <1>0, <1>1, OfSwept
<1>4. /\ On("free")' = On("free") \cup S /\ On("partial")' = On("partial")
      /\ On("marked")' = On("marked") /\ Apart' = Apart
  BY <1>2, <1>3, PushLists DEF Stacks
<1>5. pc'[w] \in {"run", "wait"} /\ \A u \in Workers \ {w} : pc'[u] = pc[u]
  BY <1>0, <1>2 DEF TypeInv
<1>6. OthersAnswer(w)
  BY <1>0, <1>2, <1>5 DEF OthersAnswer, Answered, TypeInv
<1>7. w \in members' => BitsOf(w)'
  BY <1>2, <1>5 DEF BitsInv, BitsOf, Answered, Occupied
<1>8. Unused' \subseteq Unused /\ Reusable' = Reusable
  BY <1>1, <1>2, <1>4 DEF Unused, On, Reusable
<1>. QED
  BY <1>2, <1>4, <1>6, <1>7, <1>8, BitsInvIs, BitsMove

LEMMA RegisterBits ==
  ASSUME ControlInv, OwnerInv, BitsInv, NEW w \in Workers, Register(w), ~raced' PROVE BitsInv'
<1>0. TypeInv
  BY DEF ControlInv
<1>1. PICK c : c = cur[w]
  OBVIOUS
<1>2. /\ members' = members \cup {w} /\ c \in Segs /\ c # Null /\ c \notin stale /\ ~(round = ASYNC /\ c \in dirty)
      /\ UNCHANGED <<round, waiting, cur, filled, part, free, top, next, alloced, dirty, stale, moved, swept, loc>>
      /\ covered' \subseteq covered \cup {c} /\ pc'[w] = "run" /\ filled[w] = {} /\ part[w] = {}
      /\ \A u \in Workers \ {w} : pc'[u] = pc[u]
  BY <1>1, RegisterFacts DEF shared
<1>3. (\A st \in Stacks : On(st)' = On(st)) /\ Reusable' = Reusable /\ Unused' = Unused
  BY <1>2, ListsFrame
<1>4. c \notin Unused
  BY <1>0, <1>1, <1>2, OfUsed, UnusedIs DEF Used, Places4
<1>5. OthersAnswer(w) /\ Occupied(w)' = {c}
  BY <1>0, <1>1, <1>2 DEF OthersAnswer, Answered, TypeInv, Occupied
<1>6. BitsOf(w)'
  BY <1>2, <1>5 DEF BitsOf, Answered
<1>7. "partial" \in Stacks
  BY StackKinds
<1>. QED
  BY <1>2, <1>3, <1>4, <1>5, <1>6, <1>7, BitsInvIs, BitsMove

LEMMA BitsStep == ControlInv /\ OwnerInv /\ BitsInv /\ [Next]_vars /\ ~raced' => BitsInv'
<1>. SUFFICES ASSUME ControlInv, OwnerInv, BitsInv, [Next]_vars, ~raced' PROVE BitsInv'
  OBVIOUS
<1>0. TypeInv
  BY DEF ControlInv
<1>1. CASE Next
  <2>1. ASSUME NEW w \in Workers, Pool(w) PROVE BitsInv'
    BY <2>1, PopLoadBits, PopCasBits, ClearMarkedBits, ExtendBits, UseFoundBits DEF Pool
  <2>2. ASSUME NEW w \in Workers, Worker(w) PROVE BitsInv'
    <3>1. CASE AllocYoung(w)
      BY <3>1, BitsFrame DEF AllocYoung, own, shared, rounds
    <3>2. CASE GiveUp(w) \/ EndWait(w)
      <4>1. \E l \in {"fatal", "retry"} : pc' = [pc EXCEPT ![w] = l]
        BY <3>2 DEF GiveUp, EndWait, Goto
      <4>2. pc'[w] \in {"fatal", "retry"} /\ \A u \in Workers \ {w} : pc'[u] = pc[u]
        BY <1>0, <4>1 DEF TypeInv
      <4>. QED
        BY <3>2, <4>2, BitsFrame DEF GiveUp, EndWait, own, shared, rounds, bits
    <3>3. CASE RequestGC(w)
      BY <3>3, StartGCBits DEF RequestGC
    <3>4. CASE WaitGC(w)
      <4>1. pc'[w] = "wait" /\ \A u \in Workers \ {w} : pc'[u] = pc[u] /\ loc'[u] = loc[u]
        BY <1>0, <3>4, WaitGCMoves DEF Moves
      <4>2. CASE gcCount % 2 = 1
        BY <3>4, <4>1, <4>2, BitsFrame DEF WaitGC, own, shared, rounds
      <4>3. CASE gcCount % 2 # 1
        <5>1. StartGC /\ UNCHANGED <<own, shared, covered, swept>>
          BY <3>4, <4>3 DEF WaitGC
        <5>2. \A u \in members : (pc'[u] = pc[u] /\ loc'[u] = loc[u]) \/ pc'[u] \notin {"set", "clear"}
          BY <1>0, <4>1 DEF TypeInv
        <5>. QED
          BY <5>1, <5>2, StartGCBits
      <4>. QED
        BY <4>2, <4>3
    <3>. QED
      BY <2>2, <3>1, <3>2, <3>3, <3>4, FindSegmentBits, TakePartialBits, AnswerBits, AsyncBits, SweepBits,
         SweepFilledBits, EndGCBits DEF Worker
  <2>3. ASSUME NEW w \in Workers, StartInit(w) PROVE BitsInv'
    <3>1. pc'[w] = "load" /\ \A u \in Workers \ {w} : pc'[u] = pc[u] /\ loc'[u] = loc[u]
      BY <1>0, <2>3 DEF StartInit, Goto, TypeInv
    <3>. QED
      BY <2>3, <3>1, BitsFrame DEF StartInit, own, shared, rounds, bits
  <2>4. ASSUME NEW w \in Workers, Signal(w) PROVE BitsInv'
    BY <2>4, BitsFrame DEF Signal, own, shared, bits
  <2>. QED
    BY <1>1, <2>1, <2>2, <2>3, <2>4, RegisterBits, KillBits, NextRoundBits, TakeMarkedBits, PutMarkedBits DEF Next
<1>2. CASE UNCHANGED vars
  <2>1. /\ UNCHANGED <<top, next, moved, swept, alloced, free, cur, filled, part, covered, dirty, stale, members,
                       round, waiting, pc, loc>>
    BY <1>2 DEF vars
  <2>2. (\A st \in Stacks : On(st)' = On(st)) /\ Reusable' = Reusable /\ Unused' = Unused
    BY <2>1, ListsFrame
  <2>. QED
    BY <2>1, <2>2 DEF BitsInv, BitsOf, Answered, Occupied, Unused, ListFrom, Chain, Leaves
<1>. QED
  BY <1>1, <1>2

-----------------------------------------------------------------------------
(* The compare-and-swap of segment_pop.                                     *)

LEMMA UntouchedIs ==
  ASSUME NEW w, NEW s
  PROVE  Untouched(w, s) <=>
         /\ s \notin swept
         /\ Answered(w) /\ gcCount % 2 = 1 =>
              /\ s \notin poolFilled /\ s \notin On("marked")
              /\ \A u \in Workers : pc[u] = "sweep" => loc[u].seg # s
         /\ \A u \in Workers : /\ s \notin free[u] /\ s \notin part[u]
                               /\ Meanwhile(w, u) /\ s \in Used(u) => snap[s] # "limit"
BY DEF Untouched, On

\* The steps of worker v spare the segment s that worker w has loaded.
Spares(v, w, s, P) ==
  /\ s \notin P /\ s \notin swept' /\ s \notin free'[v] /\ s \notin part'[v]
  /\ pc'[v] = "sweep" => loc'[v].seg # s
  /\ Meanwhile(w, v)' /\ s \in Used(v)' => snap'[s] # "limit"

OthersStay(v) == \A u \in Workers \ {v} :
  /\ pc'[u] = pc[u] /\ loc'[u] = loc[u] /\ cur'[u] = cur[u] /\ filled'[u] = filled[u]
  /\ part'[u] = part[u] /\ free'[u] = free[u]

\* Worker v pushes the segments P.
LEMMA AbaMove ==
  ASSUME TypeInv, LocalInv, AbaInv, NEW v \in Workers, NEW P, v \in members' => AbaOf(v)', OthersStay(v),
         round' = round, waiting' \in {waiting, waiting \ {v}}, members' \subseteq members \cup {v},
         gcCount' = gcCount \/ gcCount' % 2 # 1,
         On("marked")' \subseteq On("marked"), P \cap On("marked") = {}, \A s \in Segs \ P : next'[s] = next[s],
         \A u \in Workers \ {v} : \A s \in Used(u) : snap'[s] = snap[s] \/ snap'[s] # "limit",
         round = ASYNC => poolFilled' \subseteq poolFilled,
         \A w \in members \ {v} : \A s \in Segs : Untouched(w, s) => Spares(v, w, s, P)
  PROVE  AbaInv'
<1>1. ASSUME NEW w \in members' \ {v} PROVE AbaOf(w)'
  <2>1. w \in members /\ w \in Workers
    BY DEF TypeInv
  <2>2. pc'[w] = pc[w] /\ loc'[w] = loc[w] /\ AbaOf(w) /\ (w \in waiting' <=> w \in waiting)
    BY <2>1 DEF AbaInv, OthersStay
  <2>3. SUFFICES ASSUME pc[w] = "cas" PROVE AbaOf(w)'
    BY <2>2 DEF AbaOf
  <2>4. PICK s \in Link : s = loc[w].old
    BY <2>1, FieldTypes DEF TypeInv
  <2>5. CASE loc[w].st = "marked"
    <3>1. round = ASYNC \/ (round = SYNC1 /\ w \in waiting)
      BY <2>2, <2>3, <2>5 DEF AbaOf
    <3>2. s \in On("marked") => next[s] = loc[w].nxt
      BY <2>2, <2>3, <2>4, <2>5 DEF AbaOf, On
    <3>3. s \in On("marked")' => next'[s] = loc[w].nxt
      BY <3>2, ListTypes, StackKinds
    <3>. QED
      BY <2>2, <2>4, <2>5, <3>1, <3>3 DEF AbaOf, On
  <2>6. CASE loc[w].st # "marked"
    <3>1. next[s] = loc[w].nxt /\ Untouched(w, s)
      BY <2>2, <2>3, <2>4, <2>6 DEF AbaOf
    <3>2. s \in Segs
      BY <2>1, <2>3, <2>4 DEF Link, LocalInv, LocalOf
    <3>3. Spares(v, w, s, P)
      BY <2>1, <3>1, <3>2
    <3>4. next'[s] = loc[w].nxt
      BY <3>1, <3>2, <3>3 DEF Spares
    <3>5. Answered(w)' /\ gcCount' % 2 = 1 => /\ s \notin poolFilled' /\ s \notin On("marked")'
                                              /\ \A u \in Workers : pc'[u] = "sweep" => loc'[u].seg # s
      <4>1. ASSUME Answered(w)', gcCount' % 2 = 1 PROVE Answered(w) /\ gcCount % 2 = 1 /\ round = ASYNC
        BY <2>2, <4>1 DEF Answered
      <4>. QED
        BY <3>1, <3>3, <4>1, UntouchedIs DEF Spares, OthersStay
    <3>6. ASSUME NEW u \in Workers \ {v}
          PROVE  /\ s \notin free'[u] /\ s \notin part'[u]
                 /\ Meanwhile(w, u)' /\ s \in Used(u)' => snap'[s] # "limit"
      <4>1. s \notin free'[u] /\ s \notin part'[u]
        BY <3>1, UntouchedIs DEF OthersStay
      <4>2. Used(u)' = Used(u)
        BY DEF OthersStay, Used
      <4>3. Meanwhile(w, u)' => Meanwhile(w, u)
        BY <2>2 DEF Meanwhile
      <4>. QED
        BY <3>1, <4>1, <4>2, <4>3, UntouchedIs
    <3>7. Untouched(w, s)'
      BY <3>3, <3>5, <3>6 DEF Spares, Untouched, On
    <3>. QED
      BY <2>2, <2>4, <2>6, <3>4, <3>7 DEF AbaOf
  <2>. QED
    BY <2>5, <2>6
<1>. QED
  BY <1>1 DEF AbaInv

\* A step that moves no segment.
LEMMA AbaStill ==
  ASSUME ControlInv, AbaInv, NEW v \in Workers,
         UNCHANGED <<next, poolFilled, swept, cur, filled, part, free, snap, members, round, waiting, gcCount>>,
         On("marked")' = On("marked"),
         \A u \in Workers \ {v} : pc'[u] = pc[u] /\ loc'[u] = loc[u],
         (pc'[v] = pc[v] /\ loc'[v] = loc[v]) \/ pc'[v] \notin {"cas", "sweep"}
  PROVE  AbaInv'
<1>1. ASSUME NEW w \in members PROVE AbaOf(w)'
  <2>1. SUFFICES ASSUME pc'[w] = "cas" PROVE AbaOf(w)'
    BY DEF AbaOf
  <2>2. pc[w] = "cas" /\ loc'[w] = loc[w] /\ AbaOf(w)
    BY <2>1 DEF AbaInv, ControlInv, TypeInv
  <2>3. ASSUME NEW s, Untouched(w, s) PROVE Untouched(w, s)'
    <3>1. \A u \in Workers : pc'[u] = "sweep" => pc[u] = "sweep" /\ loc'[u] = loc[u]
      OBVIOUS
    <3>2. \A u \in Workers : Meanwhile(w, u)' = Meanwhile(w, u) /\ Used(u)' = Used(u)
      BY DEF Meanwhile, Used
    <3>. QED
      BY <2>3, <3>1, <3>2 DEF Untouched, Answered, On
  <2>. QED
    BY <2>2, <2>3 DEF AbaOf, On
<1>. QED
  BY <1>1 DEF AbaInv

\* A round is announced: all members have answered the last one.
LEMMA AbaRound ==
  ASSUME ControlInv, AbaInv, waiting = {}, members' = members, waiting' = members,
         UNCHANGED <<next, swept, cur, filled, part, free, snap>>,
         \A w \in members : pc'[w] = "cas" => pc[w] = "cas" /\ loc'[w] = loc[w],
         round = ASYNC => round' = SYNC1 /\ On("marked")' = On("marked"),
         round' = ASYNC => round = MARK
  PROVE  AbaInv'
<1>1. ASSUME NEW w \in members PROVE AbaOf(w)'
  <2>1. SUFFICES ASSUME pc'[w] = "cas" PROVE AbaOf(w)'
    BY DEF AbaOf
  <2>2. pc[w] = "cas" /\ loc'[w] = loc[w] /\ AbaOf(w)
    BY <2>1 DEF AbaInv
  <2>3. ASSUME NEW s, Untouched(w, s) PROVE Untouched(w, s)'
    <3>1. ~Answered(w)'
      BY DEF Answered
    <3>2. \A u \in Workers : Used(u)' = Used(u) /\ (Meanwhile(w, u)' => Meanwhile(w, u))
      BY DEF Meanwhile, Used
    <3>. QED
      BY <2>3, <3>1, <3>2 DEF Untouched
  <2>. QED
    BY <2>2, <2>3 DEF AbaOf, On
<1>. QED
  BY <1>1 DEF AbaInv

\* A worker has just loaded a stack.
LEMMA PopLoadAba ==
  ASSUME ControlInv, OwnerInv, AbaInv, NEW v \in Workers, PopLoad(v) PROVE AbaInv'
<1>0. TypeInv /\ LocalInv
  BY DEF ControlInv
<1>1. PICK l \in Labels, r \in LocalType : PopLoads(v, l, r)
  BY PopLoadMoves DEF ControlInv
<1>2. /\ UNCHANGED <<top, next, moved, poolFilled, swept, cur, filled, part, free, snap, members, round, waiting, gcCount>>
      /\ pc[v] = "load"
  BY DEF PopLoad, own, shared, bits, rounds
<1>3. /\ pc'[v] = l /\ loc'[v] = r /\ pc'[v] # "sweep"
      /\ \A u \in Workers \ {v} : pc'[u] = pc[u] /\ loc'[u] = loc[u]
  BY <1>1 DEF PopLoads, Moves
<1>4. On("marked")' = On("marked")
  BY <1>2 DEF On, ListFrom, Chain, Leaves
<1>5. ASSUME v \in members, pc'[v] = "cas" PROVE AbaOf(v)'
  <2>1. PICK st \in Stacks : st = loc[v].st
    BY <1>0, <1>2 DEF LocalInv, LocalOf
  <2>2. PICK h \in Link : h = top[st]
    BY <1>0, ListTypes
  <2>3. h # Null /\ loc'[v].old = h /\ loc'[v].nxt = next[h] /\ loc'[v].st = st
    BY <1>1, <1>3, <1>5, <2>1, <2>2 DEF PopLoads
  <2>4. h \in On(st)
    BY <1>0, <2>2, <2>3, ListTypes, ChainClosed DEF On, ListFrom
  <2>5. CASE st = "marked"
    <3>1. round = ASYNC
      BY <2>2, <2>3, <2>5 DEF ControlInv, CycleInv
    <3>. QED
      BY <1>2, <2>3, <2>5, <3>1 DEF AbaOf
  <2>6. CASE st # "marked"
    <3>1. /\ h \notin poolFilled /\ h \notin swept /\ h \notin On("marked")
          /\ \A u \in Workers : /\ h \notin Used(u) /\ h \notin part[u] /\ h \notin free[u]
                                /\ h # loc[u].seg
      BY <1>0, <2>4, <2>6, OfStack, StackKinds
    <3>2. ASSUME NEW u \in Workers, pc'[u] = "sweep" PROVE loc'[u].seg # h
      BY <1>3, <3>1, <3>2
    <3>3. \A u \in Workers : Used(u)' = Used(u)
      BY <1>2 DEF Used
    <3>4. Untouched(v, h)'
      BY <1>2, <1>4, <3>1, <3>2, <3>3 DEF Untouched, On
    <3>. QED
      BY <1>2, <2>3, <2>6, <3>4 DEF AbaOf
  <2>. QED
    BY <2>5, <2>6
<1>6. v \in members' => AbaOf(v)'
  BY <1>2, <1>5 DEF AbaOf
<1>7. \A P : P = {} => AbaInv'
  <2>1. OthersStay(v) /\ Used(v)' = Used(v) /\ \A w \in Workers : Meanwhile(w, v)' = Meanwhile(w, v)
    BY <1>2, <1>3 DEF OthersStay, Used, Meanwhile
  <2>2. \A w \in members \ {v} : \A s \in Segs : Untouched(w, s) => Spares(v, w, s, {})
    BY <1>0, <1>2, <1>3, <2>1, UntouchedIs DEF Spares, TypeInv
  <2>. QED
    BY <1>0, <1>2, <1>3, <1>4, <1>6, <2>1, <2>2, AbaMove
<1>. QED
  BY <1>7

LEMMA PopCasAba ==
  ASSUME ControlInv, ControlInv', OwnerInv, AbaInv, NEW v \in Workers, PopCas(v), ~raced' PROVE AbaInv'
<1>0. TypeInv /\ LocalInv
  BY DEF ControlInv
<1>1. /\ UNCHANGED <<next, poolFilled, swept, cur, filled, part, free, snap, members, round, waiting, gcCount>>
      /\ \A u \in Workers \ {v} : pc'[u] = pc[u] /\ loc'[u] = loc[u]
      /\ \A t \in Stacks \ {loc[v].st} : On(t)' = On(t)
      /\ \/ pc'[v] = "load" /\ \A t \in Stacks : On(t)' = On(t)
         \/ \E st \in Stacks, h \in Segs : Popped(v, st, h)
  BY PopFacts DEF own, bits, rounds
<1>2. pc'[v] \in {"load", "sweep", "clear", "set"} /\ On("marked")' \subseteq On("marked")
  BY <1>1, StackKinds DEF Popped
<1>3. pc'[v] = "sweep" => loc'[v].seg \in On("marked") /\ round = ASYNC /\ waiting = {} /\ gcCount % 2 = 1
  <2>1. pc'[v] = "sweep" => Sweeping(v)' /\ loc'[v].st = "marked"
    BY DEF Sweeping, ControlInv, LocalInv, LocalOf
  <2>2. pc'[v] = "sweep" => loc'[v].seg \in On("marked")
    BY <1>1, <2>1 DEF Popped
  <2>. QED
    BY <1>1, <2>1, <2>2 DEF ControlInv, CycleInv
<1>4. OthersStay(v) /\ Used(v)' = Used(v) /\ \A w \in Workers : Meanwhile(w, v)' = Meanwhile(w, v)
  BY <1>1 DEF OthersStay, Used, Meanwhile
<1>5. ASSUME NEW w \in members \ {v}, NEW s \in Segs, Untouched(w, s) PROVE Spares(v, w, s, {})
  <2>1. pc'[v] = "sweep" => loc'[v].seg # s
    BY <1>3, <1>5, UntouchedIs DEF Answered
  <2>2. /\ s \notin swept /\ s \notin free[v] /\ s \notin part[v]
        /\ Meanwhile(w, v) /\ s \in Used(v) => snap[s] # "limit"
    BY <1>5, UntouchedIs
  <2>. QED
    BY <1>0, <1>1, <1>4, <1>5, <2>1, <2>2 DEF Spares, TypeInv
<1>6. v \in members' => AbaOf(v)'
  BY <1>2 DEF AbaOf
<1>. QED
  BY <1>0, <1>1, <1>2, <1>4, <1>5, <1>6, AbaMove

LEMMA UseFoundAba ==
  ASSUME ControlInv, OwnerInv, SnapInv, AbaInv, NEW v \in Workers, UseFound(v) PROVE AbaInv'
<1>0. TypeInv /\ LocalInv /\ PhaseInv
  BY DEF ControlInv
<1>1. PICK h \in Segs : h = loc[v].seg
  BY UseFoundFacts
<1>2. /\ h # Null /\ cur[v] = Null /\ cur' = [cur EXCEPT ![v] = h]
      /\ UNCHANGED <<top, next, moved, poolFilled, swept, filled, part, free, members, round, waiting, gcCount>>
      /\ snap' = SnapshotAt(loc[v].lp, {h}) /\ pc'[v] \in {"run", "register"}
      /\ loc' = [loc EXCEPT ![v] = Local] /\ \A u \in Workers \ {v} : pc'[u] = pc[u]
      /\ v \in members => BeforeSnapshot(loc[v].lp) <=> BeforeSnapshot(phase[v])
      /\ v \notin members => ~BeforeSnapshot(loc[v].lp)
  BY <1>1, UseFoundFacts DEF shared, rounds
<1>3. snap[h] = "base" /\ \A u \in Workers : h \notin Used(u)
  BY <1>0, <1>1, <1>2, HandBase, OfHand
<1>4. /\ Used(v)' = Used(v) \cup {h} /\ \A u \in Workers \ {v} : cur'[u] = cur[u] /\ loc'[u] = loc[u]
  BY <1>0, <1>2 DEF TypeInv, TypeOK, Used
<1>5. On("marked")' = On("marked")
  BY <1>2 DEF On, ListFrom, Chain, Leaves
<1>6. \A s \in Segs \ {h} : snap'[s] = snap[s]
  BY <1>2 DEF SnapshotAt
<1>7. OthersStay(v) /\ \A w \in Workers : Meanwhile(w, v)' = Meanwhile(w, v)
  BY <1>2, <1>4 DEF OthersStay, Meanwhile
<1>8. ASSUME NEW w \in Workers, Meanwhile(w, v) PROVE snap'[h] = "base"
  <2>1. v \in members => ~BeforeSnapshot(phase[v])
    BY <1>0, <1>8, MeanwhileFacts
  <2>. QED
    BY <1>2, <1>3, <2>1 DEF SnapshotAt
<1>9. \A w \in members \ {v} : \A s \in Segs : Untouched(w, s) => Spares(v, w, s, {})
  BY <1>0, <1>2, <1>4, <1>6, <1>7, <1>8, UntouchedIs DEF Spares, TypeInv
<1>10. v \in members' => AbaOf(v)'
  BY <1>2 DEF AbaOf
<1>11. \A u \in Workers \ {v} : \A s \in Used(u) : snap'[s] = snap[s]
  BY <1>0, <1>3, <1>6, OfUsed
<1>. QED
  BY <1>0, <1>2, <1>5, <1>7, <1>9, <1>10, <1>11, AbaMove

LEMMA TakePartialAba ==
  ASSUME ControlInv, OwnerInv, AbaInv, NEW v \in Workers, NEW s0 \in Segs, TakePartial(v, s0) PROVE AbaInv'
<1>0. TypeInv /\ LocalInv /\ PhaseInv /\ v \in members
  BY DEF ControlInv, LocalInv, LocalOf, Registering, InPoolCode, TakePartial
<1>1. PICK c : c = cur[v]
  OBVIOUS
<1>2. /\ UNCHANGED <<top, next, moved, poolFilled, swept, free, members, round, waiting, gcCount>>
      /\ s0 \in part[v] /\ snap' = SnapshotAt(phase[v], {s0, c})
      /\ part' = [part EXCEPT ![v] = part[v] \ {s0}] /\ loc' = [loc EXCEPT ![v] = Local]
      /\ pc' = [pc EXCEPT ![v] = "run"]
  BY <1>1 DEF TakePartial, shared, rounds, Goto
<1>3. /\ Used(v)' = Used(v) \cup ({s0} \ {Null})
      /\ \A u \in Workers \ {v} : cur'[u] = cur[u] /\ filled'[u] = filled[u]
  BY ReleaseFacts DEF TakePartial
<1>4. /\ part'[v] = part[v] \ {s0} /\ pc'[v] = "run"
      /\ \A u \in Workers \ {v} : part'[u] = part[u] /\ loc'[u] = loc[u] /\ pc'[u] = pc[u]
  BY <1>0, <1>2 DEF TypeInv
<1>5. On("marked")' = On("marked")
  BY <1>2 DEF On, ListFrom, Chain, Leaves
<1>6. ASSUME NEW u \in Workers \ {v}, NEW s \in Used(u) PROVE snap'[s] = snap[s]
  <2>1. s \in Segs /\ s # c /\ s # s0
    BY <1>0, <1>1, <1>2, OfUsed, SegType DEF Used
  <2>. QED
    BY <1>2, <2>1 DEF SnapshotAt
<1>7. OthersStay(v) /\ \A w \in Workers : Meanwhile(w, v)' = Meanwhile(w, v)
  BY <1>2, <1>3, <1>4 DEF OthersStay, Meanwhile
<1>8. ASSUME NEW w \in Workers, Meanwhile(w, v), NEW s \in Segs PROVE snap'[s] = snap[s]
  BY <1>0, <1>2, <1>8, MeanwhileFacts DEF SnapshotAt
<1>9. ASSUME NEW w \in members \ {v}, NEW s \in Segs, Untouched(w, s) PROVE Spares(v, w, s, {})
  <2>1. /\ s \notin swept /\ s \notin free[v] /\ s \notin part[v] /\ s # s0
        /\ Meanwhile(w, v) /\ s \in Used(v) => snap[s] # "limit"
    BY <1>2, <1>9, UntouchedIs
  <2>. QED
    BY <1>0, <1>2, <1>3, <1>4, <1>7, <1>8, <2>1 DEF Spares, TypeInv
<1>10. v \in members' => AbaOf(v)'
  BY <1>4 DEF AbaOf
<1>. QED
  BY <1>0, <1>2, <1>5, <1>6, <1>7, <1>9, <1>10, AbaMove

LEMMA FindSegmentAba ==
  ASSUME ControlInv, OwnerInv, AbaInv, NEW v \in Workers, FindSegment(v) PROVE AbaInv'
<1>0. TypeInv /\ LocalInv /\ PhaseInv /\ v \in members
  BY DEF ControlInv, LocalInv, LocalOf, Registering, InPoolCode, FindSegment
<1>1. PICK c : c = cur[v]
  OBVIOUS
<1>b. PICK l \in Labels, r \in LocalType : Finds(v, l, r)
  BY <1>0, FindSegmentMoves
<1>2. /\ UNCHANGED <<top, next, moved, poolFilled, swept, part, members, round, waiting, gcCount>>
      /\ snap' = SnapshotAt(phase[v], {c})
  BY <1>1 DEF FindSegment, shared, rounds
<1>3. /\ Used(v)' = Used(v) \cup ({Null} \ {Null})
      /\ \A u \in Workers \ {v} : cur'[u] = cur[u] /\ filled'[u] = filled[u]
  BY ReleaseFacts DEF FindSegment
<1>4. /\ pc'[v] \notin {"cas", "sweep"} /\ free'[v] \subseteq free[v]
      /\ \A u \in Workers \ {v} : free'[u] = free[u] /\ loc'[u] = loc[u] /\ pc'[u] = pc[u]
  BY <1>0, <1>b DEF Finds, Moves, TypeInv
<1>5. On("marked")' = On("marked")
  BY <1>2 DEF On, ListFrom, Chain, Leaves
<1>6. ASSUME NEW u \in Workers \ {v}, NEW s \in Used(u) PROVE snap'[s] = snap[s]
  <2>1. s \in Segs /\ s # c
    BY <1>0, <1>1, OfUsed, SegType DEF Used
  <2>. QED
    BY <1>2, <2>1 DEF SnapshotAt
<1>7. OthersStay(v) /\ \A w \in Workers : Meanwhile(w, v)' = Meanwhile(w, v)
  BY <1>2, <1>3, <1>4 DEF OthersStay, Meanwhile
<1>8. ASSUME NEW w \in Workers, Meanwhile(w, v), NEW s \in Segs PROVE snap'[s] = snap[s]
  BY <1>0, <1>2, <1>8, MeanwhileFacts DEF SnapshotAt
<1>9. ASSUME NEW w \in members \ {v}, NEW s \in Segs, Untouched(w, s) PROVE Spares(v, w, s, {})
  <2>1. /\ s \notin swept /\ s \notin free[v] /\ s \notin part[v]
        /\ Meanwhile(w, v) /\ s \in Used(v) => snap[s] # "limit"
    BY <1>9, UntouchedIs
  <2>. QED
    BY <1>0, <1>2, <1>3, <1>4, <1>7, <1>8, <2>1 DEF Spares, TypeInv
<1>10. v \in members' => AbaOf(v)'
  BY <1>4 DEF AbaOf
<1>. QED
  BY <1>0, <1>2, <1>5, <1>6, <1>7, <1>9, <1>10, AbaMove

LEMMA StartGCAba ==
  ASSUME ControlInv, OwnerInv, AbaInv, StartGC, UNCHANGED <<own, shared, snap, swept>>,
         \A w \in members : pc'[w] = "cas" => pc[w] = "cas" /\ loc'[w] = loc[w]
  PROVE  AbaInv'
<1>1. /\ Announce(SYNC1) /\ round = ASYNC /\ waiting = {} /\ UNCHANGED moved
  BY StartFacts
<1>2. /\ round' = SYNC1 /\ waiting' = members /\ members' = members
  BY <1>1, AnnounceFacts
<1>3. \A st \in Stacks : On(st)' = On(st)
  BY <1>1, ListsFrame DEF shared
<1>4. On("marked")' = On("marked") /\ SYNC1 # ASYNC
  BY <1>3, StackKinds DEF SYNC1, ASYNC
<1>. QED
  BY <1>1, <1>2, <1>4, AbaRound DEF own, shared

LEMMA NextRoundAba ==
  ASSUME ControlInv, AbaInv, NextRound PROVE AbaInv'
<1>1. PICK r \in {SYNC2, MARK} : Announce(r) /\ round \in {SYNC1, SYNC2}
  BY DEF NextRound, SYNC1, SYNC2, MARK
<1>2. /\ round' = r /\ waiting' = members /\ members' = members /\ waiting = {}
  BY <1>1, AnnounceFacts DEF Announce, Begin
<1>3. /\ UNCHANGED <<next, swept, cur, filled, part, free, snap, pc, loc>>
      /\ round # ASYNC /\ round' # ASYNC
  BY <1>1, <1>2 DEF NextRound, own, shared, SYNC1, SYNC2, MARK, ASYNC
<1>. QED
  BY <1>2, <1>3, AbaRound

LEMMA PutMarkedAba ==
  ASSUME ControlInv, AbaInv, PutMarked PROVE AbaInv'
<1>1. /\ Announce(ASYNC) /\ UNCHANGED <<next, swept, cur, filled, part, free, snap, pc, loc>>
      /\ round = MARK /\ waiting = {}
  BY DEF PutMarked, own, ControlInv, CycleInv
<1>2. /\ round' = ASYNC /\ waiting' = members /\ members' = members
  BY <1>1, AnnounceFacts
<1>3. round # ASYNC
  BY <1>1 DEF MARK, ASYNC
<1>. QED
  BY <1>1, <1>2, <1>3, AbaRound

LEMMA KillAba ==
  ASSUME ControlInv, OwnerInv, AbaInv, NEW v \in Workers, Kill(v) PROVE AbaInv'
<1>0. TypeInv
  BY DEF ControlInv
<1>1. PICK f \in SUBSET Segs : f = free[v]
  BY <1>0 DEF TypeInv
<1>2. /\ members' = members \ {v} /\ round = SYNC1 /\ round' = round /\ waiting' = waiting \ {v}
      /\ UNCHANGED <<snap, moved, swept, loc, gcCount>> /\ Push("free", f)
      /\ part'[v] = {} /\ free'[v] = {} /\ Used(v)' = {} /\ pc'[v] = "none"
      /\ \A u \in Workers \ {v} : /\ cur'[u] = cur[u] /\ filled'[u] = filled[u] /\ part'[u] = part[u]
                                  /\ free'[u] = free[u] /\ pc'[u] = pc[u]
  BY <1>1, KillFacts DEF bits
<1>3. f \cap Places4 = {} /\ "free" \in Stacks /\ \A u \in Workers \ {v} : f \cap Used(u) = {}
  BY <1>0, <1>1, OfFree DEF Stacks
<1>4. On("marked")' = On("marked") /\ \A s \in Segs \ f : next'[s] = next[s]
  BY <1>2, <1>3, PushLists DEF Stacks
<1>5. OthersStay(v) /\ round # ASYNC
  BY <1>2 DEF OthersStay, SYNC1, ASYNC
<1>6. ASSUME NEW w \in members \ {v}, NEW s \in Segs, Untouched(w, s) PROVE Spares(v, w, s, f)
  <2>1. s \notin f /\ s \notin swept
    BY <1>0, <1>1, <1>6, UntouchedIs
  <2>2. Used(v)' = {}
    BY <1>2
  <2>. QED
    BY <1>2, <2>1, <2>2 DEF Spares
<1>7. f \cap On("marked") = {}
  BY <1>3 DEF Places4
<1>. QED
  BY <1>0, <1>2, <1>4, <1>5, <1>6, <1>7, AbaMove DEF ControlInv

LEMMA AnswerAba ==
  ASSUME ControlInv, OwnerInv, AbaInv, NEW v \in Workers, NEW r \in Phases, Answer(v, r) PROVE AbaInv'
<1>0. TypeInv
  BY DEF ControlInv
<1>1. /\ UNCHANGED <<top, next, moved, poolFilled, swept, free, cur, filled, part, members, round, gcCount, pc, loc>>
      /\ waiting' = waiting \ {v} /\ pc[v] \in {"run", "wait"} /\ round \in {SYNC1, SYNC2, MARK}
      /\ snap' = IF r = SYNC2 THEN Snapshot(v) ELSE snap
  BY AnswerFacts DEF own, shared
<1>2. On("marked")' = On("marked")
  BY <1>1 DEF On, ListFrom, Chain, Leaves
<1>3. \A s \in Segs : snap'[s] = snap[s] \/ snap'[s] = "mid"
  BY <1>0, <1>1 DEF Snapshot, TypeInv, TypeOK
<1>4. OthersStay(v) /\ Used(v)' = Used(v) /\ \A w \in members \ {v} : Meanwhile(w, v)' => Meanwhile(w, v)
  BY <1>1 DEF OthersStay, Used, Meanwhile
<1>5. ASSUME NEW w \in members \ {v}, NEW s \in Segs, Untouched(w, s) PROVE Spares(v, w, s, {})
  <2>1. /\ s \notin swept /\ s \notin free[v] /\ s \notin part[v]
        /\ Meanwhile(w, v) /\ s \in Used(v) => snap[s] # "limit"
    BY <1>5, UntouchedIs
  <2>2. Meanwhile(w, v)' /\ s \in Used(v)' => snap'[s] # "limit"
    BY <1>3, <1>4, <2>1
  <2>. QED
    BY <1>1, <2>1, <2>2 DEF Spares
<1>6. v \in members' => AbaOf(v)'
  BY <1>1 DEF AbaOf
<1>7. \A u \in Workers \ {v} : \A s \in Used(u) : snap'[s] = snap[s] \/ snap'[s] # "limit"
  BY <1>0, <1>3, OfUsed
<1>. QED
  BY <1>0, <1>1, <1>2, <1>4, <1>5, <1>6, <1>7, AbaMove DEF ControlInv

LEMMA AsyncAba ==
  ASSUME ControlInv, OwnerInv, AbaInv, NEW v \in Workers, NEW empty \in SUBSET Segs, NEW some \in SUBSET Segs,
         Async(v, empty, some)
  PROVE  AbaInv'
<1>0. TypeInv /\ AsyncDoes(v, empty, some)
  BY AsyncFacts DEF ControlInv
<1>1. PICK K \in SUBSET Segs : K = Keeps(v, empty, some) /\ AsyncLeaves(v, empty, some, K)
  BY AsyncSegs
<1>2. PICK f \in SUBSET Segs : f = free[v]
  BY <1>0 DEF TypeInv
<1>3. /\ UNCHANGED <<moved, swept, members, round, gcCount, poolFilled>> /\ Push("free", f) /\ waiting' = waiting \ {v}
      /\ round = ASYNC /\ pc[v] \in {"run", "wait"} /\ v \in waiting
  BY <1>0, <1>1, <1>2 DEF AsyncDoes, AsyncLeaves
<1>4. /\ snap' = SnapReset(K, empty \cup some) /\ cur' = cur
      /\ part'[v] = (part[v] \ empty) \cup some /\ free'[v] = empty
      /\ \A u \in Workers \ {v} : /\ filled'[u] = filled[u] /\ part'[u] = part[u] /\ free'[u] = free[u]
                                  /\ (K \cup empty \cup some) \cap Used(u) = {}
      /\ \A s \in empty \cup some : s \in part[v] \/ (s \in Used(v) /\ snap[s] = "limit")
  BY <1>1 DEF AsyncLeaves
<1>5. PICK l \in Labels, r \in LocalType : Asyncs(v, l, r)
  BY <1>0, AsyncMoves
<1>6. pc'[v] \in {"run", "wait", "load"} /\ \A u \in Workers \ {v} : pc'[u] = pc[u] /\ loc'[u] = loc[u]
  BY <1>3, <1>5 DEF Asyncs, Moves
<1>7. f \cap Places4 = {} /\ "free" \in Stacks
  BY <1>0, <1>2, OfFree DEF Stacks
<1>8. On("marked")' = On("marked") /\ \A s \in Segs \ f : next'[s] = next[s]
  BY <1>3, <1>7, PushLists DEF Stacks
<1>9. OthersStay(v)
  BY <1>4, <1>6 DEF OthersStay
<1>10. ASSUME NEW w \in members \ {v}, NEW s \in Segs, Untouched(w, s) PROVE Spares(v, w, s, f)
  <2>1. Meanwhile(w, v) /\ ~Meanwhile(w, v)'
    BY <1>3 DEF Meanwhile, MARK, ASYNC
  <2>2. /\ s \notin swept /\ s \notin free[v] /\ s \notin part[v]
        /\ s \in Used(v) => snap[s] # "limit"
    BY <1>10, <2>1, UntouchedIs
  <2>3. s \notin empty \cup some
    BY <1>4, <2>2
  <2>. QED
    BY <1>2, <1>3, <1>4, <1>6, <2>1, <2>2, <2>3 DEF Spares
<1>11. \A u \in Workers \ {v} : \A s \in Used(u) : snap'[s] = snap[s]
  <2>1. \A u \in Workers \ {v} : \A s \in Used(u) : s \in Segs /\ s \notin K \cup empty \cup some
    BY <1>0, <1>4, OfUsed
  <2>. QED
    BY <1>4, <2>1 DEF SnapReset
<1>12. v \in members' => AbaOf(v)'
  BY <1>6 DEF AbaOf
<1>13. f \cap On("marked") = {}
  BY <1>7 DEF Places4
<1>. QED
  BY <1>0, <1>3, <1>8, <1>9, <1>10, <1>11, <1>12, <1>13, AbaMove DEF ControlInv

LEMMA SweepAba ==
  ASSUME ControlInv, OwnerInv, AbaInv, NEW v \in Workers, NEW empty \in BOOLEAN, Sweep(v, empty) PROVE AbaInv'
<1>0. TypeInv /\ Sweeping(v) /\ pc[v] = "sweep"
  BY DEF ControlInv, Sweep, Sweeping
<1>1. PICK h : h = loc[v].seg
  OBVIOUS
<1>2. /\ h \in Segs /\ h \notin Places4 /\ \A u \in Workers : h \notin part[u] \cup free[u]
  BY <1>0, <1>1, OfHand DEF ControlInv, LocalInv, LocalOf
<1>3. round = ASYNC /\ waiting = {} /\ gcCount % 2 = 1
  BY <1>0 DEF ControlInv, CycleInv
<1>4. PICK P \in SUBSET Segs : P = IF empty THEN {} ELSE {h}
  BY <1>2
<1>5. /\ UNCHANGED <<cur, filled, part, free, moved, members, round, waiting, gcCount, poolFilled>>
      /\ snap' = [snap EXCEPT ![h] = "base"] /\ Push("partial", P) /\ swept' \subseteq swept \cup {h}
      /\ loc' = [loc EXCEPT ![v] = Gets(loc[v], Null)] /\ pc' = [pc EXCEPT ![v] = "load"]
  BY <1>1, <1>4 DEF Sweep, own, rounds, Goto, Push
<1>6. pc'[v] = "load" /\ \A u \in Workers \ {v} : pc'[u] = pc[u] /\ loc'[u] = loc[u]
  BY <1>0, <1>5 DEF TypeInv
<1>7. P \cap Places4 = {} /\ "partial" \in Stacks
  BY <1>2, <1>4 DEF Stacks
<1>8. On("marked")' = On("marked") /\ \A s \in Segs \ P : next'[s] = next[s]
  BY <1>5, <1>7, PushLists DEF Stacks
<1>9. \A s \in Segs : snap'[s] = snap[s] \/ snap'[s] # "limit"
  BY <1>0, <1>2, <1>5 DEF TypeInv, TypeOK
<1>10. OthersStay(v)
  BY <1>5, <1>6 DEF OthersStay
<1>11. ASSUME NEW w \in members \ {v}, NEW s \in Segs, Untouched(w, s) PROVE Spares(v, w, s, P)
  <2>1. ~Meanwhile(w, v)'
    BY <1>3, <1>5 DEF Meanwhile, MARK, ASYNC
  <2>2. s \notin swept /\ s \notin free[v] /\ s \notin part[v] /\ s # h
    BY <1>0, <1>1, <1>3, <1>11, UntouchedIs DEF Answered
  <2>. QED
    BY <1>4, <1>5, <1>6, <2>1, <2>2 DEF Spares
<1>12. \A u \in Workers \ {v} : \A s \in Used(u) : snap'[s] = snap[s] \/ snap'[s] # "limit"
  BY <1>0, <1>9, OfUsed
<1>13. (v \in members' => AbaOf(v)') /\ P \cap On("marked") = {}
  BY <1>6, <1>7 DEF AbaOf, Places4
<1>. QED
  BY <1>0, <1>5, <1>8, <1>10, <1>11, <1>12, <1>13, AbaMove DEF ControlInv

LEMMA SweepFilledAba ==
  ASSUME ControlInv, OwnerInv, AbaInv, NEW v \in Workers, NEW empty \in SUBSET Segs, NEW some \in SUBSET Segs,
         SweepFilled(v, empty, some)
  PROVE  AbaInv'
<1>0. TypeInv /\ Sweeping(v) /\ pc[v] = "poolfilled"
  BY DEF ControlInv, SweepFilled, Sweeping
<1>1. round = ASYNC /\ waiting = {} /\ gcCount % 2 = 1
  BY <1>0 DEF ControlInv, CycleInv
<1>2. /\ UNCHANGED <<cur, filled, part, free, moved, members, round, waiting, gcCount, loc>>
      /\ snap' = [s \in Segs |-> IF s \in poolFilled THEN "base" ELSE snap[s]] /\ Push("partial", some)
      /\ swept' = swept \cup empty /\ empty \subseteq poolFilled /\ some \subseteq poolFilled
      /\ poolFilled' \subseteq poolFilled /\ pc' = [pc EXCEPT ![v] = "poolfree"]
  BY DEF SweepFilled, own, rounds, Goto
<1>3. pc'[v] = "poolfree" /\ \A u \in Workers \ {v} : pc'[u] = pc[u]
  BY <1>0, <1>2 DEF TypeInv
<1>4. some \cap Places4 = {} /\ "partial" \in Stacks
  BY <1>0, <1>2, OfDead DEF Stacks
<1>5. On("marked")' = On("marked") /\ \A s \in Segs \ some : next'[s] = next[s]
  BY <1>2, <1>4, PushLists DEF Stacks
<1>6. \A s \in Segs : snap'[s] = snap[s] \/ snap'[s] # "limit"
  BY <1>2
<1>7. OthersStay(v)
  BY <1>2, <1>3 DEF OthersStay
<1>8. ASSUME NEW w \in members \ {v}, NEW s \in Segs, Untouched(w, s) PROVE Spares(v, w, s, some)
  <2>1. ~Meanwhile(w, v)'
    BY <1>1, <1>2 DEF Meanwhile, MARK, ASYNC
  <2>2. s \notin swept /\ s \notin free[v] /\ s \notin part[v] /\ s \notin poolFilled
    BY <1>1, <1>8, UntouchedIs DEF Answered
  <2>. QED
    BY <1>2, <1>3, <2>1, <2>2 DEF Spares
<1>9. \A u \in Workers \ {v} : \A s \in Used(u) : snap'[s] = snap[s] \/ snap'[s] # "limit"
  BY <1>0, <1>6, OfUsed
<1>10. (v \in members' => AbaOf(v)') /\ some \cap On("marked") = {}
  BY <1>3, <1>4 DEF AbaOf, Places4
<1>. QED
  BY <1>0, <1>2, <1>5, <1>7, <1>8, <1>9, <1>10, AbaMove DEF ControlInv

LEMMA EndGCAba ==
  ASSUME ControlInv, OwnerInv, AbaInv, NEW v \in Workers, EndGC(v) PROVE AbaInv'
<1>0. TypeInv /\ Sweeping(v) /\ pc[v] = "poolfree"
  BY DEF ControlInv, EndGC, Sweeping
<1>1. round = ASYNC /\ waiting = {} /\ gcCount % 2 = 1 /\ gcCount \in Nat
  BY <1>0 DEF ControlInv, CycleInv, TypeInv
<1>2. PICK P \in SUBSET Segs : P = swept
  BY <1>0 DEF TypeInv
<1>3. /\ UNCHANGED <<cur, filled, part, free, snap, moved, members, round, waiting, loc, poolFilled>>
      /\ Push("free", P) /\ swept' = {} /\ gcCount' = gcCount + 1
      /\ pc' = [pc EXCEPT ![v] = IF loc[v].tries = 0 THEN "run" ELSE "wait"]
  BY <1>2 DEF EndGC, own, bits, Goto
<1>4. pc'[v] \in {"run", "wait"} /\ \A u \in Workers \ {v} : pc'[u] = pc[u]
  BY <1>0, <1>3 DEF TypeInv
<1>5. P \cap Places4 = {} /\ "free" \in Stacks
  BY <1>0, <1>2, OfSwept DEF Stacks
<1>6. On("marked")' = On("marked") /\ \A s \in Segs \ P : next'[s] = next[s]
  BY <1>3, <1>5, PushLists DEF Stacks
<1>7. OthersStay(v) /\ gcCount' % 2 # 1
  BY <1>1, <1>3, <1>4 DEF OthersStay
<1>8. ASSUME NEW w \in members \ {v}, NEW s \in Segs, Untouched(w, s) PROVE Spares(v, w, s, P)
  <2>1. ~Meanwhile(w, v)'
    BY <1>1, <1>3 DEF Meanwhile, MARK, ASYNC
  <2>2. s \notin swept /\ s \notin free[v] /\ s \notin part[v]
    BY <1>8, UntouchedIs
  <2>. QED
    BY <1>2, <1>3, <1>4, <2>1, <2>2 DEF Spares
<1>9. (v \in members' => AbaOf(v)') /\ P \cap On("marked") = {}
  BY <1>4, <1>5 DEF AbaOf, Places4
<1>. QED
  BY <1>0, <1>3, <1>6, <1>7, <1>8, <1>9, AbaMove DEF ControlInv

LEMMA RegisterAba ==
  ASSUME ControlInv, OwnerInv, AbaInv, NEW v \in Workers, Register(v) PROVE AbaInv'
<1>0. TypeInv
  BY DEF ControlInv
<1>1. PICK c : c = cur[v]
  OBVIOUS
<1>2. /\ members' = members \cup {v} /\ c \in Segs /\ c # Null /\ v \notin waiting /\ snap' = SnapshotAt(round, {c})
      /\ UNCHANGED <<round, waiting, cur, filled, part, free, top, next, poolFilled, gcCount, moved, swept, loc>>
      /\ pc'[v] = "run" /\ \A u \in Workers \ {v} : pc'[u] = pc[u]
  BY <1>1, RegisterFacts DEF shared
<1>3. On("marked")' = On("marked")
  BY <1>2 DEF On, ListFrom, Chain, Leaves
<1>4. OthersStay(v) /\ Used(v)' = Used(v) /\ c \in Used(v)
  BY <1>1, <1>2 DEF OthersStay, Used
<1>5. \A u \in Workers \ {v} : \A s \in Used(u) : snap'[s] = snap[s]
  <2>1. \A u \in Workers \ {v} : \A s \in Used(u) : s \in Segs /\ s # c
    BY <1>0, <1>4, OfUsed
  <2>. QED
    BY <1>2, <2>1 DEF SnapshotAt
<1>6. ASSUME NEW w \in members \ {v}, NEW s \in Segs, Untouched(w, s) PROVE Spares(v, w, s, {})
  <2>1. /\ s \notin swept /\ s \notin free[v] /\ s \notin part[v]
        /\ Meanwhile(w, v) /\ s \in Used(v) => snap[s] # "limit"
    BY <1>6, UntouchedIs
  <2>2. ASSUME Meanwhile(w, v)' PROVE Meanwhile(w, v) /\ snap'[s] = snap[s]
    <3>1. Meanwhile(w, v) /\ round = MARK
      BY <1>2, <2>2 DEF Meanwhile
    <3>. QED
      BY <1>2, <3>1, BeforeFacts DEF SnapshotAt
  <2>. QED
    BY <1>2, <1>4, <2>1, <2>2 DEF Spares
<1>7. v \in members' => AbaOf(v)'
  BY <1>2 DEF AbaOf
<1>. QED
  BY <1>0, <1>2, <1>3, <1>4, <1>5, <1>6, <1>7, AbaMove DEF ControlInv

LEMMA AbaStep == ControlInv /\ ControlInv' /\ OwnerInv /\ SnapInv /\ AbaInv /\ [Next]_vars /\ ~raced' => AbaInv'
<1>. SUFFICES ASSUME ControlInv, ControlInv', OwnerInv, SnapInv, AbaInv, [Next]_vars, ~raced' PROVE AbaInv'
  OBVIOUS
<1>0. TypeInv
  BY DEF ControlInv
<1>1. CASE Next
  <2>1. ASSUME NEW w \in Workers, Pool(w) PROVE AbaInv'
    <3>1. CASE ClearMarked(w)
      <4>1. pc'[w] = "set" /\ \A u \in Workers \ {w} : pc'[u] = pc[u] /\ loc'[u] = loc[u]
        BY <1>0, <3>1 DEF ClearMarked, Goto, TypeInv
      <4>2. UNCHANGED <<own, shared, snap, rounds, swept>>
        BY <3>1 DEF ClearMarked
      <4>3. On("marked")' = On("marked")
        BY <4>2 DEF shared, On, ListFrom, Chain, Leaves
      <4>. QED
        BY <4>1, <4>2, <4>3, AbaStill DEF own, shared, rounds
    <3>2. CASE Extend(w)
      <4>1. PICK l \in Labels, r \in LocalType : Extends(w, l, r)
        BY <3>2, ExtendMoves DEF ControlInv
      <4>2. l \notin {"cas", "sweep"} /\ pc'[w] = l /\ \A u \in Workers \ {w} : pc'[u] = pc[u] /\ loc'[u] = loc[u]
        BY <4>1 DEF Extends, Moves
      <4>3. UNCHANGED <<own, top, next, poolFilled, bits, rounds, swept>>
        BY <3>2 DEF Extend
      <4>4. On("marked")' = On("marked")
        BY <4>3 DEF On, ListFrom, Chain, Leaves
      <4>. QED
        BY <4>2, <4>3, <4>4, AbaStill DEF own, bits, rounds
    <3>. QED
      BY <2>1, <3>1, <3>2, PopLoadAba, PopCasAba, UseFoundAba DEF Pool
  <2>2. ASSUME NEW w \in Workers, Worker(w) PROVE AbaInv'
    <3>1. CASE AllocYoung(w)
      <4>1. UNCHANGED <<own, shared, snap, rounds, swept, pc, loc>>
        BY <3>1 DEF AllocYoung
      <4>2. On("marked")' = On("marked")
        BY <4>1 DEF shared, On, ListFrom, Chain, Leaves
      <4>. QED
        BY <4>1, <4>2, AbaStill DEF own, shared, rounds
    <3>2. CASE GiveUp(w) \/ EndWait(w)
      <4>1. /\ UNCHANGED <<own, shared, bits, rounds, swept, loc>>
            /\ \E l \in {"fatal", "retry"} : pc' = [pc EXCEPT ![w] = l]
        BY <3>2 DEF GiveUp, EndWait, Goto
      <4>2. pc'[w] \in {"fatal", "retry"} /\ \A u \in Workers \ {w} : pc'[u] = pc[u] /\ loc'[u] = loc[u]
        BY <1>0, <4>1 DEF TypeInv
      <4>3. On("marked")' = On("marked")
        BY <4>1 DEF shared, On, ListFrom, Chain, Leaves
      <4>. QED
        BY <4>1, <4>2, <4>3, AbaStill DEF own, shared, bits, rounds
    <3>3. CASE RequestGC(w)
      BY <3>3, StartGCAba DEF RequestGC
    <3>4. CASE WaitGC(w)
      <4>1. pc'[w] = "wait" /\ \A u \in Workers \ {w} : pc'[u] = pc[u] /\ loc'[u] = loc[u]
        BY <1>0, <3>4, WaitGCMoves DEF Moves
      <4>2. CASE gcCount % 2 = 1
        <5>1. UNCHANGED <<own, shared, snap, rounds, swept>>
          BY <3>4, <4>2 DEF WaitGC
        <5>2. On("marked")' = On("marked")
          BY <5>1 DEF shared, On, ListFrom, Chain, Leaves
        <5>. QED
          BY <4>1, <5>1, <5>2, AbaStill DEF own, shared, rounds
      <4>3. CASE gcCount % 2 # 1
        <5>1. StartGC /\ UNCHANGED <<own, shared, snap, swept>>
          BY <3>4, <4>3 DEF WaitGC
        <5>2. \A u \in members : pc'[u] = "cas" => pc[u] = "cas" /\ loc'[u] = loc[u]
          BY <1>0, <4>1 DEF TypeInv
        <5>. QED
          BY <5>1, <5>2, StartGCAba
      <4>. QED
        BY <4>2, <4>3
    <3>. QED
      BY <2>2, <3>1, <3>2, <3>3, <3>4, FindSegmentAba, TakePartialAba, AnswerAba, AsyncAba, SweepAba,
         SweepFilledAba, EndGCAba DEF Worker
  <2>3. ASSUME NEW w \in Workers, StartInit(w) PROVE AbaInv'
    <3>1. pc'[w] = "load" /\ \A u \in Workers \ {w} : pc'[u] = pc[u] /\ loc'[u] = loc[u]
      BY <1>0, <2>3 DEF StartInit, Goto, TypeInv
    <3>2. UNCHANGED <<own, shared, bits, rounds, swept>>
      BY <2>3 DEF StartInit
    <3>3. On("marked")' = On("marked")
      BY <3>2 DEF shared, On, ListFrom, Chain, Leaves
    <3>. QED
      BY <3>1, <3>2, <3>3, AbaStill DEF own, shared, rounds, bits
  <2>4. ASSUME NEW w \in Workers, Signal(w) PROVE AbaInv'
    <3>1. UNCHANGED <<own, shared, bits, members, round, waiting, gcCount, swept, pc, loc>>
      BY <2>4 DEF Signal
    <3>2. On("marked")' = On("marked")
      BY <3>1 DEF shared, On, ListFrom, Chain, Leaves
    <3>. QED
      BY <3>1, <3>2, AbaStill DEF own, shared, bits
  <2>5. CASE TakeMarked
    <3>1. UNCHANGED <<own, next, poolFilled, bits, members, round, waiting, gcCount, swept, pc, loc>>
      BY <2>5 DEF TakeMarked
    <3>2. On("marked")' = On("marked")
      BY <2>5, TakenLists DEF Stacks
    <3>3. ASSUME NEW w \in members PROVE AbaOf(w)'
      BY <3>1, <3>2 DEF AbaInv, AbaOf, Untouched, Answered, Meanwhile, Used, own, bits, On
    <3>. QED
      BY <3>1, <3>3 DEF AbaInv
  <2>. QED
    BY <1>1, <2>1, <2>2, <2>3, <2>4, <2>5, RegisterAba, KillAba, NextRoundAba, PutMarkedAba DEF Next
<1>2. CASE UNCHANGED vars
  <2>1. UNCHANGED <<top, next, poolFilled, swept, cur, filled, part, free, snap, members, round, waiting, gcCount, pc, loc>>
    BY <1>2 DEF vars
  <2>2. On("marked")' = On("marked")
    BY <2>1 DEF On, ListFrom, Chain, Leaves
  <2>3. ASSUME NEW w \in members PROVE AbaOf(w)'
    BY <2>1, <2>2 DEF AbaInv, AbaOf, Untouched, Answered, Meanwhile, Used, On
  <2>. QED
    BY <2>1, <2>3 DEF AbaInv
<1>. QED
  BY <1>1, <1>2

-----------------------------------------------------------------------------
(* The invariant.                                                           *)

LEMMA QuietInit == Init => QuietInv
<1>. SUFFICES ASSUME Init PROVE QuietInv
  OBVIOUS
<1>1. /\ TypeInv /\ OwnerInv
  BY ControlInit, OwnerInit DEF ControlInv
<1>2. /\ \A w \in Workers : /\ cur[w] = Null /\ filled[w] = {} /\ part[w] = {} /\ free[w] = {}
                            /\ pc[w] \in {"none", "run"}
      /\ top = [s \in Stacks |-> IF s = "partial" THEN Pool0 ELSE Null] /\ moved.list = Null
      /\ \A s \in Segs : snap[s] = "base"
      /\ covered = 1..Pool0 /\ young = {} /\ dirty = {} /\ stale = {} /\ swept = {} /\ alloced = Pool0
  BY DEF Init
<1>3. SnapInv
  BY <1>2, BeforeFacts DEF SnapInv, SnapOf, Init
<1>4. YoungInv
  BY <1>2 DEF YoungInv, YoungOf
<1>5. BitsInv
  <2>1. On("free") = {}
    BY <1>1, <1>2, ListTypes, ChainNull, StackKinds DEF On, ListFrom
  <2>2. \A s \in 1..Pool0 : ~(s > alloced)
    BY <1>2, CountType
  <2>3. ASSUME NEW s \in Unused PROVE s \notin covered \cup dirty \cup stale
    BY <1>2, <2>1, <2>2, UnusedIs
  <2>4. \A w \in Workers : Occupied(w) = {}
    BY <1>2 DEF Occupied
  <2>. QED
    BY <1>1, <1>2, <2>3, <2>4, BitsInvIs DEF BitsOf, TypeInv
<1>6. AbaInv
  BY <1>1, <1>2 DEF AbaInv, AbaOf, TypeInv
<1>. QED
  BY <1>1, <1>3, <1>4, <1>5, <1>6 DEF QuietInv

LEMMA RacedStays == TypeInv /\ [Next]_vars => (raced => raced')
<1>. SUFFICES ASSUME TypeInv, [Next]_vars, raced PROVE raced'
  OBVIOUS
<1>1. ASSUME NEW w \in Workers, Pool(w) PROVE raced'
  BY <1>1 DEF Pool, PopLoad, PopCas, ClearMarked, Extend, UseFound
<1>2. ASSUME NEW w \in Workers, Worker(w) PROVE raced'
  BY <1>2 DEF Worker, AllocYoung, FindSegment, GiveUp, RequestGC, WaitGC, EndWait, EndGC, TakePartial, Answer, Async,
     SweepFilled, Sweep
<1>3. ASSUME NEW w \in Workers, StartInit(w) \/ Register(w) \/ Signal(w) \/ Kill(w) PROVE raced'
  BY <1>3 DEF StartInit, Register, Signal, Kill
<1>4. CASE NextRound \/ TakeMarked \/ PutMarked
  BY <1>4 DEF NextRound, TakeMarked, PutMarked
<1>5. CASE UNCHANGED vars
  BY <1>5 DEF vars
<1>. QED
  BY <1>1, <1>2, <1>3, <1>4, <1>5 DEF Next

LEMMA PInvInit == Init => PInv
BY ControlInit, RoomInit, QuietInit DEF PInv

LEMMA PInvStep == PInv /\ [Next]_vars => PInv'
<1>. SUFFICES ASSUME PInv, [Next]_vars PROVE PInv'
  OBVIOUS
<1>1. ControlInv /\ ControlInv' /\ RoomInv'
  BY ControlStep, RoomStep DEF PInv
<1>2. ASSUME ~raced' PROVE QuietInv'
  <2>1. QuietInv
    BY <1>1, <1>2, RacedStays DEF PInv, ControlInv
  <2>. QED
    BY <1>1, <1>2, <2>1, OwnerStep, SnapStep, YoungStep, BitsStep, AbaStep DEF QuietInv
<1>. QED
  BY <1>1, <1>2 DEF PInv

\* The inductive invariant of the pool holds in every reachable state.
THEOREM Invariance == Spec => []PInv
<1>1. Init => PInv
  BY PInvInit
<1>2. PInv /\ [Next]_vars => PInv'
  BY PInvStep
<1>. QED
  BY <1>1, <1>2, PTL DEF Spec

-----------------------------------------------------------------------------
(* One owner.                                                               *)

\* Where a segment is, as a place.
Home(k, w) ==
  CASE k \in Stacks    -> <<"stack", ListFrom(top[k]), k>>
    [] k = "cur"       -> <<"own", ({cur[w]} \ {Null}), w>>
    [] k = "filled"    -> <<"filled", filled[w], w>>
    [] k = "part"      -> <<"part", part[w], w>>
    [] k = "own"       -> <<"free", free[w], w>>
    [] k = "hand"      -> <<"hand", {loc[w].seg} \ {Null}, w>>
    [] k = "dead"      -> <<"pool", poolFilled, "filled">>
    [] k = "swept"     -> <<"pool", swept, "swept">>
    [] k = "moved"     -> <<"pool", ListFrom(moved.list), "moved">>
    [] k = "unused"    -> <<"none", {}, "none">>

LEMMA PlacesAre ==
  \A p : p \in Places <=>
    \/ \E st \in Stacks : p = <<"stack", On(st), st>>
    \/ \E w \in Workers : \/ p = <<"own", ({cur[w]} \ {Null}), w>> \/ p = <<"filled", filled[w], w>>
                          \/ p = <<"part", part[w], w>> \/ p = <<"free", free[w], w>>
                          \/ p = <<"hand", {loc[w].seg} \ {Null}, w>>
    \/ p = <<"pool", poolFilled, "filled">> \/ p = <<"pool", swept, "swept">>
    \/ p = <<"pool", Apart, "moved">>
BY DEF Places, On, Apart

LEMMA HomeIs ==
  ASSUME NEW w
  PROVE  /\ \A st \in Stacks : Home(st, w) = <<"stack", On(st), st>>
         /\ Home("cur", w) = <<"own", ({cur[w]} \ {Null}), w>>
         /\ Home("filled", w) = <<"filled", filled[w], w>> /\ Home("part", w) = <<"part", part[w], w>>
         /\ Home("own", w) = <<"free", free[w], w>> /\ Home("hand", w) = <<"hand", {loc[w].seg} \ {Null}, w>>
         /\ Home("dead", w) = <<"pool", poolFilled, "filled">> /\ Home("swept", w) = <<"pool", swept, "swept">>
         /\ Home("moved", w) = <<"pool", Apart, "moved">>
BY DEF Home, Stacks, On, Apart

LEMMA OnePlace ==
  ASSUME TypeInv, NEW kind, NEW who, OwnedBy(kind, who), NEW s \in Segs
  PROVE  /\ kind[s] # "unused" => Home(kind[s], who[s]) \in Places /\ s \in Home(kind[s], who[s])[2]
         /\ \A p \in Places : s \in p[2] => kind[s] # "unused" /\ p = Home(kind[s], who[s])
<1>0. s # Null /\ kind[s] \in Kinds
  BY SegType DEF OwnedBy
<1>1. ASSUME NEW st \in Stacks PROVE s \in <<"stack", On(st), st>>[2] <=> kind[s] = st
  BY OwnerFacts
<1>2. ASSUME NEW w \in Workers
      PROVE  /\ s \in <<"own", ({cur[w]} \ {Null}), w>>[2] <=> kind[s] = "cur" /\ who[s] = w
             /\ s \in <<"filled", filled[w], w>>[2] <=> kind[s] = "filled" /\ who[s] = w
             /\ s \in <<"part", part[w], w>>[2] <=> kind[s] = "part" /\ who[s] = w
             /\ s \in <<"free", free[w], w>>[2] <=> kind[s] = "own" /\ who[s] = w
             /\ s \in <<"hand", {loc[w].seg} \ {Null}, w>>[2] <=> kind[s] = "hand" /\ who[s] = w
  <2>1. /\ s = cur[w] <=> kind[s] = "cur" /\ who[s] = w
        /\ s \in filled[w] <=> kind[s] = "filled" /\ who[s] = w
        /\ s \in part[w] <=> kind[s] = "part" /\ who[s] = w
        /\ s \in free[w] <=> kind[s] = "own" /\ who[s] = w
        /\ s = loc[w].seg <=> kind[s] = "hand" /\ who[s] = w
    BY OwnerFacts
  <2>. QED
    BY <1>0, <2>1
<1>3. /\ s \in <<"pool", poolFilled, "filled">>[2] <=> kind[s] = "dead"
      /\ s \in <<"pool", swept, "swept">>[2] <=> kind[s] = "swept"
      /\ s \in <<"pool", Apart, "moved">>[2] <=> kind[s] = "moved"
  BY OwnerFacts
<1>4. ASSUME NEW p \in Places, s \in p[2] PROVE kind[s] # "unused" /\ p = Home(kind[s], who[s])
  <2>1. CASE \E st \in Stacks : p = <<"stack", On(st), st>>
    BY <1>1, <1>4, <2>1, HomeIs, StackKinds
  <2>2. ASSUME NEW w \in Workers, p = <<"own", ({cur[w]} \ {Null}), w>> PROVE kind[s] # "unused" /\ p = Home(kind[s], who[s])
    BY <1>2, <1>4, <2>2, HomeIs
  <2>3. ASSUME NEW w \in Workers, p = <<"filled", filled[w], w>> PROVE kind[s] # "unused" /\ p = Home(kind[s], who[s])
    BY <1>2, <1>4, <2>3, HomeIs
  <2>4. ASSUME NEW w \in Workers, p = <<"part", part[w], w>> PROVE kind[s] # "unused" /\ p = Home(kind[s], who[s])
    BY <1>2, <1>4, <2>4, HomeIs
  <2>5. ASSUME NEW w \in Workers, p = <<"free", free[w], w>> PROVE kind[s] # "unused" /\ p = Home(kind[s], who[s])
    BY <1>2, <1>4, <2>5, HomeIs
  <2>6. ASSUME NEW w \in Workers, p = <<"hand", {loc[w].seg} \ {Null}, w>> PROVE kind[s] # "unused" /\ p = Home(kind[s], who[s])
    BY <1>2, <1>4, <2>6, HomeIs
  <2>7. CASE p \in {<<"pool", poolFilled, "filled">>, <<"pool", swept, "swept">>, <<"pool", Apart, "moved">>}
    BY <1>3, <1>4, <2>7, HomeIs
  <2>. QED
    BY <2>1, <2>2, <2>3, <2>4, <2>5, <2>6, <2>7, PlacesAre
<1>5. ASSUME kind[s] # "unused" PROVE Home(kind[s], who[s]) \in Places /\ s \in Home(kind[s], who[s])[2]
  <2>1. CASE kind[s] \in Stacks
    <3>1. PICK st \in Stacks : st = kind[s]
      BY <2>1
    <3>2. Home(st, who[s]) = <<"stack", On(st), st>> /\ <<"stack", On(st), st>> \in Places
      BY HomeIs, PlacesAre
    <3>. QED
      BY <1>1, <3>1, <3>2
  <2>2. CASE kind[s] \in {"moved", "dead", "swept"}
    BY <1>3, <2>2, HomeIs, PlacesAre
  <2>3. CASE kind[s] \in {"cur", "filled", "part", "own", "hand"}
    <3>1. PICK w \in Workers : w = who[s]
      BY <2>3 DEF OwnedBy, WhoOf
    <3>2. /\ <<"own", ({cur[w]} \ {Null}), w>> \in Places /\ <<"filled", filled[w], w>> \in Places
          /\ <<"part", part[w], w>> \in Places /\ <<"free", free[w], w>> \in Places
          /\ <<"hand", {loc[w].seg} \ {Null}, w>> \in Places
      BY PlacesAre
    <3>3. CASE kind[s] = "cur"
      <4>1. Home(kind[s], who[s]) = <<"own", ({cur[w]} \ {Null}), w>>
        BY <3>1, <3>3, HomeIs
      <4>2. s \in <<"own", ({cur[w]} \ {Null}), w>>[2]
        BY <1>2, <3>1, <3>3
      <4>. QED
        BY <3>2, <4>1, <4>2
    <3>4. CASE kind[s] = "filled"
      BY <1>2, <3>1, <3>2, <3>4, HomeIs
    <3>5. CASE kind[s] = "part"
      BY <1>2, <3>1, <3>2, <3>5, HomeIs
    <3>6. CASE kind[s] = "own"
      BY <1>2, <3>1, <3>2, <3>6, HomeIs
    <3>7. CASE kind[s] = "hand"
      BY <1>2, <3>1, <3>2, <3>7, HomeIs
    <3>. QED
      BY <2>3, <3>3, <3>4, <3>5, <3>6, <3>7
  <2>. QED
    BY <1>0, <1>5, <2>1, <2>2, <2>3 DEF Kinds
<1>. QED
  BY <1>4, <1>5

LEMMA OneOwnerFromInv == PInv => OneOwner
<1>. SUFFICES ASSUME PInv, ~raced, NEW s \in Segs
              PROVE  Cardinality({p \in Places : s \in p[2]}) = IF s <= alloced THEN 1 ELSE 0
  BY DEF OneOwner
<1>1. TypeInv /\ OwnerInv
  BY DEF PInv, QuietInv, ControlInv
<1>2. PICK kind, who : OwnedBy(kind, who)
  BY <1>1 DEF OwnerInv
<1>3. s <= alloced <=> kind[s] # "unused"
  <2>1. s > alloced <=> kind[s] = "unused"
    BY <1>1, <1>2, OwnerFacts
  <2>2. s \in Int /\ alloced \in Int
    BY <1>1, SegType DEF TypeInv, TypeOK
  <2>. QED
    BY <2>1, <2>2
<1>4. CASE kind[s] = "unused"
  <2>1. {p \in Places : s \in p[2]} = {}
    BY <1>1, <1>2, <1>4, OnePlace
  <2>. QED
    BY <1>3, <1>4, <2>1, FS_EmptySet
<1>5. CASE kind[s] # "unused"
  <2>1. {p \in Places : s \in p[2]} = {Home(kind[s], who[s])}
    BY <1>1, <1>2, <1>5, OnePlace
  <2>. QED
    BY <1>3, <1>5, <2>1, FS_Singleton
<1>. QED
  BY <1>4, <1>5

\* While no race has happened every segment of the heap is in exactly one
\* place, and those that are not yet allocated in none: no step of segment_pop,
\* segment_push_list, reclaim_segment_pool, sml_heap_global_before_async or
\* sml_heap_worker_kill loses a segment or gives it to two threads.
THEOREM OneOwnerHolds == Spec => []OneOwner
BY Invariance, OneOwnerFromInv, PTL

-----------------------------------------------------------------------------
(* What follows for the workers.                                            *)

\* A registered worker whose compare-and-swap in segment_pop succeeds stores
\* the next that the head has now: the segment has not been popped and pushed
\* again in the meantime.
THEOREM NoABAHolds == Spec => []NoABA
<1>1. PInv => NoABA
  <2>. SUFFICES ASSUME PInv, ~raced, NEW w \in members, pc[w] = "cas", PopSucceeds(w)
                PROVE  next[loc[w].old] = loc[w].nxt
    BY DEF NoABA, StaleNext
  <2>1. TypeInv /\ LocalInv /\ AbaOf(w) /\ w \in Workers
    BY DEF PInv, QuietInv, ControlInv, AbaInv, TypeInv
  <2>2. PICK st \in Stacks : st = loc[w].st
    BY <2>1 DEF LocalInv, LocalOf
  <2>3. PICK h \in Link : h = loc[w].old
    BY <2>1, FieldTypes DEF TypeInv
  <2>4. h # Null /\ top[st] = h
    BY <2>1, <2>2, <2>3 DEF LocalInv, LocalOf, PopSucceeds
  <2>5. h \in On(st)
    BY <2>1, <2>4, ListTypes, ChainClosed DEF On, ListFrom
  <2>. QED
    BY <2>1, <2>2, <2>3, <2>5 DEF AbaOf, On
<1>. QED
  BY <1>1, Invariance, PTL

\* A segment with objects behind its snapshot, which no trace has looked at, is
\* the current segment or a filled one of a worker, and no block is taken from
\* it before reclaim_subheap has put them in front of the snapshot.
THEOREM YoungKeptHolds == Spec => []YoungKept
<1>1. PInv => YoungKept
  BY DEF PInv, QuietInv, YoungInv, YoungKept, Used
<1>. QED
  BY <1>1, Invariance, PTL

\* find_segment gives up after its two collections only because the pool has no
\* segment, never because extension_room was used up.
THEOREM ExhaustedMeansPoolHolds == Spec => []ExhaustedMeansPool
<1>1. PInv => ExhaustedMeansPool
  BY DEF PInv, RoomInv, RoomOf, ExhaustedMeansPool
<1>. QED
  BY <1>1, Invariance, PTL

\* The assertions of set_alloc_ptr, reclaim_subheap and init_segment hold: what
\* is taken into use has its snapshot at its base; until a worker takes its
\* snapshot its current segment is in front of it; and between collections no
\* collect bit is left in the segments of a worker.
THEOREM SegmentsReadyHolds == Spec => []SegmentsReady
<1>1. PInv => SegmentsReady
  <2>. SUFFICES ASSUME PInv PROVE SegmentsReady
    OBVIOUS
  <2>0. ControlInv /\ TypeInv /\ TypeOK /\ (~raced => QuietInv)
    BY DEF PInv, ControlInv, TypeInv
  <2>1. BaseWhenIdle
    <3>. SUFFICES ASSUME ~raced, NEW s \in Segs, snap[s] # "base",
                         \/ \E w \in Workers : s \in part[w] \cup free[w]
                         \/ \E st \in {"partial", "free"} : s \in ListFrom(top[st])
                         \/ \E w \in Workers : pc[w] = "set" /\ loc[w].seg = s
                  PROVE  FALSE
      BY DEF BaseWhenIdle
    <3>1. OwnerInv /\ SnapInv /\ s # Null
      BY <2>0, SegType DEF QuietInv
    <3>2. s \in poolFilled \/ \E w \in Workers : s \in Used(w)
      BY <3>1 DEF SnapInv
    <3>3. /\ s \notin On("partial") /\ s \notin On("free")
          /\ \A w \in Workers : s \notin part[w] \cup free[w] /\ s # loc[w].seg
      BY <2>0, <3>1, <3>2, OfUsed, OfDead DEF Places4
    <3>. QED
      BY <3>3 DEF On
  <2>2. InFront
    BY <2>0 DEF InFront, QuietInv, SnapInv, SnapOf, TypeInv
  <2>3. BitsCleared
    <3>. SUFFICES ASSUME ~raced, NEW w \in members
                  PROVE  /\ Occupied(w) \cap stale = {} /\ (gcCount % 2 = 0 => Occupied(w) \cap dirty = {})
      BY DEF BitsCleared
    <3>1. BitsOf(w) /\ (gcCount % 2 = 0 => Answered(w))
      BY <2>0 DEF QuietInv, BitsInv, ControlInv, CycleInv, Answered
    <3>. QED
      BY <3>1 DEF BitsOf
  <2>. QED
    BY <2>0, <2>1, <2>2, <2>3 DEF SegmentsReady
<1>. QED
  BY <1>1, Invariance, PTL
=============================================================================
