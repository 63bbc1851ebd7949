--------------------------- MODULE SegmentPoolInv ---------------------------
(***************************************************************************)
(* The inductive invariant of SegmentPool.                                 *)
(*                                                                         *)
(* ControlInv and RoomInv hold whatever races.  Until a race has happened  *)
(* every segment has one owner (OwnerInv), and from that follow the places *)
(* of the snapshots (SnapInv), of the objects behind them (YoungInv) and   *)
(* of the bits of the collect bitmaps (BitsInv), and that no worker swaps  *)
(* in a next that is out of date (AbaInv).                                 *)
(***************************************************************************)
EXTENDS SegmentPool

Labels == {"none", "load", "cas", "clear", "extend", "set", "register", "run",
           "fail", "wait", "retry", "fatal", "sweep", "poolfilled", "poolfree"}
InPoolCode == {"load", "cas", "clear", "extend", "set"}
Link == Segs \cup {Null}
LocalType == [use : {"", "find", "init", "sweep"}, st : Stacks \cup {""}, old : Link,
              nxt : Link, seg : Link, lp : Phases \cup {DUMMY_PHASE}, tries : 0..2,
              goal : Nat]

TypeInv ==
  /\ TypeOK
  /\ poolFilled \subseteq Segs /\ swept \subseteq Segs /\ covered \subseteq Segs
  /\ young \subseteq Segs /\ dirty \subseteq Segs /\ stale \subseteq Segs
  /\ filled \in [Workers -> SUBSET Segs] /\ part \in [Workers -> SUBSET Segs]
  /\ free \in [Workers -> SUBSET Segs]
  /\ members \subseteq Workers /\ waiting \subseteq members
  /\ round \in {ASYNC, SYNC1, SYNC2, MARK} /\ gcCount \in Nat
  /\ moved \in [on : BOOLEAN, list : Link]
  /\ pc \in [Workers -> Labels] /\ loc \in [Workers -> LocalType]
  /\ raced \in BOOLEAN

-----------------------------------------------------------------------------
(* Control.                                                                 *)

Registering(w) == \/ pc[w] \in {"none", "register"}
                  \/ pc[w] \in InPoolCode /\ loc[w].use = "init"
Finding(w)  == pc[w] \in InPoolCode /\ loc[w].use = "find"
Sweeping(w) == \/ pc[w] \in {"sweep", "poolfilled", "poolfree"}
               \/ pc[w] \in {"load", "cas"} /\ loc[w].use = "sweep"

\* What a thread has in its locals, by where it is.
LocalOf(w) ==
  /\ w \in members <=> ~Registering(w)
  /\ pc[w] \in InPoolCode => loc[w].use # ""
  /\ pc[w] \in {"clear", "extend", "set"} => loc[w].use # "sweep"
  /\ pc[w] \in {"load", "cas"} => loc[w].st \in Stacks
  /\ pc[w] = "cas" => loc[w].old # Null
  /\ pc[w] = "clear" => loc[w].st = "marked"
  /\ pc[w] \in InPoolCode /\ loc[w].use = "sweep" => loc[w].st = "marked"
  /\ pc[w] = "sweep" => loc[w].use = "sweep" /\ loc[w].st = "marked"
  /\ pc[w] \in InPoolCode /\ loc[w].use = "init"
       => loc[w].st # "marked" /\ loc[w].lp = DUMMY_PHASE /\ loc[w].tries = 0
  /\ loc[w].seg # Null <=> pc[w] \in {"clear", "set", "sweep"}
  /\ pc[w] \in {"none", "run", "register"} => loc[w].tries = 0
  /\ pc[w] = "wait" => loc[w].tries # 0

\* What a thread owns, by where it is.
HeapOf(w) ==
  /\ Finding(w) => cur[w] = Null /\ room[w] > 0
  /\ w \notin members =>
       /\ cur[w] # Null <=> pc[w] = "register"
       /\ filled[w] = {} /\ part[w] = {} /\ free[w] = {}

\* Where a worker is in the handshake.  A signal may come while a worker looks
\* for a segment, for the phase it has read before.
PhaseOf(w) ==
  /\ w \notin waiting => phase[w] = round
  /\ w \in unsent => <<phase[w], round>> \in Successors
  /\ w \in waiting \ unsent => phase[w] = Pre(round)
  /\ Finding(w) => \/ loc[w].lp = phase[w]
                   \/ w \in waiting \ unsent /\ <<loc[w].lp, round>> \in Successors

LocalInv == \A w \in Workers : LocalOf(w)
HeapInv  == \A w \in Workers : HeapOf(w)
PhaseInv == \A w \in members : PhaseOf(w)

\* How far the collection is.  The segments of partial_marked are taken from
\* it before the collection ends.
CycleInv ==
  /\ gcCount % 2 = 0 => round = ASYNC /\ waiting = {}
  /\ \A w \in Workers : Sweeping(w) => round = ASYNC /\ waiting = {} /\ gcCount % 2 = 1
  /\ \A u, w \in Workers : Sweeping(u) /\ Sweeping(w) => u = w
  /\ moved.on => round = MARK /\ waiting = {} /\ top["partial"] = Null
  /\ ~moved.on => moved.list = Null
  /\ top["marked"] # Null =>
       /\ round = ASYNC /\ gcCount % 2 = 1
       /\ \A w \in Workers : pc[w] \notin {"poolfilled", "poolfree"}

ControlInv == TypeInv /\ LocalInv /\ HeapInv /\ PhaseInv /\ CycleInv

\* The collection that runs will not end before w has answered ASYNC.
AsyncAhead(w) == gcCount % 2 = 1 /\ (round = ASYNC => w \in waiting)

\* A worker that waits without room has not answered ASYNC since it began to;
\* the second collection it waits for will not end before that.
RoomOf(w) ==
  /\ pc[w] = "fatal" => room[w] > 0
  /\ loc[w].tries # 0 =>
       /\ loc[w].goal % 2 = 0
       /\ pc[w] \in {"fail", "retry"} \/ Finding(w) => gcCount >= loc[w].goal
       /\ room[w] = 0 =>
            /\ gcCount \in loc[w].goal - 1 .. loc[w].goal + 1
            /\ gcCount = loc[w].goal + 1 => AsyncAhead(w)
            /\ loc[w].tries = 2 => gcCount = loc[w].goal - 1 /\ AsyncAhead(w)
RoomInv == \A w \in Workers : RoomOf(w)

-----------------------------------------------------------------------------
(* Owners.                                                                  *)

\* No segment of a list comes again behind itself.
Acyclic(nx, s) == \A x \in Chain(nx, s) : x \notin Chain(nx, nx[x])

Kinds == Stacks \cup {"moved", "dead", "swept", "unused", "cur", "filled", "part",
                      "own", "hand"}

\* kind[s] says where s is, and who[s] which thread has it.
InLists(kind) ==
  \A s \in Segs :
    /\ \A st \in Stacks : s \in ListFrom(top[st]) <=> kind[s] = st
    /\ s \in ListFrom(moved.list) <=> kind[s] = "moved"
InPool(kind) ==
  \A s \in Segs :
    /\ s \in poolFilled <=> kind[s] = "dead"
    /\ s \in swept <=> kind[s] = "swept"
    /\ s > alloced <=> kind[s] = "unused"
InHeaps(kind, who) ==
  \A s \in Segs, w \in Workers :
    /\ s = cur[w] <=> kind[s] = "cur" /\ who[s] = w
    /\ s \in filled[w] <=> kind[s] = "filled" /\ who[s] = w
    /\ s \in part[w] <=> kind[s] = "part" /\ who[s] = w
    /\ s \in free[w] <=> kind[s] = "own" /\ who[s] = w
    /\ s = loc[w].seg <=> kind[s] = "hand" /\ who[s] = w
WhoOf(kind, who) == \A s \in Segs : kind[s] \in {"cur", "filled", "part", "own", "hand"}
                                     => who[s] \in Workers
OwnedBy(kind, who) ==
  /\ kind \in [Segs -> Kinds] /\ WhoOf(kind, who)
  /\ InLists(kind) /\ InPool(kind) /\ InHeaps(kind, who)

LinksInv == Acyclic(next, moved.list) /\ \A st \in Stacks : Acyclic(next, top[st])
OwnerInv == LinksInv /\ \E kind, who : OwnedBy(kind, who)

-----------------------------------------------------------------------------
(* Snapshots, objects and bits.                                             *)

\* The segments that worker w has objects of its own in.
Used(w) == (filled[w] \cup {cur[w]}) \ {Null}

\* The snapshot of a segment nobody uses is its base.  Until w takes its
\* snapshots that of its current segment is at the limit, and then never.
SnapOf(w) == cur[w] # Null =>
  IF w \in members THEN BeforeSnapshot(phase[w]) <=> snap[cur[w]] = "limit"
  ELSE snap[cur[w]] = "base"
SnapInv ==
  /\ \A s \in Segs : snap[s] # "base" => s \in poolFilled \/ \E w \in Workers : s \in Used(w)
  /\ \A w \in Workers : SnapOf(w)

\* The objects behind a snapshot are those of a worker that has taken it.
YoungOf(w) == \A s \in young \cap Used(w) :
  snap[s] # "limit" /\ (w \in members => ~BeforeSnapshot(phase[w]))
YoungInv ==
  /\ \A s \in young : \E w \in Workers : s \in Used(w)
  /\ \A w \in Workers : YoungOf(w)

\* The bits of a collection are gone when its ASYNC has been answered.
Unused == ListFrom(top["free"]) \cup swept \cup {s \in Segs : s > alloced}
            \cup UNION ({free[w] : w \in Workers})
Answered(w) == round = ASYNC /\ w \notin waiting
BitsOf(w) ==
  /\ Occupied(w) \cap stale = {}
  /\ Answered(w) => Occupied(w) \cap dirty = {}
  /\ pc[w] = "set" => loc[w].seg \notin stale
  /\ pc[w] = "set" /\ Answered(w) => loc[w].seg \notin dirty
  /\ pc[w] = "clear" /\ loc[w].lp # ASYNC => loc[w].seg \notin stale
BitsInv ==
  /\ Unused \cap (covered \cup dirty \cup stale) = {}
  /\ (ListFrom(top["partial"]) \cup ListFrom(top["marked"]) \cup ListFrom(moved.list))
       \cap stale = {}
  /\ round = ASYNC => ListFrom(top["partial"]) \cap dirty = {}
  /\ \A w \in members : BitsOf(w)

-----------------------------------------------------------------------------
(* The compare-and-swap of segment_pop.                                     *)

\* u answers ASYNC before worker w can have done its compare-and-swap.
Meanwhile(w, u) == \/ round = MARK /\ w \notin waiting
                   \/ round = ASYNC /\ u \in waiting

\* What keeps the loaded segment from being pushed again: it is in no list that
\* is pushed, and will not come into one before w has gone on.
Untouched(w, s) ==
  /\ s \notin swept
  /\ Answered(w) /\ gcCount % 2 = 1 =>
       /\ s \notin poolFilled \cup ListFrom(top["marked"])
       /\ \A u \in Workers : pc[u] = "sweep" => loc[u].seg # s
  /\ \A u \in Workers :
       /\ s \notin free[u] \cup part[u]
       /\ Meanwhile(w, u) /\ s \in Used(u) => snap[s] # "limit"
AbaOf(w) == pc[w] = "cas" =>
  LET s == loc[w].old IN
  IF loc[w].st = "marked"
  THEN /\ round = ASYNC \/ (round = SYNC1 /\ w \in waiting)
       /\ s \in ListFrom(top["marked"]) => next[s] = loc[w].nxt
  ELSE next[s] = loc[w].nxt /\ Untouched(w, s)
AbaInv == \A w \in members : AbaOf(w)

QuietInv == OwnerInv /\ SnapInv /\ YoungInv /\ BitsInv /\ AbaInv
PInv == ControlInv /\ RoomInv /\ (~raced => QuietInv)
=============================================================================
