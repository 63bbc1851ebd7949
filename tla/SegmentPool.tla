---------------------------- MODULE SegmentPool ----------------------------
(***************************************************************************)
(* The segments of heap_concurrent.c: who owns which, while workers        *)
(* allocate, register, die and reclaim, and how a worker without a free    *)
(* block finds a segment, waits for collections and finally gives up.      *)
(*                                                                         *)
(* One size class is modelled; the classes share the free lists and        *)
(* nothing else.  Which blocks survive is the choice of the collection: a  *)
(* reclaimed segment is empty, partly used or full.  The shared stacks are *)
(* linked through seg->next and popped by load and compare-and-swap, in    *)
(* two steps.  The rounds are those of GCPhases.                           *)
(***************************************************************************)
EXTENDS SyncPhases, FiniteSets, GCPhases

CONSTANTS Count,     \* memory.count: the segments the heap may have
          Members0,  \* bound: the workers registered at the start
          Pool0,     \* bound: the partly used segments that a worker which
                     \* died before the start has left in the pool
          MaxRoom,   \* bound: extension_room
          MaxGC      \* bound: collections in a behaviour

ASSUME CountType == Count \in Nat /\ Pool0 \in 0..Count /\ MaxRoom \in Nat \ {0}
ASSUME MembersType == Members0 \subseteq Workers

VARIABLES
  top, next,     \* the shared stacks: heads, and seg->next
  poolFilled,    \* subpool->filled
  alloced,       \* memory.alloced: segments 1..alloced are in use
  cur, filled, part, free, \* alloc_ptr, subheap and freelist of each heap
  room,          \* extension_room
  snap,          \* where allocptr_snapshot of a segment points to
  covered,       \* segments with objects that the collect bitmap speaks for
  young,         \* segments with objects behind the snapshot
  dirty,         \* segments whose collect bitmap may have bits set
  stale,         \* ... by an earlier collection than the one that runs
  phase, unsent, \* as in Marking
  gcCount,       \* gc_count, odd while a collection runs
  moved,         \* the list sml_heap_global_before_async holds, and its step
  swept,         \* locals of reclaim_segment_pool: the empty segments
  pc, loc,       \* the next step of each thread, and its locals
  raced          \* history: one of the races below has happened

own    == <<cur, filled, part, free, room>>
shared == <<top, next, poolFilled, alloced>>
bits   == <<snap, covered, young, dirty, stale>>
rounds == <<members, round, waiting, phase, unsent, gcCount, moved>>
vars == <<top, next, poolFilled, alloced, cur, filled, part, free, room, snap,
          covered, young, dirty, stale, members, round, waiting, phase, unsent,
          gcCount, moved, swept, pc, loc, raced>>

Segs   == 1..Count
Null   == 0
Stacks == {"partial", "marked", "free"}
DUMMY_PHASE == 16

\* The locals of get_segment_from_pool and segment_pop, for find_segment,
\* worker_init or reclaim_segment_pool (use), and those of sml_wait_gc.
Locals(use, st, old, nxt, seg, lp, tries, goal) ==
  [use |-> use, st |-> st, old |-> old, nxt |-> nxt, seg |-> seg, lp |-> lp,
   tries |-> tries, goal |-> goal]
Local == Locals("", "", Null, Null, Null, ASYNC, 0, 0)

\* get_segment_from_pool starts with stack st or has already a segment; it
\* loads the head of another stack; it has a segment.
Starts(l, use, st, seg, lp) == Locals(use, st, Null, Null, seg, lp, l.tries, l.goal)
Loads(l, st, old, nxt) == Locals(l.use, st, old, nxt, Null, l.lp, l.tries, l.goal)
Gets(l, seg) == Locals(l.use, l.st, Null, Null, seg, l.lp, l.tries, l.goal)

Init ==
  /\ top = [s \in Stacks |-> IF s = "partial" THEN Pool0 ELSE Null]
  /\ next = [s \in Segs |-> IF s \in 1..Pool0 THEN s - 1 ELSE Null]
  /\ poolFilled = {} /\ alloced = Pool0
  /\ cur = [w \in Workers |-> Null] /\ room = [w \in Workers |-> MaxRoom]
  /\ filled = [w \in Workers |-> {}] /\ part = [w \in Workers |-> {}]
  /\ free = [w \in Workers |-> {}]
  /\ snap = [s \in Segs |-> "base"]
  /\ covered = 1..Pool0 /\ young = {} /\ dirty = {} /\ stale = {}
  /\ members = Members0 /\ round = ASYNC /\ waiting = {}
  /\ phase = [w \in Workers |-> ASYNC] /\ unsent = {} /\ gcCount = 0
  /\ moved = [on |-> FALSE, list |-> Null] /\ swept = {}
  /\ pc = [w \in Workers |-> IF w \in Members0 THEN "run" ELSE "none"]
  /\ loc = [w \in Workers |-> Local]
  /\ raced = FALSE

Goto(w, label) == pc' = [pc EXCEPT ![w] = label]

-----------------------------------------------------------------------------
(* The lists.                                                               *)

\* The segments of S, in some order, in front of the list old.
Least(S) == CHOOSE s \in S : \A t \in S : s <= t
Linked(S, old) ==
  [s \in S |-> IF \E t \in S : s < t THEN Least({t \in S : s < t}) ELSE old]

\* segment_push_list, segment_push.
Push(st, S) ==
  IF S = {} THEN UNCHANGED <<top, next>>
  ELSE /\ next' = [s \in Segs |-> IF s \in S THEN Linked(S, top[st])[s]
                                  ELSE next[s]]
       /\ top' = [top EXCEPT ![st] = Least(S)]

\* The segments on the list that starts at s: those that are in every set
\* with s that the links nx do not leave.
Leaves(nx, S) == \E x \in S : nx[x] \notin S \cup {Null}
Chain(nx, s) == {x \in Segs : \A S \in SUBSET Segs :
                   s \in S \cup {Null} /\ ~Leaves(nx, S) => x \in S}
ListFrom(s) == Chain(next, s)

-----------------------------------------------------------------------------
(* segment_pop, step by step, in get_segment_from_pool.                     *)

\* Where get_segment_from_pool looks when stack st is empty.
LookNext(st, p) ==
  CASE st = "partial" /\ p \in {MARK, ASYNC, PREASYNC} -> "marked"
    [] st = "free" -> "memory"
    [] OTHER -> "free"

\* The stack is loaded, and next of its head.
PopLoad(w) ==
  /\ pc[w] = "load"
  /\ LET st == loc[w].st
         old == top[st]
         other == LookNext(st, loc[w].lp)
     IN  IF old # Null
         THEN /\ loc' = [loc EXCEPT ![w] = Loads(loc[w], st, old, next[old])]
              /\ Goto(w, "cas")
         ELSE IF loc[w].use = "sweep" THEN Goto(w, "poolfilled") /\ UNCHANGED loc
         ELSE IF other = "memory" THEN Goto(w, "extend") /\ UNCHANGED loc
         ELSE loc' = [loc EXCEPT ![w] = Loads(loc[w], other, Null, Null)] /\ UNCHANGED pc
  /\ UNCHANGED <<own, shared, bits, rounds, swept, raced>>

\* Mutant: the head is not compared with what was loaded.
PopsBlindly(w) == top[loc[w].st] # Null

\* The compare-and-swap succeeds.
PopSucceeds(w) == top[loc[w].st] = loc[w].old

\* The compare-and-swap is about to store a next that is out of date.
StaleNext(w) == PopSucceeds(w) /\ next[loc[w].old] # loc[w].nxt

PopCas(w) ==
  /\ pc[w] = "cas"
  /\ IF PopSucceeds(w)
     THEN /\ top' = [top EXCEPT ![loc[w].st] = loc[w].nxt]
          /\ loc' = [loc EXCEPT ![w] = Gets(loc[w], loc[w].old)]
          /\ Goto(w, IF loc[w].use = "sweep" THEN "sweep"
                     ELSE IF loc[w].st = "marked" THEN "clear" ELSE "set")
          /\ raced' = (raced \/ StaleNext(w))
     ELSE Goto(w, "load") /\ UNCHANGED <<top, loc, raced>>
  /\ UNCHANGED <<own, next, poolFilled, alloced, bits, rounds, swept>>

\* clear_collect_bitmap of the segments S.
Clear(S) == dirty' = dirty \ S /\ stale' = stale \ S

\* sml_current_phase() is read again.
ClearsTaken(w) == phase[w] = ASYNC

\* A segment from partial_marked is cleared in ASYNC.
ClearMarked(w) ==
  /\ pc[w] = "clear"
  /\ Clear(IF ClearsTaken(w) THEN {loc[w].seg} ELSE {})
  /\ raced' = (raced \/ (loc[w].lp = ASYNC /\ phase[w] # ASYNC))
  /\ Goto(w, "set")
  /\ UNCHANGED <<own, shared, snap, covered, young, rounds, swept, loc>>

\* allocate_segment finds memory below the limit.
HasMemory == alloced < Count

\* allocate_segment: the heap grows, or there is no segment.
Extend(w) ==
  /\ pc[w] = "extend"
  /\ IF HasMemory
     THEN /\ alloced' = alloced + 1
          /\ loc' = [loc EXCEPT ![w] = Gets(loc[w], alloced + 1)]
          /\ Goto(w, "set")
     ELSE /\ Goto(w, IF loc[w].use = "init" THEN "none" ELSE "fail")
          /\ UNCHANGED <<alloced, loc>>
  /\ UNCHANGED <<own, top, next, poolFilled, bits, rounds, swept, raced>>

\* set_alloc_ptr and release_alloc_ptr: until SYNC2 all of the segment is in
\* front of the snapshot.
SnapshotAt(p, S) ==
  [s \in Segs |-> IF s \in S /\ BeforeSnapshot(p) THEN "limit" ELSE snap[s]]

\* set_alloc_ptr, and the block that is then allocated.
SetAllocPtr(w, s, p) ==
  /\ cur' = [cur EXCEPT ![w] = s]
  /\ snap' = SnapshotAt(p, {s})
  /\ IF BeforeSnapshot(p)
     THEN covered' = covered \cup {s} /\ UNCHANGED young
     ELSE young' = young \cup {s} /\ UNCHANGED covered

\* The segment found in the pool becomes the current one.
UseFound(w) ==
  /\ pc[w] = "set"
  /\ SetAllocPtr(w, loc[w].seg, loc[w].lp)
  /\ room' = IF loc[w].use = "find" THEN [room EXCEPT ![w] = @ - 1] ELSE room
  /\ loc' = [loc EXCEPT ![w] = Local]
  /\ Goto(w, IF loc[w].use = "init" THEN "register" ELSE "run")
  /\ UNCHANGED <<filled, part, free, shared, dirty, stale, rounds, swept, raced>>

-----------------------------------------------------------------------------
(* Allocation by a worker.                                                  *)

\* The fast path of sml_alloc, behind the snapshot.
AllocYoung(w) ==
  /\ pc[w] = "run" /\ cur[w] # Null
  /\ ~BeforeSnapshot(phase[w]) /\ cur[w] \notin young
  /\ young' = young \cup {cur[w]}
  /\ UNCHANGED <<own, shared, snap, covered, dirty, stale, rounds, swept, pc,
                 loc, raced>>

\* release_alloc_ptr, at the start of try_find_segment.
Release(w) ==
  filled' = [filled EXCEPT ![w] = @ \cup ({cur[w]} \ {Null})]

\* try_find_segment takes a segment of the worker's own partial list, ...
TakePartial(w, s) ==
  /\ pc[w] \in {"run", "retry"} /\ s \in part[w]
  /\ Release(w)
  /\ part' = [part EXCEPT ![w] = @ \ {s}]
  /\ cur' = [cur EXCEPT ![w] = s]
  /\ snap' = SnapshotAt(phase[w], {s, cur[w]})
  /\ IF BeforeSnapshot(phase[w]) THEN UNCHANGED young
     ELSE young' = young \cup {s}
  /\ Goto(w, "run") /\ loc' = [loc EXCEPT ![w] = Local]
  /\ UNCHANGED <<free, room, shared, covered, dirty, stale, rounds, swept, raced>>

\* ... or of its own freelist or of the pool, within extension_room.
FindSegment(w) ==
  /\ pc[w] \in {"run", "retry"} /\ part[w] = {}
  /\ Release(w)
  /\ snap' = SnapshotAt(phase[w], {cur[w]})
  /\ cur' = [cur EXCEPT ![w] = Null]
  /\ IF room[w] = 0
     THEN Goto(w, "fail") /\ UNCHANGED <<free, loc>>
     ELSE \/ /\ free[w] = {}
             /\ loc' = [loc EXCEPT ![w] =
                          Starts(loc[w], "find", "partial", Null, phase[w])]
             /\ Goto(w, "load")
             /\ UNCHANGED free
          \/ \E s \in free[w] :
               /\ free' = [free EXCEPT ![w] = @ \ {s}]
               /\ loc' = [loc EXCEPT ![w] =
                            Starts(loc[w], "find", "", s, phase[w])]
               /\ Goto(w, "set")
  /\ UNCHANGED <<part, room, shared, covered, young, dirty, stale, rounds,
                 swept, raced>>

\* Mutant: the thread waits for one collection only.
OneWait(w) == loc[w].tries = 0

\* find_segment waits twice, and then the heap is exhausted.
WaitsAgain(w) == loc[w].tries < 2

GiveUp(w) ==
  /\ pc[w] = "fail" /\ ~WaitsAgain(w)
  /\ Goto(w, "fatal")
  /\ UNCHANGED <<own, shared, bits, rounds, swept, loc, raced>>

-----------------------------------------------------------------------------
(* Collections.                                                             *)

\* Every object in front of the snapshot may be marked from now on.
Announce(r) ==
  /\ Begin(r) /\ unsent' = members
  /\ dirty' = IF r = ASYNC THEN dirty ELSE dirty \cup covered
  /\ stale' = IF r = SYNC1 THEN stale \cup dirty ELSE stale
  /\ UNCHANGED phase

StartGC ==
  /\ gcCount % 2 = 0 /\ gcCount < 2 * MaxGC
  /\ gcCount' = gcCount + 1
  /\ Announce(SYNC1)
  /\ UNCHANGED moved

\* sml_gc, called because a threshold is reached or by the program.
RequestGC(w) ==
  /\ pc[w] = "run"
  /\ StartGC
  /\ UNCHANGED <<own, shared, snap, covered, young, swept, pc, loc, raced>>

\* sml_wait_gc: starts a collection unless one is running.
WaitGC(w) ==
  /\ pc[w] = "fail" /\ WaitsAgain(w)
  /\ IF gcCount % 2 = 1 THEN UNCHANGED <<rounds, dirty, stale>>
     ELSE StartGC
  /\ loc' = [loc EXCEPT ![w] =
               Locals("", "", Null, Null, Null, ASYNC, loc[w].tries + 1,
                      gcCount + 2 - (gcCount % 2))]
  /\ Goto(w, "wait")
  /\ UNCHANGED <<own, shared, snap, covered, young, swept, raced>>

EndWait(w) ==
  /\ pc[w] = "wait" /\ gcCount >= loc[w].goal
  /\ Goto(w, "retry")
  /\ UNCHANGED <<own, shared, bits, rounds, swept, loc, raced>>

NextRound ==
  /\ round \in {SYNC1, SYNC2}
  /\ Announce(round + 2)
  /\ UNCHANGED <<own, shared, snap, covered, young, gcCount, moved, swept, pc,
                 loc, raced>>

\* sml_heap_global_before_async: partial is emptied, ...
TakeMarked ==
  /\ round = MARK /\ waiting = {} /\ ~moved.on
  /\ moved' = [on |-> TRUE, list |-> top["partial"]]
  /\ top' = [top EXCEPT !["partial"] = Null]
  /\ UNCHANGED <<own, next, poolFilled, alloced, bits, members, round, waiting,
                 phase, unsent, gcCount, swept, pc, loc, raced>>

\* ... partial_marked is overwritten, and ASYNC is announced.
PutMarked ==
  /\ moved.on
  /\ top' = [top EXCEPT !["marked"] = moved.list]
  /\ moved' = [on |-> FALSE, list |-> Null]
  /\ Announce(ASYNC)
  /\ UNCHANGED <<own, next, poolFilled, alloced, snap, covered, young, gcCount,
                 swept, pc, loc, raced>>

Signal(w) ==
  /\ w \in unsent
  /\ unsent' = unsent \ {w}
  /\ phase' = [phase EXCEPT ![w] = Pre(round)]
  /\ UNCHANGED <<own, shared, bits, members, round, waiting, gcCount, moved,
                 swept, pc, loc, raced>>

\* change_phase drops a canceled worker: sml_heap_worker_kill.
Kill(w) ==
  /\ w \in unsent /\ Retire(w) /\ pc[w] = "run" /\ Cardinality(members) > 1
  /\ unsent' = unsent \ {w}
  /\ poolFilled' = poolFilled \cup filled[w] \cup part[w] \cup ({cur[w]} \ {Null})
  /\ Push("free", free[w])
  /\ filled' = [filled EXCEPT ![w] = {}] /\ part' = [part EXCEPT ![w] = {}]
  /\ free' = [free EXCEPT ![w] = {}] /\ cur' = [cur EXCEPT ![w] = Null]
  /\ Goto(w, "none")
  /\ UNCHANGED <<room, alloced, bits, phase, gcCount, moved, swept, loc, raced>>

\* Mutant: segment_pop polls when it is delayed.
PollsInPop(w) == pc[w] \in {"run", "wait", "cas"}

\* A worker polls between two operations, and while it waits.
Polls(w) == pc[w] \in {"run", "wait"}

Accepts(w, r) == w \in waiting /\ phase[w] = Pre(r) /\ round = r /\ Polls(w)

\* take_allocptr_snapshot.
Snapshot(w) ==
  IF cur[w] = Null THEN snap ELSE [snap EXCEPT ![cur[w]] = "mid"]

\* The actions of SYNC1, SYNC2 and MARK.
Answer(w, r) ==
  /\ r \in {SYNC1, SYNC2, MARK} /\ Accepts(w, r)
  /\ phase' = [phase EXCEPT ![w] = r]
  /\ Respond(w)
  /\ snap' = IF r = SYNC2 THEN Snapshot(w) ELSE snap
  /\ UNCHANGED <<own, shared, covered, young, dirty, stale, unsent, gcCount,
                 moved, swept, pc, loc, raced>>

\* Mutant: the position of the snapshot is not looked at.
AllFilled(w) == filled[w]

\* reclaim_subheap: the filled segments that can be given back.  Behind a
\* snapshot inside the segment there are objects that were never marked.
Reclaimable(w) == {s \in filled[w] : snap[s] = "limit"}

\* Mutant: only the list is changed.
SnapUnreset(kept, gone) == [s \in Segs |-> IF s \in kept THEN "limit" ELSE snap[s]]

\* allocptr_snapshot after reclaim_subheap.
SnapReset(kept, gone) ==
  [s \in Segs |-> IF s \in kept THEN "limit"
                  ELSE IF s \in gone THEN "base" ELSE snap[s]]

\* The values reclaim_heap may give to extension_room.
Rooms == 1..MaxRoom

\* sml_heap_worker_async: of the reclaimable segments, empty become free and
\* some become partial.  What is left is in front of the next snapshot.
Async(w, empty, some) ==
  /\ Accepts(w, ASYNC)
  /\ empty \subseteq part[w] \cup Reclaimable(w)
  /\ some \subseteq Reclaimable(w) \ empty
  /\ LET kept == (filled[w] \ (empty \cup some)) \cup ({cur[w]} \ {Null}) IN
     /\ snap' = SnapReset(kept, empty \cup some)
     /\ covered' = (covered \cup (young \cap kept)) \ empty
     /\ young' = young \ kept
     /\ Clear(kept \cup part[w] \cup empty \cup some)
  /\ Push("free", free[w])
  /\ free' = [free EXCEPT ![w] = empty]
  /\ part' = [part EXCEPT ![w] = (@ \ empty) \cup some]
  /\ filled' = [filled EXCEPT ![w] = @ \ (empty \cup some)]
  /\ \E n \in Rooms : room' = [room EXCEPT ![w] = n]
  /\ phase' = [phase EXCEPT ![w] = ASYNC]
  /\ Respond(w)
  /\ IF waiting = {w}
     THEN /\ Goto(w, "load")
          /\ loc' = [loc EXCEPT ![w] =
                       Starts(loc[w], "sweep", "marked", Null, ASYNC)]
     ELSE UNCHANGED <<pc, loc>>
  /\ UNCHANGED <<cur, poolFilled, alloced, unsent, gcCount, moved, swept, raced>>

\* reclaim_subpool, by the last to answer: a segment of partial_marked is
\* empty, or goes back to partial.
Sweep(w, empty) ==
  /\ pc[w] = "sweep"
  /\ LET s == loc[w].seg IN
     /\ Clear({s})
     /\ snap' = [snap EXCEPT ![s] = "base"]
     /\ IF empty
        THEN swept' = swept \cup {s} /\ covered' = covered \ {s}
             /\ UNCHANGED <<top, next>>
        ELSE Push("partial", {s}) /\ UNCHANGED <<swept, covered>>
  /\ Goto(w, "load")
  /\ loc' = [loc EXCEPT ![w] = Gets(loc[w], Null)]
  /\ UNCHANGED <<own, poolFilled, alloced, young, rounds, raced>>

\* The segments of dead workers.
SweepFilled(w, empty, some) ==
  /\ pc[w] = "poolfilled"
  /\ empty \subseteq poolFilled /\ some \subseteq poolFilled \ empty
  /\ snap' = [s \in Segs |-> IF s \in poolFilled THEN "base" ELSE snap[s]]
  /\ Clear(poolFilled)
  /\ covered' = covered \ empty
  /\ poolFilled' = poolFilled \ (empty \cup some)
  /\ swept' = swept \cup empty
  /\ Push("partial", some)
  /\ Goto(w, "poolfree")
  /\ UNCHANGED <<own, alloced, young, rounds, loc, raced>>

\* The empty segments are pushed, and the collection is over.
EndGC(w) ==
  /\ pc[w] = "poolfree"
  /\ Push("free", swept)
  /\ swept' = {}
  /\ gcCount' = gcCount + 1
  /\ Goto(w, IF loc[w].tries = 0 THEN "run" ELSE "wait")
  /\ UNCHANGED <<own, poolFilled, alloced, bits, members, round, waiting, phase,
                 unsent, moved, loc, raced>>

-----------------------------------------------------------------------------
(* A thread becomes a worker.                                               *)

\* sml_heap_worker_init, before the worker is registered.
StartInit(w) ==
  /\ pc[w] = "none" /\ w \notin members
  /\ loc' = [loc EXCEPT ![w] =
               Starts(Local, "init", "partial", Null, DUMMY_PHASE)]
  /\ Goto(w, "load")
  /\ UNCHANGED <<own, shared, bits, rounds, swept, raced>>

\* register_worker and sml_heap_worker_register.
Register(w) ==
  /\ pc[w] = "register" /\ Join(w)
  /\ phase' = [phase EXCEPT ![w] = round]
  /\ snap' = SnapshotAt(round, {cur[w]})
  /\ IF BeforeSnapshot(round)
     THEN covered' = covered \cup {cur[w]} /\ young' = young \ {cur[w]}
     ELSE UNCHANGED <<covered, young>>
  /\ room' = [room EXCEPT ![w] = MaxRoom]
  /\ raced' = (raced \/ cur[w] \in stale
                      \/ (round = ASYNC /\ cur[w] \in dirty))
  /\ Goto(w, "run")
  /\ UNCHANGED <<cur, filled, part, free, shared, dirty, stale, unsent, gcCount,
                 moved, swept, loc>>

-----------------------------------------------------------------------------
Pool(w) == PopLoad(w) \/ PopCas(w) \/ ClearMarked(w) \/ Extend(w) \/ UseFound(w)

Worker(w) ==
  \/ AllocYoung(w) \/ FindSegment(w) \/ GiveUp(w) \/ RequestGC(w) \/ WaitGC(w)
  \/ EndWait(w) \/ EndGC(w)
  \/ \E s \in Segs : TakePartial(w, s)
  \/ \E r \in Phases : Answer(w, r)
  \/ \E empty, some \in SUBSET Segs :
        Async(w, empty, some) \/ SweepFilled(w, empty, some)
  \/ \E empty \in BOOLEAN : Sweep(w, empty)

Next ==
  \/ \E w \in Workers : Pool(w) \/ Worker(w) \/ StartInit(w) \/ Register(w)
                        \/ Signal(w) \/ Kill(w)
  \/ NextRound \/ TakeMarked \/ PutMarked

Spec == Init /\ [][Next]_vars

-----------------------------------------------------------------------------
\* Every variable has the type of the structure it stands for.
TypeOK ==
  /\ top \in [Stacks -> Segs \cup {Null}] /\ next \in [Segs -> Segs \cup {Null}]
  /\ alloced \in 0..Count /\ room \in [Workers -> 0..MaxRoom]
  /\ cur \in [Workers -> Segs \cup {Null}]
  /\ snap \in [Segs -> {"base", "mid", "limit"}]
  /\ phase \in [Workers -> Phases] /\ unsent \subseteq waiting

\* The lists a segment can be on, and the threads that can hold it.
Places ==
  {<<"stack", ListFrom(top[st]), st>> : st \in Stacks} \cup
  {<<"own", ({cur[w]} \ {Null}), w>> : w \in Workers} \cup
  {<<"filled", filled[w], w>> : w \in Workers} \cup
  {<<"part", part[w], w>> : w \in Workers} \cup
  {<<"free", free[w], w>> : w \in Workers} \cup
  {<<"hand", {loc[w].seg} \ {Null}, w>> : w \in Workers} \cup
  {<<"pool", poolFilled, "filled">>, <<"pool", swept, "swept">>,
   <<"pool", ListFrom(moved.list), "moved">>}

\* Every segment of the heap is in exactly one place: none is shared by two
\* workers and none is lost, whatever pops, pushes and moves interleave.
OneOwner ==
  ~raced => \A s \in Segs :
     Cardinality({p \in Places : s \in p[2]}) = IF s <= alloced THEN 1 ELSE 0

\* segment_pop by a registered worker never swaps in a next that is out of
\* date: the segment would have to go through a collection, which waits for
\* the worker.
NoABA == ~raced => \A w \in members : pc[w] = "cas" => ~StaleNext(w)

\* A segment with objects behind its snapshot, which no trace has looked at,
\* is in no list that blocks are allocated from.
YoungKept ==
  ~raced =>
     young \subseteq UNION ({filled[w] \cup {cur[w]} : w \in Workers})

\* The assertion of set_alloc_ptr, reclaim_subheap and init_segment: the
\* snapshot of a segment that is not in use is its base.
BaseWhenIdle ==
  ~raced => \A s \in Segs :
     (\/ \E w \in Workers : s \in part[w] \cup free[w]
      \/ \E st \in {"partial", "free"} : s \in ListFrom(top[st])
      \/ \E w \in Workers : pc[w] = "set" /\ loc[w].seg = s) => snap[s] = "base"

\* Until a worker takes its snapshot, all blocks of its current segment are
\* in front of it; what the barrier of another worker visits is a target.
InFront ==
  ~raced => \A w \in members :
     BeforeSnapshot(phase[w]) /\ cur[w] # Null => snap[cur[w]] = "limit"

\* The segments worker w allocates from.
Occupied(w) == ({cur[w]} \cup filled[w] \cup part[w]) \ {Null}

\* No collect bit outlives its collection in a segment of a worker; such an
\* object would not be traced in the next one.
BitsCleared ==
  ~raced => \A w \in members :
     /\ Occupied(w) \cap stale = {}
     /\ gcCount % 2 = 0 => Occupied(w) \cap dirty = {}

\* A segment can be taken into use at any time, and a collection begins with
\* clean heaps: every variable has its type, the snapshot of a segment that is
\* not in use is its base, until a worker takes its snapshot all blocks of its
\* current segment are in front of it, and no collect bit outlives its
\* collection in a segment of a worker.
SegmentsReady == TypeOK /\ BaseWhenIdle /\ InFront /\ BitsCleared

\* find_segment gives up only for lack of segments: its last attempt is not
\* refused by an extension_room that no collection has renewed.
ExhaustedMeansPool == \A w \in Workers : pc[w] = "fatal" => room[w] > 0

\* The comment in get_segment_from_pool: the collect bitmaps of the segments
\* of a worker in ASYNC are clear.
CleanWhenAsync ==
  \A w \in members : round = ASYNC /\ phase[w] = ASYNC
                     => Occupied(w) \cap dirty = {}

\* The same comment: in ASYNC a segment taken from partial_marked is cleared.
TakenIsCleared ==
  \A w \in members :
     pc[w] = "set" /\ loc[w].st = "marked" /\ loc[w].lp = ASYNC
        => loc[w].seg \notin stale

\* The assertion in set_alloc_ptr: the segment is not in use.
FoundIsIdle ==
  \A w \in Workers : pc[w] = "set" => snap[loc[w].seg] = "base"
=============================================================================
