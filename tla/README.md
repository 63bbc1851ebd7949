# The SML# runtime in TLA+

SML# is a compiler for an extension of Standard ML. Its compiled programs run
native threads on a C runtime (`src/runtime`) whose garbage collector never
stops the world: every thread answers a few signals per collection and goes on.
The protocol that makes this work has no locks, no collector thread and no tests
that reach its interleavings. It is the centre of this project; around it are
models of the rest of the runtime and of the code the compiler makes for it.

Paths in this file are relative to `src/src` unless they start with `src/`.

## 1. Inventory

| component | state it keeps | operations | what makes it correct |
|---|---|---|---|
| collector handshake (`control.c`) | per worker context: state word (phase, INACTIVE, HELPER), flags, list of users; global: `workers_available` with a phase in its low bits, `workers_handshake` with a stamp, `sml_check_flag`, `gc_count` | register, enter, leave, cancel, poll, the actions `worker_sync1`, `worker_sync2`, `worker_mark`, `worker_async`, `sml_gc`, `sml_wait_gc`, `global_phase`, `change_phase`, `help_inactive` | one coordinator; a round ends with its last answer and not before; each worker is answered for once per round; no signal is overwritten; a wait for a collection ends |
| program exit (`control.c`, `init.c`) | low bits of `workers_available`, all lock bits | `sml_exit`, `sml_finish` | nothing runs beside `sml_finish` |
| user contexts (`control.c`) | `user->worker`, BUSY_FLAG, saved stack ranges | `sml_start`, `sml_end`, `sml_enter` with migration to another worker, `worker_sync2` | the stack of every thread is enumerated, by one worker at a time and not while it runs |
| signals (`signal.c`, `control.c`) | bit set of pending signals, check hook | handler, `sml_signal_check`, `sml_set_check_hook` | a handler may run between any two steps and its signal is not forgotten |
| marking (`heap_concurrent.c`) | collect bitmaps, root sets, remembered sets | barrier, `visit`, `remember`, `trace`, `sml_heap_mark_finish`, reclaiming | no object in use is reclaimed or finalized |
| segments (`heap_concurrent.c`) | allocation pointers, lists per subheap, shared stacks, bitmaps | allocation, segment search, pool push and pop, snapshots, reclaiming | a segment has one owner; a free block is never live; the heap is exhausted only when it is |
| callback table (`callback.c`, `splay.c`) | a tree, trampolines | find or insert, allocate code, enumerate | one entry per closure; its environment stays alive |
| finalizers (`finalize.c`, `object.c`) | a tree behind a lock | set, run, destroy | a finalizer runs once, for a dead object, before its memory is reused |
| exceptions (`exn.c`, `control.c`) | `exn_object`, the exception's cleanup count, the user's stack range | raise, search, personality, save and unsave | handlers and cleanups run in order, through C++ frames too; the collector's view of the stack fits |
| top level, frame tables (`top.c`, `llvm/main/smlsharp_gc.cpp`) | `sml_gcroot` list, tables of safe points | register, look up, enumerate, walk a stack | every root of every frame is found, once |
| objects (`object.c`) | none of their own | make, compare, copy, enumerate pointers | equality is equality of content; a copy is a copy |
| heap size (`init.c`, `heap_concurrent.c`) | limits, the mapping, shares of the subheaps | parse, map, divide | what is configured is what is used |
| diagnostics (`livecheck.c`, ...) | a tree of visited objects | trace | visits exactly what is reachable |
| alternative heaps (`heap_cheney.c`, `heap_reppy.c`, `heap_bitmap.c`) | spaces, remembered sets, bitmaps | allocate, write, collect | a collection changes nothing the program sees |
| other heaps, thread library, foreach, compiler, libraries, tools | | | not modelled, see section 9 |

Interaction: compiled code calls `sml_check` at its safe points when
`sml_check_flag` is not zero, and the allocator when a segment is exhausted; both
end in `sml_check_internal`. The four actions call the heap (`sml_heap_*_sync2`,
`_mark`, `_async`), which calls back for the roots: frames through the frame
tables, top level objects, callbacks, the user's saved stacks. FFI calls leave
and re-enter ML code around foreign code, and a thread that is outside does not
poll, so somebody else has to answer for it. Signal handlers set a hook and start
a collection in order to be noticed. After ASYNC finalizers run, then segments
are reclaimed.

The hard behaviours are listed with their lines in `PROJECT.json` ("hazards").
They are, in short: the counter of missing answers is raised only after the
signals are out and may be negative; a thread may leave or return to ML code, or
a new one register, at any point of a round; a helper works for another thread's
worker and can be overtaken by the next round; barriers, tracing and the check
that tracing is over run side by side without locks; shared stacks are popped by
load and compare-and-swap; locks are bits that are spun on without polling; some
tables are read while they grow; and bitmaps, layouts, size classes and tables
are full of boundaries.

## 2. Modules

| module | contents |
|---|---|
| `GCPhases`, `SyncPhases` | what the handshake promises the heap: rounds in order, each waiting for every member; the values of a worker's phase |
| `Handshake` | `control.c`, one action per atomic operation |
| `HandshakeInv` | its inductive invariants, and the refinement mapping to `GCPhases` |
| `HandshakeExit` | `sml_exit` beside the whole handshake |
| `UserMigration` | users that start, leave, enter, call back and return, are stolen, end and are canceled while SYNC2 enumerates their stacks; over `GCPhases` |
| `Signals` | handlers, the bit set, the check hook; over `GCPhases` |
| `Marking` | mutators, barriers, tracing, finishing and reclaiming on a heap of objects; over `GCPhases` |
| `SegmentPool` | the segments: allocation, shared stacks, snapshots, reclaiming, waiting for memory; over `GCPhases` |
| `SegmentLayout`, `SizeClasses`, `SegmentBitmap` | the layout of a segment as operators; which block an object of each size gets; the life of one segment's bitmaps |
| `TreeSet`, `SplayTree` | a set of items; the splay tree with its pointers and chunks, which implements it |
| `Callbacks` | the callback table and the code that fills trampolines |
| `Finalizers` | `finalize.c` and the big integers that use it |
| `Exceptions` | raising through ML and C++ frames over an external unwinder |
| `GCRoots`, `FrameTable` | loading, registering, looking up and enumerating program roots; frame tables written, read and walked |
| `Objects`, `LiveCheck`, `HeapSize` | object primitives; the debugging tracer; heap sizes from text to subheaps |
| `ObjectGraph`, `CopyingHeap`, `Cheney`, `Reppy`, `BitmapHeap` | what a heap promises a program; the memory of copying heaps; three heaps that implement `ObjectGraph` |
| `MarkingInv`, `SegmentPoolInv` | the inductive invariants of `Marking` and `SegmentPool` |
| `MCHandshake`, `MCMarking` | instances for TLC |
| `MCProgress`, `MCBoundary`, `MCStructures`, `MCHeaps` | instances of several components, each alone (section 4) |
| `HandshakeLocal`, `HandshakeRounds`, `HandshakeProofs` | proofs about the handshake |
| `MarkingProofs`, `SegmentPoolProofs`, `UserMigrationProofs`, `SignalsProofs`, `FinalizersProofs` | proofs about these components |

How they are composed. `Handshake` implements `GCPhases`, and this is proved; so
`UserMigration`, `Signals`, `Marking` and `SegmentPool` each extend `GCPhases` and
combine its steps with what their own component does in a round, instead of
carrying the atomic steps of the handshake along. In them a worker also has the
`phase` it has been told, which changes between the announcement of a round and
its answer.

## 3. Correspondence

### 3.1 Handshake (`control.c`)

A worker's `state` word is three variables: `phase` (its low bits) and membership
in `inactive` and `helper`. A worker with neither is ACTIVE: its own thread has it.
`flags` is `canceled`, `dead`, `globalenum`. `available` and `newphase` are the
list and the low bits of `workers_available`; `handshake` is `workers_handshake`,
a list and a stamp. `users` and `live` say whether `worker->users` is empty and
whether the user on it still belongs to the worker. `from`, `to`, `left` and
`list` are the locals of `change_phase`: they are shared by all threads in the
model because only one thread at a time coordinates, which is itself a property
(`OneCoordinator`). The remaining variables are locals of each thread; `pc` names
the next atomic operation:

| `pc` | the thread is |
|---|---|
| `out`, `entered`, `ml`, `dead` | outside ML code; past `enter_worker`; running ML code; ended |
| `accept` | in `sml_check_internal`, before the store that accepts its signal |
| `work` | in a worker action for `tgt`, before the `fetch_sub` of `sml_check_flag` |
| `mark`, `endgc` | the last to answer MARK, before `sml_heap_mark_finish`; the last to answer ASYNC |
| `glob`, `chg`, `add`, `greedy` | before `global_phase`; inside `change_phase`; before the `fetch_add`; before the greedy store for its own worker |
| `load`, `scan`, `unlink`, `take`, `helped`, `reaccept` | in `help_inactive`, before each of its atomic operations |

`ret` is where the running action returns to: `ml` (from a poll), `out` (from
`leave_worker`), `helped` (from `help_inactive`), or where a signal handler was
called. `greedy` holds the threads whose actions were called with `greedy` 1.

Abstractions, and why they lose nothing the properties could see:

* Lists linked through `worker->next` are sets, walked in any order. A list is
  only ever extended at its head and cut at its front, so within one round equal
  heads mean equal lists, and every real walk is one of the model's.
* `cmpswap_weak` may fail spuriously. `help_inactive` then returns, which is the
  same as polling later, and the retry loops just repeat: both are behaviours of
  the model anyway.
* Dead contexts that are still linked are not in `available`; the code skips them
  wherever it walks the list.
* A thread has one worker context and at most one user (the pthread
  configuration). Frames inside frames (callbacks) are `Leave` and `Enter` here;
  `UserMigration` has their stack ranges.
* Loads and stores are sequentially consistent. The comments of the code argue
  about acquire and release separately; that argument is not checked here.
* `sml_heap_mark_finish` answers either way; the bound `MaxRetry` limits how often
  it may say no. The contents of the heap are `Marking`'s business.
* A signal handler runs `sml_gc(0)` at any moment in ML code, after entering, or
  outside; not in the middle of another runtime call.
* `phase` of a context that is not registered has no meaning; it starts as 0.

### 3.2 UserMigration

A context is a `sml_user`; `home`, `busy`, `users` and `stack` are `user->worker`,
BUSY_FLAG, `worker->users` and the thread whose frames its stack ranges describe.
`at[t]` is the step of `sml_enter` a thread is in: reading its own worker's phase,
trying the lock, spinning, enumerating its own stack, moving. `step`, `todo` and
`visiting` are the locals of `worker_sync2`. `enum` holds the enumerations under
way. A thread may be run by any worker, as with MassiveThreads (a pthread build
has one worker per thread, and the stolen cases do not occur).

`ranges[t]` is the length of `user->stack`. `Start` and `End` are the first branches of
`sml_start` and `sml_end` (no context yet; the last range), `Callback` and `Return` the
other ones: C code calls ML code again, with a new open range, and returns from it,
keeping the context. `Callback` may happen on any worker. `sml_start`, unlike
`sml_enter`, then looks neither at `user->worker` nor at BUSY_FLAG. If the worker is
another one, the thread runs ML code there with an open range while its context
still belongs to the old worker, whose SYNC2 action walks the stack of a running
thread, against the assertion of `sml_stack_enum_ptr`; what such a walk finds is
not counted (`EnumDone`). This is the finding `open_callback` of section 6. The
history variable `strayed` holds the threads to which it has happened since the
collection began, or that are still running so; `ClosedStack` and `AllSeen` except
them, and nobody else.

### 3.3 Signals

`signals` is the bit set, `hook` the check hook, `frames` the handlers on each
thread's stack (a handler may interrupt another one of a different signal). A
handler's three steps are the or, the hook and `sml_gc(0)`. `sml_signal_check` may
find nothing, because the hook is set again by a handler whose signal has been
taken already: it then raises `Signal []`. A thread that has no worker is not
interrupted in the model; `sml_set_check_hook` would follow a null pointer there.

### 3.4 Marking

One pointer field per object, one global variable. `target` is what `visit`
considers (the block's bit is set, or it lies below the snapshot of the allocation
pointer), `mark` the collect bitmap, `gray` the root set and trace stack,
`remembered` the remembered sets. Each access to a shared location is a step: in
the barrier the phase is read, the old and the new value are visited (the mark is
set) and pushed, then the store is made; `sml_cmpswap` swaps first. `look` holds
the locals of `sml_heap_mark_finish`: whom it has looked at in its first and
second walk over the allocators, and whether one was busy. `Members0` is not
empty because `sml_gc` is called by a thread with a worker. `missed` is a history
variable, not read by any action: it records that a barrier was between mark and
push when marking was declared finished ("finish"); that a store had taken
its old value before the snapshot from a cell that changed in between
("snapshot"); or that a barrier, its own worker still before ASYNC, marked an
object of a worker that had answered ASYNC and cleared its marks ("late": the mark
stays, and the next collection takes the object for a traced one). Each is a finding
of section 6 with a run of its own. `KeptUnlessMissed`, `TracedAtFinish`,
`OneSlot` and `FinalizesDead` are stated for behaviours in which none of the three has
happened; that no mark is left over between collections (`CleanUnlessLate`) fails
only after the third.

### 3.5 SegmentPool and the layout of segments

One size class; which blocks survive a collection is the collection's choice.
`top` and `next` are the shared stacks and their links; a pop loads the top, loads
its next, and compares and swaps. `covered`, `young`, `dirty` say of a segment
whether it has objects below its snapshot, above it, and collect bits set.
`worker_init` takes segments before its worker is registered; `raced` notes when a
collection has passed between two of its steps, after which `NoABA` is not claimed
(section 6). `SegmentLayout` follows `compute_segment_layout` with the
constants of the real build in run `structures`; `SegmentBitmap` uses words of two bits, and
memory is the set of bits that are 1. It assumes that the last word of each bitmap
is in use (`LastWordInUse`): when `num_blocks` is a multiple of 32 the upper bit of
the word that holds only sentinels is set, and the layouts of the real build avoid
it.

### 3.6 Trees, callbacks, finalizers

`SplayTree` keeps the pointers of `splay.c`: child slots, the two holes of a top-down
splay, the threading through `back`, chunks, the free list. `Callbacks` uses the
abstract tree and models what runs outside `callbacks_lock`. `Finalizers` has the
lock, the cursor of the walk over the tree and the steps between making a big
integer and registering it. Items of the tree do not move: the concurrent heap
does not move objects.

### 3.7 Exceptions, roots, frames

The unwinder is external: it calls `sml_personality` for each frame in its two
phases. Frames are ML functions of each shape the compiler produces, or C++
functions that may run destructors or catch. `GCRoots` has the list of `sml_gcroot`
with its plain and atomic writes, the array with safe points and top level objects
(`num_points`, `num_tops`), sorting and binary search; `sml_gcroot_unload`, which
nothing in the repository calls, is modelled for a quiet moment. In `FrameTable`
one program writes 16-bit units and another reads them. The stack it walks is a
sequence of closed ranges, the latest first, with one word of C code between them; the
walk goes from the top of a range to its bottom and on to the next, and passes
over slots that hold NULL (one at most in a behaviour). `user->exn_object`, which
`sml_stack_enum_ptr` traces before the ranges, is in `Exceptions`.

### 3.8 Objects, tracer, heap size

Payloads are counted in words; the width of a size field in the header is left to
the code's assertion. `HeapSize` leaves white space and exponents of numbers out;
text that overflows `CEILING` is excluded by the premise of `MinBelowMax`; what a
conversion of a double beyond `size_t` gives is undefined in C and any value in
the model.

### 3.9 Alternative heaps

`Makefile.in` builds none of them, and they refer to a removed header
(`objspace.h`); its `malloc` objects and finalizer check are external. What the
program sees is the graph of objects from its roots (`ObjectGraph`); identities
stand for objects across copies. In `BitmapHeap`, which does not move, an identity is
a block. It is modelled for one thread and with statics enumerated in major
collections only, as the code does. Seen on the way and kept as they are:
`shrink_heap` counts `num_committed` down twice, `extend_heap` ignores its argument,
`minor_threshold` may be 0; the water mark loop of `heap_reppy.c` has one index too
many in a major collection, without effect in the model.

## 4. Runs

| run | checks | states |
|---|---|---|
| `handshake` | two threads through two collections, MARK repeated up to once in each; three threads that register and then take two more decisions in one collection: `IInv`, `OneCoordinator`, `StoresLoseNothing`, `HelpNotLost`, and the refinement of `GCPhases` (`RoundsComplete`) | 1 062 808 |
| `progress` | liveness of the handshake, users, signals and finalizers (`GCWaitEnds`, `StealEnds`, `HookIsCalled`, `DeadIsFinalized`), and `SignalHasHook` for one signal; section 7.5 has it for any number | 83 610 |
| `marking` | small heaps of three objects and two workers, in five starts: both registered, one registering on the way, two collections, a script in which two stores cross, and one in which a second thread loads and stores without bound, for which a collection ends (`TracingEnds`) | 661 336 |
| `boundary` | users, with callbacks nested once (`UsersListed`, `ClosedStack`, `OneWalker`, `AllSeen`), exceptions, the callback table | 2 348 456 |
| `structures` | the segment pool (two segments and two workers in four starts: memory left, segments in the pool, one registering, two collections); sizes, tree, roots, frame tables, objects, tracer, heap size | 1 177 117 |
| `heaps` | the three alternative heaps in five builds, the bitmaps of a segment, and the finalizers' safety (`LiveIntact`, `NoLimbsLost`) | 344 090 |
| `lost_round`, `exit_alone`, `finish_missed`, `snapshot_missed`, `late_visit`, `open_callback` | the findings of section 6 | counterexamples |

Several runs check more than one component. Such a run has a variable (`component`
or `build`) that is chosen at the start and never changes; the components share no
variable, the others stay in their initial states, and a property of the run is
the conjunction of the named parts of its component. Nothing is exchanged
between components in these runs, and nothing is claimed about that.

Bounds. `MaxGC` is the number of collections: the second one starts from what the
first left behind (flags, lists, marks, dead workers), and nothing depends on the
number after that. `MaxRetry` is how often MARK is repeated in a collection: one
repetition reaches the state from which the next would start. `MaxMoves` bounds
what the program around the runtime decides after all three threads have
registered: one leaves and one starts a collection, which gives a coordinator, a
helper and a worker to be helped. Two threads show everything else about the
handshake, and the theorems of section 7 remove the bound for all properties but
`GCWaitEnds`. `MaxOps` bounds the mutators' operations in
`marking` (three in a collection, two when there are two collections, the whole
of a script): the known races take two operations of one thread and one of
another. The chain of the heap has two links, the shortest in which an object is
reachable only through one that another thread removes. Two segments are enough
to have one in the pool and one in use, three contexts let one thread move
twice, and four let two threads meet on one worker. `MaxRanges` is 2: the first
callback goes through both else branches, and a deeper one finds nothing that the
first did not leave (the theorems of section 7.4 have no bound). With callbacks
`boundary` makes three contexts at most, without them four (components `callers` and
`users`); `progress` allows only one of a third context, a callback and a second
collection at a time. In the start of `marking` without bound on
operations the second thread stores into objects only, not into the global
variable, and only the first worker is registered at the start. Trees of three items with
chunks of two exercise compaction; frame tables of three functions and stacks of
three frames, in up to three ranges, all kinds of neighbours; text of four tokens every setting.

`CHECK_DEADLOCK FALSE` is said where a bound lets the system run out of work
(operations, collections, exports). The run `handshake` checks deadlock: the
two ways in which its behaviours may end (all dead, no decision left) are explicit
stuttering steps.

Fairness. Threads inside the runtime are scheduled: weak fairness of their steps.
A thread in ML code polls: the compiler puts a check of `sml_check_flag` on every
loop and `sml_wait_gc` polls in its own loop (weak fairness in `Handshake`, where a
poll stays enabled until it is taken; strong in `Marking` and `Signals`, where
other operations of the thread come between). `UserMigration` adds strong fairness
for the two spins on BUSY_FLAG: the other side holds the flag again and again, and
the loop has a fair chance only if the scheduler lets it see the flag clear.
Nothing is assumed about registering, entering, leaving, ending or starting a
collection; in `Signals`, where the rounds are actions of their own, those of a
collection under way come one after the other (weak fairness of the announcements of
SYNC2, MARK and ASYNC, not of SYNC1). So a hook is promised to run (`HookRuns`) only
if its thread has still to poll in the collection under way. A hook that is set after
its worker's answer to ASYNC waits for the next collection, since `sml_gc(0)` does
nothing while one is running, and nobody need start that one. In `progress`
fairness is the antecedent of each property, because the four components have different ones. The handshake there is that of a program
whose threads do not leave ML code while a collection runs, and in which no
handler outside ML code starts one; without the restriction `GCWaitEnds` is false,
for the reason `lost_round` shows.

## 5. Properties

Handshake: `OneCoordinator`: between "saw 1" (or "turned `gc_count` odd") and the
`fetch_add` of the next round there is at most one thread. `StoresLoseNothing`: each
plain store to a state word overwrites the value that was loaded, and the
assertions in front of `fetch_xor` and of the greedy answers hold. `HelpNotLost`: a
pending worker outside ML code is on the published list or in a helper's hands
(except in a repeated MARK, section 6). `RoundsComplete`: every round is
announced after all answers to the one before. `IInv` (section 7) contains
the rest: `LastAnswerIsLast`, `ActionExclusion`, `Sync2Window`, `GlobalEnumOnce`,
`DeadIsQuiet`, which are named in `Handshake` and are theorems.

Users: `Listed` and `ClosedStack`: a context in use is on its worker's list, and its
stack ranges are closed while anybody enumerates them. `OneWalker`: two workers never
walk one stack. `AllSeen`: after SYNC2 the roots of all threads have been seen.
`ClosedStack` and `AllSeen` except threads that called back on another worker in this
collection (section 3.2). `StealEnds`: the spins end.

Signals: `SignalHasHook`: a signal whose handler has run is in the word or about to
be, and a hook is set or about to be. `HookRuns` (in the run: `HookIsCalled`): it is
called in the collection under way if its thread has still to poll in it, unless the
thread stays outside.

Marking (with the conditions of section 3.4): `KeptUnlessMissed`: what is reachable is
allocated. `TracedAtFinish`: when
the last round begins, nothing is gray and marked objects point to marked ones.
`FinalizesDead`: no finalizer runs for a reachable object. `MarksSound`: an object is in
one set at most (there is one stack slot), the next collection begins without
marks, and in between threads and blocks are where
the round wants them (`ControlInv`, section 7.2). `TracingEnds`: a collection ends
whatever the second mutator writes into objects meanwhile.

Segments: `OneOwner`, `YoungKept` (a segment with young objects is not given away),
`SegmentsReady` (the three facts allocation relies on), `ExhaustedMeansPool`, `NoABA`.

Others: `UnwindingSound`, `CallbacksSound`, `EnvironmentsSeen`, `TreeSound`,
`IsTreeSet`, `RootsFound`, `FramesWalked`, `ObjectsSound`, `VisitsReachable`,
`SizesSound`, `HeapsSound`, `BitmapsSound`, `FirstFree`, `IsObjectGraph`, and for
finalizers `LiveIntact`, `NoLimbsLost`, `DeadIsFinalized`: each is described where it
is defined.

## 6. Findings

`PROJECT.json` quotes the comment that each of these contradicts; a run shows how.

1. `lost_round`. A coordinator whose worker is unlocked (inside `leave_worker`, or
   in a signal handler outside ML code) can be overtaken by every answer, its own
   worker's included, before its `fetch_add`. No `fetch_sub` sees 1 and the
   collection stops for ever.
2. `exit_alone`. `leave_worker` works after it has given its lock up, so `sml_exit`
   can hold all locks and tear the runtime down beside a running action.
3. `finish_missed`. `remember` sets an object's mark before it links the object into
   the remembered set; `sml_heap_mark_finish` looks in between, finds all sets empty
   and ends marking. `sml_cmpswap` has the same gap between its swap and its barrier.
4. `snapshot_missed`. `sml_write` loads the old value before its barrier. If another
   thread, still without barrier, stores another value there in between, that
   value is overwritten without having been shaded.
5. `late_visit`. A barrier that has read MARK, of a worker that has not answered
   ASYNC, marks an object of a worker that has answered and has already cleared its
   collect bitmaps. Nobody clears that mark before the next collection, to which the
   object is traced already and its children are not reached. The comment in
   `get_segment_from_pool` relies on the bitmaps being clear.
6. `open_callback`. `sml_start` of a thread that has a context, called by C code on
   another worker than `user->worker`, does not move the context: the old worker
   walks a stack with an open range, which the assertions of `sml_stack_enum_ptr`
   forbid. The C code must have been resumed by another worker between `sml_leave`
   and the callback, which user threads of MassiveThreads allow.

Further disagreements of code and comments that the models showed and that no
run repeats (each can be had by adding the named formula to a run of its module):

* `src/runtime/control.c:1372`: the stamp of `workers_handshake` does not tell a
  repeated MARK from the first one, so a delayed helper can clear the new list
  (`HelpNotLost` without its condition).
* `src/runtime/control.c` `sml_exit`: `global_phase` of a running round lifts the ban
  on registrations that `sml_exit` has just imposed.
* `src/runtime/heap_concurrent.c:651`, `:967`, `:719`: the phase is read again after a
  pop, or `worker_init` runs before its worker is registered, and a collection
  passes in between (`TakenIsCleared`, `CleanWhenAsync`, `FoundIsIdle`).
* `src/runtime/heap_concurrent.c:1312`: the count of free blocks can miss 32 and not
  31 at most.
* `src/runtime/splay.c:363`: `sml_tree_reject` joins with keys that the callback may
  have changed (a moving collector only).
* `src/runtime/callback.c:123`: two threads get two pointers for one callback, or a
  pointer to a trampoline that is not written yet (`IdenticalCallbacks`,
  `HasTrampolineCode`).
* `src/runtime/control.c:977`, `src/runtime/exn.c:88`: after C++ code has caught an ML
  exception, another one raised in the catch block is taken for a nested one, and
  the end of the block frees memory of the ML heap (`NestedMeansCleanup`,
  `FreesNoHeapObject`).
* `src/runtime/top.c:231`: `sml_gcroot_unload` beside an enumeration.
* `src/runtime/object.c:299`: `sml_copyary` copies from the last element to the first,
  so a copy towards the beginning of the same array overwrites what it has
  still to read (`CopiesUnlessUp` is what holds).
* `src/runtime/heap_reppy.c:679`: the room that `forward` asserts is not there with
  three generations.
* `src/runtime/livecheck.c`: the parent of an object found from the stack is null
  and is followed.

## 7. Proofs

All theorems hold for every value of the constants that the assumptions allow; they
are checked by TLAPS without anything taken on trust. `PROJECT.json` lists them.

### 7.1 Handshake

The theorems are in `HandshakeProofs` and hold for every finite set of threads and
all bounds (`WorkersFinite`, `BoundsNat` are the only assumptions; the second says
that the bounds are natural numbers).

The invariant `IInv` has two halves.

`HoldInv` says who holds what. A thread in ML code, or in an action it was polled
into, has its own worker's lock; a helper has the lock of its target, alone
(`LockInv`). An action runs for the open round, on a worker whose phase is already
accepted, once (`ActInv`). What a thread remembers of a state word is still there
when it is used (`SeenInv`), greedy threads find their own signal (`GreedyInv`), and
a helper never gets the next signal later than its target does (`HelperInv`).

`RoundInv` is the account. Let `Unanswered` be the workers with a pending signal
plus those whose action is running. With nobody coordinating, `sml_check_flag` is
the size of `Unanswered` (`QuietInv`). While signals are being sent it is that size
minus the size of the list sent so far, hence never positive (`ChangeInv`). After
the `fetch_add` it is the size again (`CountedInv`), and after a last answer
everything is empty (`LastInv`). This is why the counter can be trusted: it is 1
only when one answer is missing and no coordinator is under way. For if one
is sending, it is at most 0; if one is about to answer greedily, its own worker is
unanswered besides the one that answers now; and otherwise nothing is unanswered.
`OneCoordinator` alone is not inductive: that the next `fetch_sub` seeing 1 has no
rival needs the account, and the account needs the locks.

`RoundFrame` handles at once all steps that neither send nor answer a signal. The
other steps are taken one by one in `HandshakeRounds`. `PendingIsUnanswered` connects
the account to the abstract `waiting` of `GCPhases`, and the refinement follows
action by action.

Proved: `TypeOK`, `IInv`, `OneCoordinator`, `LastAnswerIsLast`, `ActionExclusion`,
`StoresLoseNothing`, `Sync2Window`, `GlobalEnumOnce`, `HelperLoopsTwice`, `DeadIsQuiet`,
`PhaseOrder`, `RoundsComplete`, `HelpNotLost`. Only model-checked: `GCWaitEnds`
(liveness is out of the prover's reach).

`HelpNotLost` is not inductive: that a compare-and-swap of `workers_handshake` takes
nobody off the list who still waits depends on how old the value is that it compares
with. `HelpInv` (in `HandshakeInv`, proved relative to `IInv`) adds that.
`AgeInv`: who walks a list holds its own worker, and a round does not end before
that worker has answered; so the list is that of the round or of the one before,
and the stamp of either differs from that of the next round to be published,
except when MARK follows MARK. `WalkInv`: within a round the list only shrinks, so a
list that is as it was loaded has not changed in between, and the workers the walk
has passed are helped or in somebody's hands. `CoverInv`: a waiting worker is on the
list, or a thread that found its present state word is about to take it. `StampInv`
and `RetryInv` say which stamp the list has, and that a second MARK is counted
before it is announced. `WalkInv` and `CoverInv` are claimed outside the sending of
signals and outside a repeated MARK, where they are false; the other parts always.
Before it was proved TLC checked `HelpInv` on the instance of the run `handshake`
(it holds in all 1 062 808 states). `SearchFrame` handles the steps that walk the
list, `HelpFrame` those that do not, and `BeginHelp` and `PublishHelp` the two ends of
the sending of signals.

### 7.2 Marking

`MarkingProofs`, for every set of workers and objects, every initial heap and every
program; from assumptions that say only that NULL, objects and the global cell
differ, that a block has a home, and that the initial heap is a heap.

`MarkingInv` has the invariant, `MInv`. Its first part, `ControlInv`, holds in every
behaviour: where each worker is in its round (`PhaseInv`), who enumerates the global
variables (`GenumInv`), when `sml_heap_mark_finish` runs (`LookInv`), what an operation
under way keeps alive (`OpInv`), and what the bitmaps say of a block and of its
worker's phase (`OwnInv`). A middle part, `CleanInv`, says that a worker that has
reclaimed has no marks left, and holds as long as no barrier has come late. The rest,
`HeapInv`, holds as long as no barrier has missed an object (`missed = {}`): the
theorems exclude the three ways of section 3.4 by this condition, and say nothing of
what happens after one of them; that there is no fourth is what they say.

`KeptUnlessMissed` is not inductive, and neither is the usual invariant that a
white object is reachable from a gray one through white ones: the mutators change
those paths all the time, a thread may still be without its snapshot, and three
kinds of locals hold pointers of which no mark tells. `Safe` says it without
paths. `Sources` are the objects the collector will visit next: what objects that
are still to be scanned point to, the global variable before its enumeration, what the
tracer has loaded and not yet visited, and what `sml_cmpswap` has taken out of a cell
or put there and its barrier has not visited. `Safe` is the least set that contains
the new objects, the marked ones and the sources and is closed under the pointers
of unmarked objects. A cell for which a store is under way that has
loaded another value than it will overwrite is left out (`Unsure`), because its barrier does
not protect what is there.
`SafeInv`: from SYNC2 on, what a worker with a snapshot holds, and what safe objects and
the global variable point to, is safe.

* `SnapshotSafe`: when SYNC2 is announced everything in the heap is safe, since nothing
  has been scanned and nobody is about to overwrite what his barrier has not seen.
* A step that writes no cell is a `Scan`: nothing that was to be visited is forgotten.
  `ScanGrows` and `ScanCells` show once that such a step makes no safe object
  unsafe; `ScanStep` shows of every other action that it is one. The four answers
  and the steps of the tracer are among them.
* `AllocSafe`, `CmpSwapSafe`, `StoreSafe` treat the three that write. A store breaks a path;
  but by `BarrierInv` the value at its end has been marked, or its worker has no
  snapshot yet and the value it stores is alive.
* `LastLookTraces`: when the second look of `sml_heap_mark_finish` begins, finds no
  barrier in flight, and every remembered set is going to be found empty, there
  is no source left. The least set is then that of the new and the marked objects, which
  are what the workers will keep. `FinishedBefore` shows that this moment is the
  only one at which tracing ends, `KeptStep` that what is kept stays closed until the
  last worker has reclaimed.

Proved: `TypeOK`, `MarksSound`, `OneSlot`, `KeptUnlessMissed`, `TracedAtFinish`,
`CleanUnlessLate`, and the action property `FinalizesDead`. TLC has checked all of `MInv` on
the instance of run `marking`, once; the run itself checks `ControlInv`, as part of
`MarksSound`, and the properties.
Only model-checked: `TracingEnds` (liveness).

### 7.3 Segments

`SegmentPoolProofs`, for every set of workers, any number of segments, blocks and
collections. `MembersType` says that the workers registered at the start are workers.

`SegmentPoolInv` has the invariant, `PInv`. `ControlInv` (what a thread has in its
locals, where a worker is in its round, how far the collection is) and `RoomInv` (a
thread that waits for memory without having any has not answered ASYNC since it began,
and the second collection it waits for cannot end before it has) hold in every
behaviour. The rest, `QuietInv`, holds until `raced`, that is until a registration or a
pop has been overtaken by a collection (section 3.5); nothing is claimed after that.
By `NoABA` a pop that swaps a wrong next is always that of a worker that is not
registered yet.

* `OwnerInv`: there is a map from segments to places, and from segments to threads,
  that agrees with every list, set, allocation pointer and local, and no shared stack
  comes back to itself. `OneOwner` is the part of it that can be seen from
  outside. A map states for all pairs of the twelve kinds of places at once that they are disjoint,
  and a step moves a segment by changing the map at one argument. The shared
  stacks are linked through the segments, so their contents (`Chain`) are the least
  set with the top that is closed under the links. The lemmas about it say what it means to
  pop, to push one segment or a set of them, and that a list does not see what happens elsewhere;
  the push of a set is by well-founded induction over its order.
* `SnapInv`, `YoungInv`: where snapshots are, and which segments have objects behind
  them; `BitsInv`: which segments may still have collect bits, by the round and by
  who has answered it.
* `AbaInv`: a segment that a thread has loaded from a stack and is about to swap out has still
  the next it had then, because what could come back to a stack in the meantime passes
  through hands that wait for that thread: a segment returns to the pool only after
  ASYNC, by way of a worker that had it when the collection began (`Untouched`). This is the
  argument that the comments of `heap_concurrent.c` leave to the phases.

Ownership comes first and needs only that swaps have not gone wrong so far; the others
use it, and `AbaInv` shows that the next swap does not go wrong.

Proved: `OneOwner`, `YoungKept`, `ExhaustedMeansPool`, `NoABA`, `SegmentsReady`, that is
all properties of the pool in the run `structures`. TLC has checked the parts of `PInv` (with `OwnerInv` for
the map that can be read off a state) on the instance of that run.

### 7.4 User contexts

`UserMigrationProofs`, for every finite set of workers, threads and contexts.
`UInv` says where each worker is in its round (`PhaseInv`), that a context in use is
on the list of its worker and on no other list as one in use (`CtxInv`), what
the worker that visits a context may rely on (`VisitInv`), who holds BUSY_FLAG
and that nobody else then touches the context (`HoldInv`), what a thief has
concluded from its own worker's phase (`StealInv`), and who has been seen so far
(`SeenInv`). `AllSeen` is inductive only with all of them: a thread is stolen
without a lock when its thief has read a phase in which no worker enumerates;
that this is still so when the context moves follows from the rounds, because
the thief's own worker has not answered. Callbacks and returns are part of all this,
nested to any depth. What the theorems say of closed stacks and of seen roots is
said of the threads that are not `strayed` (section 3.2); for the others it is
false, and `open_callback` is the counterexample.

### 7.5 Signals

`SignalsProofs`, for every set of threads and signals. `Watched` (some thread will
look at the word) and `Noted` (a signal whose handler has run is in the word or
about to be) are the invariant, with the facts that one signal has one frame at
most on a stack and that the hook is stored before the handler is installed.

### 7.6 Finalizers

`FinalizersProofs`, for every set of mutators and every finite or infinite set of
addresses. `FInv` adds to the properties that what was found dead stays out of
reach (`DeadInv`), that the cursor of the walk has passed all dead objects behind it,
and that an object without its integer is in the hands of the thread that makes it
(`LimbInv`, `NewInv`).

### 7.7 Out of reach

Liveness (the five progress properties) and `ENABLED` are TLC's. So is everything
about `SplayTree`, `GCRoots` and `Callbacks`, whose definitions recur over data, and
what other modules compute by recursion (layouts, tables, equality): a proof
would need induction over data.

## 8. Plan

What is left, in the order of its worth:

1. `Exceptions`: the discipline of the cleanup count, for any stack.
2. `TreeSet` as an abstract specification that `Finalizers` and `Callbacks` use with
   INSTANCE instead of their own sets.

## 9. Not modelled

* The other heaps (`heap_otomo.c`, a wrapper of Boehm's collector, an allocator without
  collection): none is built, and the first is unfinished.
* The thread library (Mvar, Ivar, futures, CML events) and foreach: SML code over
  mutexes and condition variables of an external library.
* The compiler: its correctness is about program semantics. The parts that the
  runtime depends on are in `FrameTable`, `Exceptions` and `Callbacks`.
* `prim.c`, messages, timing, statistics, backtraces: wrappers and output without
  state that the rest depends on.
* Basis and other libraries, smlformat, ml-yacc, ml-lex, ml-lpt, smlnj-lib, netlib's
  dtoa: libraries, generators and third-party code.
* The memory model: all modules are sequentially consistent.
