----------------------------- MODULE Handshake -----------------------------
(***************************************************************************)
(* The collector handshake of the SML# runtime (src/runtime/control.c).    *)
(*                                                                         *)
(* The heap of SML# is collected on the fly: no thread is ever stopped.    *)
(* The program advances through the signals SYNC1, SYNC2, MARK and ASYNC,  *)
(* and each registered worker context answers each signal once.  There is  *)
(* no collector thread: whoever starts a collection, and afterwards        *)
(* whoever answers a signal last, coordinates the next round.  A worker    *)
(* whose thread is outside ML code is answered for by a helper.            *)
(*                                                                         *)
(* Every action is one atomic operation of the code (a load, a store, a    *)
(* compare-and-swap, a fetch-and-op) with the thread-local work around it. *)
(* A thread is named like its worker context.  The lists linked through    *)
(* worker->next are sets, walked in an arbitrary order: every order of a   *)
(* real list is one of these walks.                                        *)
(***************************************************************************)
EXTENDS Integers, FiniteSets

CONSTANTS Workers,     \* the threads, and the worker contexts they register
          MaxGC,       \* bound: collections started in a behaviour
          MaxRetry     \* bound: repetitions of MARK in one collection

ASSUME WorkersFinite == IsFiniteSet(Workers)
ASSUME BoundsNat == MaxGC \in Nat /\ MaxRetry \in Nat

VARIABLES
  \* shared words
  phase,       \* PHASE(worker->state)
  inactive,    \* the workers with INACTIVE_STATE in worker->state
  helper,      \* the workers with HELPER_STATE in worker->state
  canceled,    \* CANCELED_FLAG of worker->flags
  dead,        \* DEAD_FLAG
  globalenum,  \* GLOBALENUM_FLAG
  users,       \* the workers whose list worker->users is not empty
  live,        \* the workers on that list with user->worker = worker
  available,   \* workers_available, without the dead contexts
  newphase,    \* its low bits: the phase of a context registered now
  handshake,   \* workers_handshake: the list and its stamp
  check_flag,  \* sml_check_flag
  gc_count,    \* gc_count
  \* locals of the coordinator (OneCoordinator: no two threads use them)
  from, to,    \* old_phase and new_phase of change_phase
  left, list,  \* the workers change_phase has still to visit; has signalled
  \* locals of each thread
  pc,          \* the next atomic operation
  ret,         \* where the action in progress returns to
  tgt,         \* the worker acted for
  greedy,      \* the threads whose greedy argument is 1
  seen,        \* the phase of tgt loaded last
  snap,        \* workers_handshake as help_inactive loaded it
  todo,        \* what it has still to scan of it
  wait,        \* the gc_count sml_wait_gc waits for, or 0
  \* bound
  retries      \* repetitions of MARK in this collection

stateword == <<phase, inactive, helper>>
flags     == <<canceled, dead, globalenum>>
userlist  == <<users, live>>
registry  == <<available, newphase>>
counters  == <<check_flag, gc_count, retries>>
round     == <<from, to, left, list>>
frame     == <<ret, tgt, greedy, seen>>
scanning  == <<snap, todo>>
vars == <<phase, inactive, helper, canceled, dead, globalenum, users, live,
          available, newphase, handshake, check_flag, gc_count, retries,
          from, to, left, list, pc, ret, tgt, greedy, seen, snap, todo, wait>>

-----------------------------------------------------------------------------
(* The phases.  Bit 0 is clear while a signal is pending (PRE...); setting  *)
(* it accepts the signal.                                                   *)

PREASYNC == 0
ASYNC    == 1
PRESYNC1 == 2
SYNC1    == 3
PRESYNC2 == 4
SYNC2    == 5
PREMARK  == 6
MARK     == 7
Phases   == 0..7

IsPre(p)  == p % 2 = 0
Accept(p) == IF IsPre(p) THEN p + 1 ELSE p

\* Bitwise exclusive or of two phases.
Xor(p, q) == LET bit(b) == ((p \div b) + (q \div b)) % 2
             IN  4 * bit(4) + 2 * bit(2) + bit(1)

Stamps == [ws : SUBSET Workers, stamp : Phases]
NoSnap == [ws |-> {}, stamp |-> 0]

-----------------------------------------------------------------------------
Init ==
  /\ phase = [w \in Workers |-> PREASYNC]
  /\ inactive = {} /\ helper = {}
  /\ canceled = {} /\ dead = {} /\ globalenum = {}
  /\ users = {} /\ live = {}
  /\ available = {} /\ newphase = ASYNC
  /\ handshake = NoSnap
  /\ check_flag = 0 /\ gc_count = 0 /\ retries = 0
  /\ pc = [t \in Workers |-> "out"]
  /\ ret = [t \in Workers |-> "out"]
  /\ tgt = [t \in Workers |-> t]
  /\ greedy = {}
  /\ seen = [t \in Workers |-> PREASYNC]
  /\ from = ASYNC /\ to = PRESYNC1 /\ left = {} /\ list = {}
  /\ todo = [t \in Workers |-> {}]
  /\ snap = [t \in Workers |-> NoSnap]
  /\ wait = [t \in Workers |-> 0]

Goto(t, label) == pc' = [pc EXCEPT ![t] = label]

\* Thread t starts the action of worker w for the pending phase p.
Act(t, w, p, label) ==
  /\ Goto(t, "work")
  /\ tgt' = [tgt EXCEPT ![t] = w]
  /\ seen' = [seen EXCEPT ![t] = p]
  /\ ret' = [ret EXCEPT ![t] = label]

\* Thread t is back at label, and its frame in the runtime is gone.
Resume(t, label) ==
  /\ Goto(t, label)
  /\ tgt' = [tgt EXCEPT ![t] = t]
  /\ seen' = [seen EXCEPT ![t] = PREASYNC]
  /\ ret' = [ret EXCEPT ![t] = "out"]
  /\ greedy' = greedy \ {t}

\* Thread t returns from an action or from the coordinator's work.
Return(t) == IF ret[t] = "helped" THEN Goto(t, "helped") /\ UNCHANGED frame
                                  ELSE Resume(t, ret[t])

-----------------------------------------------------------------------------
(* Entering and leaving ML code.                                            *)

\* enter_worker of a thread without a worker context, and the start of its
\* user in the memory that came with the context.  While the low bits are 0
\* (the program exits) the thread sleeps forever.
Register(t) ==
  /\ pc[t] = "out" /\ t \notin available
  /\ newphase # 0
  /\ phase' = [phase EXCEPT ![t] = newphase]
  /\ inactive' = inactive \ {t} /\ helper' = helper \ {t}
  /\ available' = available \cup {t}
  /\ users' = users \cup {t} /\ live' = live \cup {t}
  /\ Goto(t, "ml")
  /\ UNCHANGED <<flags, newphase, handshake, counters, round, frame,
                 scanning, wait>>

\* Mutant: the bit is cleared without testing it.
UnlockedUntested(t) == TRUE

\* acquire_unbit(&worker->state, INACTIVE_STATE) succeeds.
Unlocked(t) == t \in inactive

\* enter_worker of a registered thread, which waits for a helper to finish.
Enter(t) ==
  /\ pc[t] = "out" /\ t \in available
  /\ Unlocked(t)
  /\ inactive' = inactive \ {t}
  /\ Goto(t, "entered")
  /\ UNCHANGED <<phase, helper, flags, userlist, registry, handshake,
                 counters, round, frame, scanning, wait>>

\* The rest of sml_start and sml_enter: the thread has its user context, or
\* allocates one.
Attach(t) ==
  /\ pc[t] = "entered"
  /\ users' = users \cup {t} /\ live' = live \cup {t}
  /\ Goto(t, "ml")
  /\ UNCHANGED <<stateword, flags, registry, handshake, counters, round,
                 frame, scanning, wait>>

\* leave_worker: a pending signal is accepted by the fetch_or that unlocks
\* the worker, and its action follows the unlock.
LeaveWorker(t) ==
  /\ phase' = [phase EXCEPT ![t] = Accept(@)]
  /\ inactive' = inactive \cup {t}
  /\ IF IsPre(phase[t]) /\ t \notin inactive \cup helper
     THEN Act(t, t, phase[t], "out")
     ELSE Goto(t, "out") /\ UNCHANGED <<tgt, seen, ret>>
  /\ UNCHANGED <<helper, flags, users, registry, handshake, counters, round,
                 greedy, scanning, wait>>

\* sml_leave, and sml_end of a callback.
Leave(t) ==
  /\ pc[t] = "ml" /\ wait[t] = 0
  /\ LeaveWorker(t)
  /\ UNCHANGED live

\* sml_end of the last ML frame: the user dies, and is taken off worker->users
\* by the next worker_sync2.
End(t) ==
  /\ pc[t] = "ml" /\ wait[t] = 0
  /\ live' = live \ {t}
  /\ LeaveWorker(t)

\* sml_start found no memory for a user: leave, yield and try again.
EnterRetry(t) ==
  /\ pc[t] = "entered" /\ t \notin live
  /\ LeaveWorker(t)
  /\ UNCHANGED live

\* cancel_worker, when the thread ends outside ML code.
Cancel(t) ==
  /\ pc[t] = "out" /\ t \in available
  /\ canceled' = canceled \cup {t}
  /\ Goto(t, "dead")
  /\ UNCHANGED <<stateword, dead, globalenum, userlist, registry, handshake,
                 counters, round, frame, scanning, wait>>

-----------------------------------------------------------------------------
(* Polling: sml_check_internal, from compiled code or from the allocator.   *)

\* The load of worker->state: the own signal first, else help the others.
Poll(t) ==
  /\ pc[t] = "ml"
  /\ IF wait[t] = 0 THEN check_flag # 0 ELSE gc_count < wait[t]
  /\ IF IsPre(phase[t]) /\ t \notin inactive \cup helper
     THEN Goto(t, "accept") /\ seen' = [seen EXCEPT ![t] = phase[t]]
     ELSE Goto(t, "load") /\ UNCHANGED seen
  /\ UNCHANGED <<stateword, flags, userlist, registry, handshake, counters,
                 round, ret, tgt, greedy, scanning, wait>>

\* store_relaxed(&worker->state, ACTIVE(...)), then the action with greedy 1.
StoreAccepted(t, p) ==
  /\ phase' = [phase EXCEPT ![t] = Accept(p)]
  /\ inactive' = inactive \ {t} /\ helper' = helper \ {t}
  /\ greedy' = greedy \cup {t}
  /\ Act(t, t, p, "ml")
  /\ UNCHANGED <<flags, userlist, registry, handshake, counters, round,
                 scanning, wait>>

AcceptSignal(t) == pc[t] = "accept" /\ StoreAccepted(t, seen[t])

-----------------------------------------------------------------------------
(* Starting a collection and waiting for one: sml_gc and sml_wait_gc.       *)

\* The fetch_or of sml_gc finds gc_count even.
GCIdle == gc_count % 2 = 0

\* sml_gc by the thread that turns gc_count odd: greedy from sml_wait_gc in
\* ML code, otherwise from the allocator or from a signal handler.
StartGC(t, g) ==
  /\ pc[t] \in (IF g THEN {"ml"} ELSE {"ml", "entered", "out"})
  /\ t \in available /\ wait[t] = 0
  /\ GCIdle /\ gc_count < 2 * MaxGC
  /\ gc_count' = gc_count + 1
  /\ greedy' = IF g THEN greedy \cup {t} ELSE greedy \ {t}
  /\ wait' = [wait EXCEPT ![t] = IF g THEN gc_count + 2 ELSE 0]
  /\ from' = ASYNC /\ to' = PRESYNC1
  /\ ret' = [ret EXCEPT ![t] = pc[t]]
  /\ Goto(t, "glob")
  /\ UNCHANGED <<stateword, flags, userlist, registry, handshake, check_flag,
                 retries, left, list, tgt, seen, scanning>>

\* sml_wait_gc while a collection runs: wait for its end.
JoinGC(t) ==
  /\ pc[t] = "ml" /\ wait[t] = 0
  /\ gc_count % 2 = 1
  /\ wait' = [wait EXCEPT ![t] = gc_count + 1]
  /\ UNCHANGED <<stateword, flags, userlist, registry, handshake, counters,
                 round, pc, frame, scanning>>

\* The end of the loop of sml_wait_gc.
WaitDone(t) ==
  /\ pc[t] = "ml" /\ wait[t] # 0
  /\ gc_count >= wait[t]
  /\ wait' = [wait EXCEPT ![t] = 0]
  /\ UNCHANGED <<stateword, flags, userlist, registry, handshake, counters,
                 round, pc, frame, scanning>>

-----------------------------------------------------------------------------
(* The worker's actions.  Each ends in the fetch_sub of sml_check_flag; the *)
(* thread that takes it from 1 to 0 coordinates what follows.               *)

\* Mutant: the test takes a counter that is not yet raised for a zero one.
IsLastOrLess == check_flag <= 1

\* fetch_sub(acq_rel, &sml_check_flag, 1) == 1
IsLast == check_flag = 1

Answer(t, last, old, new) ==
  /\ check_flag' = check_flag - 1
  /\ IF IsLast
     THEN Goto(t, last) /\ from' = old /\ to' = new /\ UNCHANGED frame
     ELSE Return(t) /\ UNCHANGED <<from, to>>
  /\ UNCHANGED <<stateword, canceled, dead, live, registry, handshake,
                 gc_count, retries, left, list, scanning, wait>>

\* The workers that get GLOBALENUM_FLAG by the answer of t.
Enumerator(t) == IF IsLast THEN {tgt[t]} ELSE {}

WorkerSync1(t) ==
  /\ pc[t] = "work" /\ seen[t] = PRESYNC1
  /\ globalenum' = globalenum \cup Enumerator(t)
  /\ Answer(t, "glob", SYNC1, PRESYNC2)
  /\ UNCHANGED users

\* Root enumeration: dead users are dropped, and the worker with
\* GLOBALENUM_FLAG enumerates the global variables.
WorkerSync2(t) ==
  /\ pc[t] = "work" /\ seen[t] = PRESYNC2
  /\ users' = IF tgt[t] \in live THEN users ELSE users \ {tgt[t]}
  /\ globalenum' = globalenum \ {tgt[t]}
  /\ Answer(t, "glob", SYNC2, PREMARK)

WorkerMark(t) ==
  /\ pc[t] = "work" /\ seen[t] = PREMARK
  /\ Answer(t, "mark", MARK, PREASYNC)
  /\ UNCHANGED <<globalenum, users>>

WorkerAsync(t) ==
  /\ pc[t] = "work" /\ seen[t] = PREASYNC
  /\ Answer(t, "endgc", ASYNC, PRESYNC1)
  /\ UNCHANGED <<globalenum, users>>

\* sml_heap_mark_finish found every remembered set empty: go on to ASYNC.
MarkFinish(t) ==
  /\ pc[t] = "mark"
  /\ Goto(t, "glob")
  /\ UNCHANGED <<stateword, flags, userlist, registry, handshake, counters,
                 round, frame, scanning, wait>>

\* It found more to trace: repeat MARK.
MarkRetry(t) ==
  /\ pc[t] = "mark" /\ retries < MaxRetry
  /\ retries' = retries + 1
  /\ to' = PREMARK
  /\ Goto(t, "glob")
  /\ UNCHANGED <<stateword, flags, userlist, registry, handshake, check_flag,
                 gc_count, from, left, list, frame, scanning, wait>>

\* sml_heap_global_async, then gc_count becomes even.
EndGC(t) ==
  /\ pc[t] = "endgc"
  /\ gc_count' = gc_count + 1
  /\ retries' = 0
  /\ Return(t)
  /\ UNCHANGED <<stateword, flags, userlist, registry, handshake, check_flag,
                 round, scanning, wait>>

-----------------------------------------------------------------------------
(* The coordinator: global_phase, change_phase, the fetch_add of            *)
(* sml_check_flag and the greedy answer for the own worker.                 *)

\* Mutant: new workers still get the old phase.
RegistrationLags == from

\* The phase of the workers that register from now on.
RegistrationPhase == Accept(to)

GlobalPhase(t) ==
  /\ pc[t] = "glob"
  /\ newphase' = RegistrationPhase
  /\ left' = available /\ list' = {}
  /\ Goto(t, "chg")
  /\ UNCHANGED <<stateword, flags, userlist, available, handshake, counters,
                 from, to, frame, scanning, wait>>

\* change_phase: a canceled worker without users dies at the start of a
\* collection ...
Dies(w) == from = ASYNC /\ w \in canceled \ users

Kill(t, w) ==
  /\ pc[t] = "chg" /\ w \in left
  /\ Dies(w)
  /\ dead' = dead \cup {w}
  /\ available' = available \ {w}
  /\ left' = left \ {w}
  /\ UNCHANGED <<stateword, canceled, globalenum, userlist, newphase,
                 handshake, counters, from, to, list, pc, frame, scanning,
                 wait>>

\* ... every other one is sent the signal, whether it is active or not.
ChangePhase(t, w) ==
  /\ pc[t] = "chg" /\ w \in left
  /\ ~Dies(w)
  /\ phase' = [phase EXCEPT ![w] = Xor(@, Xor(from, to))]
  /\ left' = left \ {w} /\ list' = list \cup {w}
  /\ UNCHANGED <<inactive, helper, flags, userlist, registry, handshake,
                 counters, from, to, pc, frame, scanning, wait>>

Publish(t) ==
  /\ pc[t] = "chg" /\ left = {}
  /\ handshake' = [ws |-> list, stamp |-> to]
  /\ Goto(t, "add")
  /\ UNCHANGED <<stateword, flags, userlist, registry, counters, round,
                 frame, scanning, wait>>

AddCount(t) ==
  /\ pc[t] = "add"
  /\ check_flag' = check_flag + Cardinality(list)
  /\ list' = {}
  /\ IF t \in greedy THEN Goto(t, "greedy") /\ UNCHANGED frame
                     ELSE Return(t)
  /\ UNCHANGED <<stateword, flags, userlist, registry, handshake, gc_count,
                 retries, from, to, left, scanning, wait>>

AnswerGreedily(t) == pc[t] = "greedy" /\ StoreAccepted(t, to)

-----------------------------------------------------------------------------
(* help_inactive: answer for the workers that are outside ML code.          *)

LoadHandshake(t) ==
  /\ pc[t] = "load"
  /\ snap' = [snap EXCEPT ![t] = handshake]
  /\ todo' = [todo EXCEPT ![t] = handshake.ws]
  /\ Goto(t, "scan")
  /\ UNCHANGED <<stateword, flags, userlist, registry, handshake, counters,
                 round, frame, wait>>

\* Mutant: the workers that have answered are taken for the pending ones.
NeedsNoHelp(w) == w \notin dead /\ ~IsPre(phase[w]) /\ w \in inactive

\* INACTIVE(PRE...): nobody holds the worker and its signal is pending.
NeedsHelp(w) == /\ w \notin dead
                /\ IsPre(phase[w]) /\ w \in inactive \ helper

Scan(t, w) ==
  /\ pc[t] = "scan" /\ w \in todo[t]
  /\ todo' = [todo EXCEPT ![t] = @ \ {w}]
  /\ IF NeedsHelp(w)
     THEN /\ Goto(t, "unlink")
          /\ tgt' = [tgt EXCEPT ![t] = w]
          /\ seen' = [seen EXCEPT ![t] = phase[w]]
     ELSE UNCHANGED <<pc, tgt, seen>>
  /\ UNCHANGED <<stateword, flags, userlist, registry, handshake, counters,
                 round, ret, greedy, snap, wait>>

\* Mutant: the stamp is left out of the comparison.
ListUnstamped(t) == handshake.ws = snap[t].ws

\* A compare-and-swap of workers_handshake by t succeeds.
ListAsLoaded(t) == handshake = snap[t]

\* The list seen is exhausted: clear workers_handshake if it is unchanged.
ScanEnd(t) ==
  /\ pc[t] = "scan" /\ todo[t] = {}
  /\ IF ListAsLoaded(t)
     THEN handshake' = [ws |-> {}, stamp |-> snap[t].stamp]
     ELSE UNCHANGED handshake
  /\ snap' = [snap EXCEPT ![t] = NoSnap]
  /\ Goto(t, "ml")
  /\ UNCHANGED <<stateword, flags, userlist, registry, counters, round,
                 frame, todo, wait>>

\* Take tgt, and everything before it, off workers_handshake.
Unlink(t) ==
  /\ pc[t] = "unlink"
  /\ IF ListAsLoaded(t)
     THEN /\ handshake' = [ws |-> todo[t], stamp |-> snap[t].stamp]
          /\ Goto(t, "take") /\ UNCHANGED frame
     ELSE UNCHANGED handshake /\ Resume(t, "ml")
  /\ snap' = [snap EXCEPT ![t] = NoSnap]
  /\ todo' = [todo EXCEPT ![t] = {}]
  /\ UNCHANGED <<stateword, flags, userlist, registry, counters, round, wait>>

\* Mutant: a store instead of the compare-and-swap.
WordUntested(t) == TRUE

\* The compare-and-swap of the state word of tgt by t succeeds.
WordAsLoaded(t) == phase[tgt[t]] = seen[t] /\ tgt[t] \in inactive \ helper

\* Lock tgt and accept its signal, if it is still as it was loaded.
Take(t) ==
  /\ pc[t] = "take"
  /\ IF WordAsLoaded(t)
     THEN /\ phase' = [phase EXCEPT ![tgt[t]] = Accept(seen[t])]
          /\ inactive' = inactive \ {tgt[t]}
          /\ helper' = helper \cup {tgt[t]}
          /\ Act(t, tgt[t], seen[t], "helped")
          /\ UNCHANGED greedy
     ELSE Resume(t, "ml") /\ UNCHANGED stateword
  /\ UNCHANGED <<flags, userlist, registry, handshake, counters, round,
                 scanning, wait>>

\* Unlock tgt, unless the next signal arrived for it meanwhile.
Unlock(t) ==
  /\ pc[t] = "helped"
  /\ LET w == tgt[t] IN
     IF phase[w] = Accept(seen[t]) /\ w \in helper \ inactive
     THEN /\ inactive' = inactive \cup {w} /\ helper' = helper \ {w}
          /\ Resume(t, "ml")
     ELSE /\ seen' = [seen EXCEPT ![t] = phase[w]]
          /\ Goto(t, "reaccept")
          /\ UNCHANGED <<inactive, helper, ret, tgt, greedy>>
  /\ UNCHANGED <<phase, flags, userlist, registry, handshake, counters, round,
                 scanning, wait>>

\* Accept that signal too, and answer it.
Reaccept(t) ==
  /\ pc[t] = "reaccept"
  /\ phase' = [phase EXCEPT ![tgt[t]] = Accept(seen[t])]
  /\ Goto(t, "work")
  /\ UNCHANGED <<inactive, helper, flags, userlist, registry, handshake,
                 counters, round, frame, scanning, wait>>

-----------------------------------------------------------------------------
\* What the program around the runtime decides.
Mutator(t) ==
  \/ Register(t) \/ Enter(t) \/ EnterRetry(t)
  \/ Leave(t) \/ End(t) \/ Cancel(t)
  \/ StartGC(t, TRUE) \/ StartGC(t, FALSE) \/ JoinGC(t)

\* What a thread goes on doing once it is inside the runtime.
Runtime(t) ==
  \/ Attach(t) \/ AcceptSignal(t) \/ WaitDone(t)
  \/ WorkerSync1(t) \/ WorkerSync2(t) \/ WorkerMark(t) \/ WorkerAsync(t)
  \/ MarkFinish(t) \/ MarkRetry(t) \/ EndGC(t)
  \/ GlobalPhase(t) \/ Publish(t) \/ AddCount(t) \/ AnswerGreedily(t)
  \/ \E w \in Workers : Kill(t, w) \/ ChangePhase(t, w) \/ Scan(t, w)
  \/ LoadHandshake(t) \/ ScanEnd(t) \/ Unlink(t) \/ Take(t)
  \/ Unlock(t) \/ Reaccept(t)

\* Every thread has ended.
Finished == /\ \A t \in Workers : pc[t] = "dead"
            /\ UNCHANGED vars

Next == \/ \E t \in Workers : Mutator(t) \/ Poll(t) \/ Runtime(t)
        \/ Finished

Spec == Init /\ [][Next]_vars

-----------------------------------------------------------------------------
(* Safety.                                                                  *)

Labels == {"out", "entered", "ml", "accept", "work", "mark", "glob", "chg",
           "add", "greedy", "endgc", "load", "scan", "unlink", "take",
           "helped", "reaccept", "dead"}

\* Every variable has the type of the word or the local it stands for.
TypeOK ==
  /\ phase \in [Workers -> Phases]
  /\ inactive \subseteq Workers /\ helper \subseteq Workers
  /\ canceled \subseteq Workers /\ dead \subseteq Workers
  /\ globalenum \subseteq Workers
  /\ users \subseteq Workers /\ live \subseteq Workers
  /\ available \subseteq Workers /\ newphase \in Phases
  /\ handshake \in Stamps
  /\ check_flag \in Int /\ gc_count \in Nat /\ retries \in Nat
  /\ from \in Phases /\ to \in Phases
  /\ left \subseteq Workers /\ list \subseteq Workers
  /\ pc \in [Workers -> Labels]
  /\ ret \in [Workers -> {"ml", "entered", "out", "helped"}]
  /\ tgt \in [Workers -> Workers]
  /\ greedy \subseteq Workers
  /\ seen \in [Workers -> Phases]
  /\ snap \in [Workers -> Stamps]
  /\ todo \in [Workers -> SUBSET Workers]
  /\ wait \in [Workers -> Nat]

\* Thread t holds the lock of its own worker (ACTIVE without HELPER_STATE).
Owns(t) == \/ pc[t] \in {"entered", "ml", "accept", "greedy", "load", "scan",
                         "unlink", "take", "helped", "reaccept"}
           \/ pc[t] \in {"work", "mark", "glob", "chg", "add", "endgc"}
              /\ ret[t] # "out"

\* Thread t holds the lock of worker tgt[t] as its helper.
Helps(t) == \/ pc[t] \in {"helped", "reaccept"}
            \/ pc[t] \in {"work", "mark", "glob", "chg", "add", "endgc"}
               /\ ret[t] = "helped"

Coordinates(t) == pc[t] \in {"mark", "glob", "chg", "add", "greedy", "endgc"}

\* The workers whose answer the current round still lacks.
Pending == {w \in available : phase[w] # newphase}
           \cup {tgt[t] : t \in {u \in Workers : pc[u] = "work"}}
           \cup left

\* At most one thread at a time is between "its fetch_sub saw 1" (or "it made
\* gc_count odd") and the next round's fetch_add: change_phase and its asserts
\* rely on it.
OneCoordinator ==
  \A t, u \in Workers : Coordinates(t) /\ Coordinates(u) => t = u

\* The thread whose fetch_sub saw 1 was the last: while it runs
\* sml_heap_mark_finish, the finalizers, sml_heap_global_async or announces
\* the next phase, no signal is pending and no action of any worker runs.
LastAnswerIsLast ==
  (\E t \in Workers : pc[t] \in {"mark", "glob", "endgc"}) => Pending = {}

\* No two threads run an action for the same worker, and a helper only acts
\* for a worker whose thread is outside ML code.
ActionExclusion ==
  /\ \A t, u \in Workers :
        pc[t] = "work" /\ pc[u] = "work" /\ tgt[t] = tgt[u] => t = u
  /\ \A t, u \in Workers : Helps(t) /\ tgt[t] = u => ~Owns(u)

\* The plain stores to worker->state overwrite nothing: the word is still what
\* sml_check_internal and help_inactive loaded, or what the assertions before
\* the greedy answers and in change_phase demand.
StoresLoseNothing ==
  /\ \A t \in Workers : pc[t] = "accept" =>
        phase[t] = seen[t] /\ t \notin inactive \cup helper
  /\ \A t \in Workers : pc[t] = "greedy" =>
        phase[t] = to /\ t \notin inactive \cup helper
  /\ \A t \in Workers : pc[t] = "reaccept" =>
        /\ phase[tgt[t]] = seen[t] /\ IsPre(seen[t])
        /\ tgt[t] \in helper \ inactive
  /\ \A w \in left : phase[w] = from

\* What sml_enter's migration of a user relies on: while a thread in ML code
\* sees its own worker before SYNC1 or after SYNC2, nobody enumerates roots.
Sync2Window ==
  \A t, u \in Workers :
     /\ Owns(t) /\ phase[t] \notin {SYNC1, PRESYNC2, SYNC2}
     /\ pc[u] = "work"
     => seen[u] # PRESYNC2

\* When SYNC2 is announced exactly one registered worker is responsible for
\* the global variables, and when SYNC2 is over the enumeration has happened.
GlobalEnumOnce ==
  /\ (\E t \in Workers : pc[t] = "glob" /\ to = PRESYNC2) =>
        \E w \in available : globalenum = {w}
  /\ (newphase \in {MARK, ASYNC}) => globalenum = {}

\* A helper that has to answer again owes the same answer for itself, so its
\* loop runs at most twice (comment in help_inactive).
HelperLoopsTwice ==
  \A t \in Workers : pc[t] = "reaccept" =>
     t \in Pending /\ tgt[t] \in Pending /\ newphase = Accept(seen[t])

\* Except in a repeated MARK, a worker outside ML code with a pending signal is
\* on the list the helpers read, or in the hands of one of them, as soon as the
\* list is published.
HelpNotLost ==
  (newphase = MARK => retries = 0) /\ (\A t \in Workers : pc[t] # "chg") =>
     \A w \in available : NeedsHelp(w) =>
        \/ w \in handshake.ws
        \/ \E t \in Workers : pc[t] = "take" /\ tgt[t] = w

\* A running collection is in somebody's hands: some answer is still to come,
\* or some thread is coordinating ("the last worker to answer takes everybody
\* to the next phase", comments in worker_sync1 .. worker_async).
RoundHasOwner ==
  gc_count % 2 = 1 => Pending # {} \/ \E t \in Workers : Coordinates(t)

\* A dead worker is out of every list and no thread acts for it, and only
\* canceled threads without a running user lose their worker.
DeadIsQuiet ==
  \A w \in dead :
     /\ w \in canceled \ live
     /\ \A t \in Workers : pc[t] = "work" => tgt[t] # w

-----------------------------------------------------------------------------
(* Steps.                                                                   *)

\* The only steps of a worker's phase are the arrows of the diagram in
\* control.c, and the repetition of MARK.
Arrows == {<<ASYNC, PRESYNC1>>, <<PRESYNC1, SYNC1>>, <<SYNC1, PRESYNC2>>,
           <<PRESYNC2, SYNC2>>, <<SYNC2, PREMARK>>, <<PREMARK, MARK>>,
           <<MARK, PREMARK>>, <<MARK, PREASYNC>>, <<PREASYNC, ASYNC>>}

PhaseOrder ==
  [][\A w \in available : phase'[w] # phase[w] =>
        <<phase[w], phase'[w]>> \in Arrows]_vars

-----------------------------------------------------------------------------
(* Progress.                                                                *)

\* A thread inside the runtime is scheduled, and compiled code polls.
Fairness == \A t \in Workers : WF_vars(Runtime(t)) /\ WF_vars(Poll(t))

\* sml_wait_gc returns.
WaitEnds == \A t \in Workers : wait[t] # 0 ~> wait[t] = 0
=============================================================================
