--------------------------- MODULE UserMigration ---------------------------
(***************************************************************************)
(* User contexts of control.c: user threads that start, leave and enter ML *)
(* code, call back into it and return, are stolen by another worker, end   *)
(* or are canceled, while SYNC2 enumerates their stacks.                   *)
(*                                                                         *)
(* A context stays on the list of the worker that made it until that       *)
(* worker's SYNC2 action finds that it has moved on.  A stolen thread      *)
(* copies its context and redirects user->worker of the old one; BUSY_FLAG *)
(* keeps it and the old worker apart.  A thread that sml_start lets call   *)
(* back on another worker is not moved at all (strayed): its old worker    *)
(* may walk its stack while it runs.  The rounds are those of GCPhases.    *)
(***************************************************************************)
EXTENDS SyncPhases, FiniteSets, GCPhases

CONSTANTS Threads,   \* user threads
          Ctxs,      \* bound: user contexts in a behaviour
          Nil,
          Members0,  \* bound: the workers registered at the start
          MaxRanges, \* bound: stack ranges of a thread
          MaxGC      \* bound: collections in a behaviour

ASSUME UserConstants ==
  Members0 \subseteq Workers /\ Nil \notin Workers \cup Threads \cup Ctxs

VARIABLES
  phase, unsent, gc,    \* as in Marking
  made,       \* the contexts allocated
  home,       \* user->worker
  busy,       \* BUSY_FLAG of user->flags
  users,      \* worker->users
  stack,      \* the thread whose frames user->stack describes
  ctx,        \* current_user of each thread
  ranges,     \* the length of user->stack: calls from C code that are active
  at,         \* where each thread is: "new", "c", "ml", "gone", or a step
  on,         \* the worker a thread in ML code runs on
  todo, step, \* worker_sync2: the users still to visit, and its next step
  visiting,   \* the user whose turn it is
  enum,       \* the stacks under enumeration, and by whom
  seen,       \* threads whose roots the collection has
  strayed     \* history: threads that called back, in this collection, on
              \* another worker than user->worker

rounds == <<members, round, waiting, phase, unsent, gc>>
scan   == <<todo, step, visiting>>
ctxs   == <<made, home, busy, users, stack>>
thread == <<ctx, ranges, strayed>>
vars == <<members, round, waiting, phase, unsent, gc, made, home, busy, users,
          stack, ctx, ranges, at, on, todo, step, visiting, enum, seen, strayed>>

Init ==
  /\ members = Members0 /\ round = ASYNC /\ waiting = {} /\ unsent = {}
  /\ phase = [w \in Workers |-> ASYNC] /\ gc = 0
  /\ made = {} /\ home = [c \in Ctxs |-> Nil] /\ busy = {}
  /\ users = [w \in Workers |-> {}] /\ stack = [c \in Ctxs |-> Nil]
  /\ ctx = [t \in Threads |-> Nil] /\ at = [t \in Threads |-> "new"]
  /\ on = [t \in Threads |-> Nil]
  /\ todo = [w \in Workers |-> {}] /\ step = [w \in Workers |-> "idle"]
  /\ visiting = [w \in Workers |-> Nil]
  /\ enum = {} /\ seen = {}
  /\ ranges = [t \in Threads |-> 0] /\ strayed = {}

Goto(t, label) == at' = [at EXCEPT ![t] = label]

\* The lock of worker w is free: nobody is in ML code on it and no action of
\* it is under way.
Inactive(w) == (\A t \in Threads : on[t] # w) /\ step[w] = "idle"

\* enter_worker: the lock is taken; a new worker registers with the phase of
\* the round.
EnterWorker(t, w) ==
  /\ Inactive(w)
  /\ on' = [on EXCEPT ![t] = w]
  /\ IF w \in members THEN UNCHANGED <<members, round, waiting, phase>>
     ELSE Join(w) /\ phase' = [phase EXCEPT ![w] = round]
  /\ UNCHANGED <<unsent, gc>>

NewCtx == CHOOSE c \in Ctxs : c \notin made

\* Mutant: the new context is not linked.
Unlinked(w) == users

\* The lists with the new context on that of w.
Linked(w) == [users EXCEPT ![w] = @ \cup {NewCtx}]

\* A context for thread t on the list of w.
AddCtx(t, w, moved) ==
  /\ made # Ctxs /\ made' = made \cup {NewCtx}
  /\ home' = [c \in Ctxs |-> IF c = NewCtx \/ c = moved THEN w ELSE home[c]]
  /\ users' = Linked(w)
  /\ stack' = [stack EXCEPT ![NewCtx] = t]
  /\ ctx' = [ctx EXCEPT ![t] = NewCtx]

\* Until its worker, of phase p, takes its snapshot, a thread in ML code may
\* come to roots that nobody has enumerated.
SeenOn(t, p) == IF BeforeSnapshot(p) THEN seen \ {t} ELSE seen

\* sml_start of a new user thread.  A thread that starts behind the snapshot
\* of its worker has nothing to enumerate.  (Without memory for the context
\* the worker is left and entered again.)
Start(t, w) ==
  /\ at[t] = "new"
  /\ EnterWorker(t, w)
  /\ AddCtx(t, w, Nil)
  /\ ranges' = [ranges EXCEPT ![t] = 1]
  /\ Goto(t, "ml")
  /\ seen' = IF BeforeSnapshot(phase'[w]) THEN seen ELSE seen \cup {t}
  /\ UNCHANGED <<busy, scan, enum, strayed>>

\* sml_start of a thread that has a context, called by C code: an open range is
\* pushed, whatever the worker; user->worker and the flag stay.
Callback(t, w) ==
  /\ at[t] = "c" /\ ranges[t] < MaxRanges
  /\ EnterWorker(t, w)
  /\ ranges' = [ranges EXCEPT ![t] = @ + 1]
  /\ strayed' = IF home[ctx[t]] = w THEN strayed ELSE strayed \cup {t}
  /\ Goto(t, "ml")
  /\ seen' = SeenOn(t, phase'[w])
  /\ UNCHANGED <<ctxs, ctx, scan, enum>>

\* sml_leave.
Leave(t) ==
  /\ at[t] = "ml" /\ step[on[t]] = "idle"
  /\ on' = [on EXCEPT ![t] = Nil]
  /\ Goto(t, "c")
  /\ UNCHANGED <<rounds, ctxs, thread, scan, enum, seen>>

\* sml_end of a callback: the context is kept for the C code.
Return(t) ==
  /\ at[t] = "ml" /\ step[on[t]] = "idle" /\ ranges[t] > 1
  /\ ranges' = [ranges EXCEPT ![t] = @ - 1]
  /\ on' = [on EXCEPT ![t] = Nil]
  /\ Goto(t, "c")
  /\ UNCHANGED <<rounds, ctxs, ctx, scan, enum, seen, strayed>>

\* sml_end of the last range: the context is dead, the list keeps it.
End(t) ==
  /\ at[t] = "ml" /\ step[on[t]] = "idle" /\ ranges[t] = 1
  /\ ranges' = [ranges EXCEPT ![t] = 0]
  /\ home' = [home EXCEPT ![ctx[t]] = Nil]
  /\ on' = [on EXCEPT ![t] = Nil]
  /\ Goto(t, "gone")
  /\ seen' = seen \ {t} /\ strayed' = strayed \ {t}
  /\ UNCHANGED <<rounds, made, busy, users, stack, ctx, scan, enum>>

\* cancel_user: the flag is awaited, then the context is dead.
Cancel(t) ==
  /\ at[t] = "c" /\ ctx[t] \notin busy
  /\ home' = [home EXCEPT ![ctx[t]] = Nil]
  /\ Goto(t, "gone")
  /\ ranges' = [ranges EXCEPT ![t] = 0]
  /\ seen' = seen \ {t} /\ strayed' = strayed \ {t}
  /\ UNCHANGED <<rounds, made, busy, users, stack, ctx, on, scan, enum>>

\* sml_enter: on the same worker the thread just goes on.
Enter(t, w) ==
  /\ at[t] = "c"
  /\ EnterWorker(t, w)
  /\ IF home[ctx[t]] = w THEN Goto(t, "ml") /\ seen' = SeenOn(t, phase'[w])
     ELSE Goto(t, "stolen") /\ UNCHANGED seen
  /\ UNCHANGED <<ctxs, thread, scan, enum>>

\* sml_alloc_important fails: the thread leaves and tries again.
EnterRetry(t) ==
  /\ at[t] = "stolen"
  /\ on' = [on EXCEPT ![t] = Nil]
  /\ Goto(t, "c")
  /\ UNCHANGED <<rounds, ctxs, thread, scan, enum, seen>>

\* Mutant: SYNC1 is left out.
LocksFromSync2(p) == PRESYNC2 <= p /\ p <= SYNC2

\* Another worker may be in its SYNC2 action.
MustLock(p) == SYNC1 <= p /\ p <= SYNC2

\* Mutant: a stolen thread leaves its stack to the old worker.
NeverItself(p) == FALSE

\* The new worker is through with its own list, so nobody else will do it.
EnumeratesItself(p) == p = SYNC2

\* The phase of the new worker is read once.
ReadPhase(t) ==
  /\ at[t] = "stolen" /\ made # Ctxs
  /\ LET p == phase[on[t]] IN
     Goto(t, IF ~MustLock(p) THEN "plain"
             ELSE IF EnumeratesItself(p) THEN "lock2" ELSE "lock")
  /\ UNCHANGED <<rounds, ctxs, thread, on, scan, enum, seen>>

\* acquire_bit; in SYNC2 the thread then enumerates its own stack.
TryLock(t) ==
  /\ at[t] \in {"lock", "lock2"}
  /\ IF ctx[t] \in busy
     THEN Goto(t, "spin") /\ UNCHANGED busy
     ELSE /\ busy' = busy \cup {ctx[t]}
          /\ Goto(t, IF at[t] = "lock2" THEN "enum" ELSE "move")
  /\ UNCHANGED <<rounds, made, home, users, stack, thread, on, scan, enum, seen>>

\* The old worker is enumerating the stack; wait for it.
Spin(t) ==
  /\ at[t] = "spin" /\ ctx[t] \notin busy
  /\ busy' = busy \cup {ctx[t]}
  /\ Goto(t, "move")
  /\ UNCHANGED <<rounds, made, home, users, stack, thread, on, scan, enum,
                 seen>>

\* sml_heap_user_sync2 by the thread itself.
EnumSelf(t) ==
  /\ at[t] = "enum"
  /\ seen' = seen \cup {t}
  /\ Goto(t, "move")
  /\ UNCHANGED <<rounds, ctxs, thread, on, scan, enum>>

\* Mutant: user->worker is left as it is.
KeepsHome(t) == Nil

\* The context whose worker is changed, so that the old worker drops it.
Redirects(t) == ctx[t]

\* user->worker, the flag, and the copy of the context.
Move(t) ==
  /\ \/ at[t] = "move" /\ busy' = busy \ {ctx[t]}
     \/ at[t] = "plain" /\ UNCHANGED busy
  /\ AddCtx(t, on[t], Redirects(t))
  /\ Goto(t, "ml")
  /\ seen' = SeenOn(t, phase[on[t]])
  /\ UNCHANGED <<rounds, ranges, on, scan, enum, strayed>>

-----------------------------------------------------------------------------
(* The actions of the workers.                                              *)

\* A worker answers by itself, when its thread polls, or is helped.
Ready(w) == /\ step[w] = "idle"
            /\ \A t \in Threads : on[t] = w => at[t] = "ml"

Accepts(w, r) == w \in waiting /\ phase[w] = Pre(r) /\ round = r /\ Ready(w)

\* SYNC1, MARK and ASYNC do nothing to the users.
Answer(w, r) ==
  /\ r \in {SYNC1, MARK, ASYNC} /\ Accepts(w, r)
  /\ phase' = [phase EXCEPT ![w] = r]
  /\ Respond(w)
  /\ UNCHANGED <<unsent, gc, ctxs, thread, at, on, scan, enum, seen>>

\* worker_sync2: the list is visited, ...
Sync2(w) ==
  /\ Accepts(w, SYNC2)
  /\ phase' = [phase EXCEPT ![w] = SYNC2]
  /\ step' = [step EXCEPT ![w] = "visit"]
  /\ todo' = [todo EXCEPT ![w] = users[w]]
  /\ UNCHANGED <<members, round, waiting, unsent, gc, ctxs, thread, at, on,
                 visiting, enum, seen>>

\* ... a user whose flag is set is put off, ...
LockUser(w, c) ==
  /\ step[w] = "visit" /\ c \in todo[w] \ busy
  /\ busy' = busy \cup {c}
  /\ visiting' = [visiting EXCEPT ![w] = c]
  /\ step' = [step EXCEPT ![w] = "check"]
  /\ UNCHANGED <<rounds, made, home, users, stack, thread, at, on, todo, enum,
                 seen>>

\* The user still belongs to the worker.
Ours(w, c) == home[c] = w

\* ... a user that has moved on is dropped, with its flag set, ...
DropUser(w) ==
  /\ step[w] = "check" /\ ~Ours(w, visiting[w])
  /\ users' = [users EXCEPT ![w] = @ \ {visiting[w]}]
  /\ todo' = [todo EXCEPT ![w] = @ \ {visiting[w]}]
  /\ step' = [step EXCEPT ![w] = "visit"]
  /\ UNCHANGED <<rounds, made, home, busy, stack, thread, at, on, visiting,
                 enum, seen>>

\* Thread t has no open stack range when worker w walks its stack: sml_leave
\* closes the newest one for everybody, a poll for the thread's own worker.
Closed(t, w) == at[t] = "ml" => on[t] = w

\* ... and the stack of the others is enumerated.
EnumUser(w) ==
  /\ step[w] = "check" /\ Ours(w, visiting[w])
  /\ enum' = enum \cup {<<w, stack[visiting[w]]>>}
  /\ step' = [step EXCEPT ![w] = "enum"]
  /\ UNCHANGED <<rounds, ctxs, thread, at, on, todo, visiting, seen>>

\* Mutant: the flag stays set.
StillBusy(c) == busy

\* The flag is cleared.
Released(c) == busy \ {c}

\* store_release of the flag.  An open range has given no roots: the walk fails
\* its assertion, or follows the NULL top.
EnumDone(w) ==
  /\ step[w] = "enum"
  /\ LET c == visiting[w] IN
     /\ enum' = enum \ {<<w, stack[c]>>}
     /\ seen' = IF Closed(stack[c], w) THEN seen \cup {stack[c]} ELSE seen
     /\ busy' = Released(c)
     /\ todo' = [todo EXCEPT ![w] = @ \ {c}]
  /\ step' = [step EXCEPT ![w] = "visit"]
  /\ UNCHANGED <<rounds, made, home, users, stack, thread, at, on, visiting>>

Sync2Done(w) ==
  /\ step[w] = "visit" /\ todo[w] = {}
  /\ step' = [step EXCEPT ![w] = "idle"]
  /\ Respond(w)
  /\ UNCHANGED <<phase, unsent, gc, ctxs, thread, at, on, todo, visiting,
                 enum, seen>>

Signal(w) ==
  /\ w \in unsent
  /\ unsent' = unsent \ {w}
  /\ phase' = [phase EXCEPT ![w] = Pre(round)]
  /\ UNCHANGED <<members, round, waiting, gc, ctxs, thread, at, on, scan,
                 enum, seen>>

\* In ML code on a worker that is not user->worker.
Astray(t) == at[t] = "ml" /\ home[ctx[t]] # on[t]

NextRound(r) ==
  /\ r # MARK \/ round # MARK
  /\ Begin(r) /\ unsent' = members
  /\ IF round = ASYNC THEN gc < MaxGC /\ gc' = gc + 1 ELSE UNCHANGED gc
  /\ seen' = IF r = SYNC1 THEN {} ELSE seen
  /\ strayed' = IF r = SYNC1 THEN {t \in strayed : Astray(t)} ELSE strayed
  /\ UNCHANGED <<phase, ctxs, ctx, ranges, at, on, scan, enum>>

User(t) ==
  \/ \E w \in Workers : Start(t, w) \/ Callback(t, w) \/ Enter(t, w)
  \/ Leave(t) \/ Return(t) \/ End(t) \/ Cancel(t) \/ EnterRetry(t) \/ ReadPhase(t) \/ TryLock(t)
  \/ Spin(t) \/ EnumSelf(t) \/ Move(t)

Worker(w) ==
  \/ Sync2(w) \/ DropUser(w) \/ EnumUser(w) \/ EnumDone(w) \/ Sync2Done(w)
  \/ Signal(w)
  \/ \E c \in Ctxs : LockUser(w, c)
  \/ \E r \in Phases : Answer(w, r)

Next == \/ \E t \in Threads : User(t)
        \/ \E w \in Workers : Worker(w)
        \/ \E r \in Phases : NextRound(r)

Spec == Init /\ [][Next]_vars

-----------------------------------------------------------------------------
\* Every variable has the type of the field it stands for, and a thread in
\* ML code has a worker of its own.
TypeOK ==
  /\ home \in [Ctxs -> Workers \cup {Nil}] /\ busy \subseteq made
  /\ users \in [Workers -> SUBSET made] /\ unsent \subseteq waiting
  /\ ctx \in [Threads -> made \cup {Nil}]
  /\ \A t, u \in Threads : t # u /\ on[t] # Nil => on[t] # on[u]

\* sml_stack_enum_ptr: "all stack ranges should be closed".  They are not: a
\* thread may have called back on another worker.
StackIsClosed == \A e \in enum : Closed(e[2], e[1])

\* sml_stack_enum_ptr walks the frames of a thread that is alive and, unless it
\* called back on another worker in this collection, not running.
ClosedStack ==
  \A e \in enum : at[e[2]] # "gone" /\ (Closed(e[2], e[1]) \/ e[2] \in strayed)

\* No stack is walked by two workers at a time.
OneWalker == \A d, e \in enum : d[2] = e[2] => d = e

\* The roots of t are needed: it runs behind the snapshot of its worker, or the
\* snapshots are complete.
RootsNeeded(t) ==
  round = MARK \/ (at[t] = "ml" /\ phase[on[t]] = SYNC2 /\ step[on[t]] = "idle")

\* A thread's stack has been enumerated before the thread goes on behind its
\* worker's snapshot and before MARK begins, whoever it was stolen from and by,
\* and as it was when it last ran before a snapshot; unless it called back on
\* another worker in this collection.
AllSeen ==
  \A t \in Threads : RootsNeeded(t) =>
    at[t] \in {"new", "gone"} \/ t \in seen \cup strayed

\* A context that is in use is on the list of its worker, so that the next
\* SYNC2 finds it; it is redirected before it is copied.
Listed ==
  \A t \in Threads : at[t] \in {"c", "ml"} => ctx[t] \in users[home[ctx[t]]]

\* A user context is of its type and, while in use, on the list of its worker.
UsersListed == TypeOK /\ Listed

-----------------------------------------------------------------------------
(* Progress: threads run, but a thread in C code need not come back.        *)

Fairness ==
  /\ \A t \in Threads : WF_vars(ReadPhase(t) \/ TryLock(t) \/ EnumSelf(t)
                                  \/ Move(t))
                        /\ SF_vars(Spin(t))
  /\ \A w \in Workers : WF_vars(Worker(w)) /\ \A c \in Ctxs : SF_vars(LockUser(w, c))

\* A stolen thread does not wait for BUSY_FLAG forever, although the worker
\* that drops a context never clears the flag.
StealEnds == \A t \in Threads : at[t] = "spin" ~> at[t] # "spin"
=============================================================================
