----------------------------- MODULE MCProgress ------------------------------
(* What must happen in the end: waits for the collector, busy loops on a user *)
(* context, check hooks and finalizers.  The four components share no state;  *)
(* a behaviour is one of one of them (component), and each property states    *)
(* the fairness of its component.  Signals is checked for safety here too.    *)
(*                                                                            *)
(* The handshake is that of programs whose threads do not leave ML code while *)
(* a collection runs: a thread that is outside stays outside or comes back,   *)
(* and no signal handler outside ML code starts a collection.  Then the       *)
(* coordinator always holds its own worker, and sml_wait_gc returns.          *)
EXTENDS Signals

CONSTANTS MaxGC, MaxRetry,      \* Handshake
          Threads, Ctxs, MaxRanges, Nil,   \* UserMigration
          Mutators, BlockAddrs       \* Finalizers

VARIABLES component,
          phase, inactive, helper, canceled, dead, globalenum, users, live,
          available, newphase, handshake, check_flag, gc_count, retries,
          from, to, left, list, pc, ret, tgt, greedy, seen, snap, hTodo, wait,
          uMembers, uRound, uWaiting, uPhase, unsent, gc, made, home, busy, uUsers,
          stack, ctx, ranges, uAt, on, uTodo, step, visiting, enum, uSeen, strayed,
          used, held, set, limbs, fDead, cursor, lock, fGc, fPc, obj

hVars == <<phase, inactive, helper, canceled, dead, globalenum, users, live,
           available, newphase, handshake, check_flag, gc_count, retries,
           from, to, left, list, pc, ret, tgt, greedy, seen, snap, hTodo, wait>>
uVars == <<uMembers, uRound, uWaiting, uPhase, unsent, gc, made, home, busy, uUsers,
           stack, ctx, ranges, uAt, on, uTodo, step, visiting, enum, uSeen, strayed>>
fVars == <<used, held, set, limbs, fDead, cursor, lock, fGc, fPc, obj>>

H == INSTANCE Handshake WITH todo <- hTodo

\* One thread that both workers may run, with two contexts and one collection, and
\* one of these more: a third context, a second collection, calls back from C code.
U == INSTANCE UserMigration WITH
       Members0 <- Workers, members <- uMembers, round <- uRound, waiting <- uWaiting,
       phase <- uPhase, users <- uUsers, at <- uAt, todo <- uTodo, seen <- uSeen

F == INSTANCE Finalizers WITH dead <- fDead, gc <- fGc, pc <- fPc

ASSUME F!FinalizerConstants

CalmMutator(t) ==
  \/ H!Register(t) \/ H!Enter(t) \/ H!Cancel(t)
  \/ H!GCIdle /\ (H!Leave(t) \/ H!End(t) \/ H!EnterRetry(t))
  \/ H!StartGC(t, TRUE) \/ H!JoinGC(t)
  \/ pc[t] # "out" /\ H!StartGC(t, FALSE)

CalmNext == \/ \E t \in Workers : CalmMutator(t) \/ H!Poll(t) \/ H!Runtime(t)
            \/ H!Finished

MCInit == /\ component \in {"handshake", "users", "signals", "finalizers"}
          /\ Init /\ H!Init /\ U!Init /\ F!Init

MCNext ==
  /\ \/ component = "signals"    /\ Next     /\ UNCHANGED <<hVars, uVars, fVars>>
     \/ component = "handshake"  /\ CalmNext /\ UNCHANGED <<vars, uVars, fVars>>
     \/ /\ component = "users"   /\ U!Next   /\ UNCHANGED <<vars, hVars, fVars>>
        /\ \/ Cardinality(made') <= 2 /\ gc' <= 1
           \/ (\A t \in Threads : ranges'[t] <= 1) /\ (made' # Ctxs \/ gc' <= 1)
     \/ component = "finalizers" /\ F!Next   /\ UNCHANGED <<vars, hVars, uVars>>
  /\ UNCHANGED component

MCSpec == MCInit /\ [][MCNext]_<<vars, hVars, uVars, fVars, component>>

------------------------------------------------------------------------------
\* sml_wait_gc returns, if threads inside the runtime are scheduled and
\* compiled code polls.
GCWaitEnds == H!Fairness => H!WaitEnds

\* A stolen thread does not wait for BUSY_FLAG forever, although the worker
\* that drops a context never clears the flag.
StealEnds == U!Fairness => U!StealEnds

\* A check hook that is set while its thread has still to poll in a collection is
\* called in that collection, unless the thread stays outside ML code.
HookIsCalled == []TypeOK /\ (Fairness => HookRuns)

\* An object with a finalizer that a collection found dead is finalized, and no
\* integer is cleared twice or before it was initialised.
DeadIsFinalized == F!ClearsOnce /\ (F!Fairness => F!DeadIsFinalized)
==============================================================================
