------------------------ MODULE UserMigrationProofs --------------------------
(***************************************************************************)
(* Proofs about UserMigration, for any number of workers, threads and      *)
(* contexts: no stack is walked by two workers or after its thread's end,  *)
(* and none is walked while its thread runs or overlooked, unless that     *)
(* thread called back on another worker.  UInv is the inductive invariant. *)
(***************************************************************************)
EXTENDS UserMigration, TLAPS

\* The steps of sml_enter on another worker, and all values of at.
Stealing == {"stolen", "plain", "lock", "lock2", "spin", "enum", "move"}
Labels   == {"new", "c", "ml", "gone"} \cup Stealing

\* Thread t has a context that is in use.
Alive(t) == at[t] \notin {"new", "gone"}

\* The types of the rest.
Shape ==
  /\ members \subseteq Workers /\ waiting \subseteq members
  /\ round \in {ASYNC, SYNC1, SYNC2, MARK}
  /\ phase \in [Workers -> Phases]
  /\ made \subseteq Ctxs /\ stack \in [Ctxs -> Threads \cup {Nil}]
  /\ at \in [Threads -> Labels] /\ on \in [Threads -> members \cup {Nil}]
  /\ todo \in [Workers -> SUBSET made]
  /\ step \in [Workers -> {"idle", "visit", "check", "enum"}]
  /\ visiting \in [Workers -> Ctxs \cup {Nil}]
  /\ ranges \in [Threads -> Nat] /\ strayed \subseteq Threads

\* A thread has a worker exactly while it is in ML code or about to be.
OnInv == \A t \in Threads : on[t] # Nil <=> at[t] \in {"ml"} \cup Stealing

\* Where each worker is in the round.
PhaseInv ==
  \A w \in members :
    /\ w \notin waiting => phase[w] = round
    /\ w \in unsent =>
         <<phase[w], round>> \in {<<ASYNC, SYNC1>>, <<SYNC1, SYNC2>>, <<SYNC2, MARK>>,
                                 <<MARK, ASYNC>>}
    /\ w \in waiting \ unsent =>
         phase[w] = (IF step[w] = "idle" THEN Pre(round) ELSE SYNC2)

\* An action of worker_sync2 is under way only in SYNC2.
StepInv == \A w \in Workers : step[w] # "idle" => w \in waiting \ unsent /\ round = SYNC2

\* The context of a thread is on the list of its worker, and there no other
\* context is taken for one in use.  Only a callback runs on another worker.
CtxInv ==
  /\ \A t \in Threads : Alive(t) =>
       /\ ctx[t] \in made /\ stack[ctx[t]] = t /\ home[ctx[t]] \in members
       /\ ctx[t] \in users[home[ctx[t]]]
       /\ ranges[t] # 0
       /\ Astray(t) => t \in strayed /\ ranges[t] > 1
       /\ at[t] \in Stealing => home[ctx[t]] # on[t]
  /\ \A v, w \in Workers : v # w => users[v] \cap users[w] = {}
  /\ \A w \in Workers : \A c \in users[w] :
       home[c] = w => stack[c] \in Threads /\ Alive(stack[c]) /\ ctx[stack[c]] = c

\* worker_sync2 holds the flag of the user it visits.
VisitInv ==
  /\ \A w \in Workers :
       /\ todo[w] \subseteq users[w]
       /\ step[w] \in {"check", "enum"} => visiting[w] \in todo[w] \cap busy
       /\ step[w] = "enum" => home[visiting[w]] = w
  /\ \A e \in enum : /\ e \in Workers \X Threads /\ step[e[1]] = "enum"
                     /\ e[2] = stack[visiting[e[1]]]

\* The flag of c is held by worker_sync2 of w.
Visits(w, c) == step[w] \in {"check", "enum"} /\ visiting[w] = c

\* A flag of a context in use has one holder.
HoldInv ==
  \A t \in Threads :
    /\ at[t] \in {"enum", "move"} => /\ ctx[t] \in busy
                                     /\ \A w \in Workers : ~Visits(w, ctx[t])
    /\ Alive(t) /\ ctx[t] \in busy =>
         at[t] \in {"enum", "move"} \/ \E w \in Workers : Visits(w, ctx[t])

\* What a thread that is stolen has read of its new worker's phase.
StealInv ==
  \A t \in Threads :
    /\ at[t] = "plain" => ~MustLock(phase[on[t]])
    /\ at[t] = "lock" => phase[on[t]] \in {SYNC1, PRESYNC2}
    /\ at[t] \in {"lock2", "enum"} => phase[on[t]] \in {SYNC2, PREMARK}
    /\ at[t] \in {"spin", "move"} => phase[on[t]] \in SYNC1..PREMARK

\* Who is going to see a thread that has not been seen yet.
SeenInv ==
  /\ round = MARK => \A t \in Threads : Alive(t) => t \in seen \cup strayed
  /\ round = SYNC2 => \A t \in Threads : Alive(t) /\ t \notin seen \cup strayed =>
       /\ \/ phase[home[ctx[t]]] # SYNC2
          \/ step[home[ctx[t]]] # "idle" /\ ctx[t] \in todo[home[ctx[t]]]
       /\ at[t] = "spin" /\ phase[on[t]] = SYNC2 => \E w \in Workers : Visits(w, ctx[t])
       /\ at[t] = "move" => phase[on[t]] # SYNC2

\* The inductive invariant.
UInv == /\ TypeOK /\ Shape /\ OnInv /\ PhaseInv /\ StepInv /\ CtxInv /\ VisitInv
        /\ HoldInv /\ StealInv /\ SeenInv

-----------------------------------------------------------------------------
USE DEF ASYNC, PRESYNC1, SYNC1, PRESYNC2, SYNC2, PREMARK, MARK, PREASYNC, Phases, Pre

(* sml_alloc_important: a new context is none of those in use.              *)
LEMMA NewCtxFresh ==
  ASSUME Shape, made # Ctxs
  PROVE  NewCtx \in Ctxs /\ NewCtx \notin made
BY DEF Shape, NewCtx

(* At the start nobody has a context.                                       *)
LEMMA InitInv == Init => UInv
<1> SUFFICES ASSUME Init PROVE UInv
  OBVIOUS
<1> USE UserConstants DEF Init
<1>1. TypeOK  BY DEF TypeOK
<1>2. Shape  BY DEF Shape, Labels, Stealing
<1>3. OnInv  BY DEF OnInv, Labels, Stealing
<1>4. PhaseInv  BY DEF PhaseInv
<1>5. StepInv  BY DEF StepInv
<1>6. CtxInv  BY DEF CtxInv, Alive, Labels, Stealing
<1>7. VisitInv  BY DEF VisitInv
<1>8. HoldInv  BY DEF HoldInv, Alive, Visits
<1>9. StealInv  BY DEF StealInv, MustLock, Labels, Stealing
<1>10. SeenInv  BY DEF SeenInv, Alive, Visits
<1> QED BY <1>1, <1>2, <1>3, <1>4, <1>5, <1>6, <1>7, <1>8, <1>9, <1>10 DEF UInv

(***************************************************************************)
(* One lemma for each action, one step for each part of the invariant; a   *)
(* step names the other parts it needs.                                    *)
(***************************************************************************)

(* sml_leave                                                                *)
LEMMA LeaveInv ==
  ASSUME UInv, NEW t \in Threads, Leave(t)
  PROVE  UInv'
<1> USE UserConstants DEF UInv, Astray, thread, Leave, Goto, rounds, ctxs,
      scan, Labels, Stealing
<1>1. TypeOK'  BY DEF TypeOK
<1>2. Shape'  BY DEF Shape
<1>3. OnInv'  BY DEF Shape, OnInv
<1>4. PhaseInv'  BY DEF PhaseInv
<1>5. StepInv'  BY DEF StepInv
<1>6. CtxInv'  BY DEF Shape, CtxInv, Alive
<1>7. VisitInv'  BY DEF VisitInv
<1>8. HoldInv'  BY DEF HoldInv, Alive, Visits
<1>9. StealInv'  BY DEF StealInv, MustLock
<1>10. SeenInv'  BY DEF SeenInv, Alive, Visits
<1> QED BY <1>1, <1>2, <1>3, <1>4, <1>5, <1>6, <1>7, <1>8, <1>9, <1>10

(* sml_end of the last range                                                *)
LEMMA EndInv ==
  ASSUME UInv, NEW t \in Threads, End(t)
  PROVE  UInv'
<1> USE UserConstants DEF UInv, Astray, thread, End, Goto, rounds, scan,
      Labels, Stealing
<1>1. TypeOK'  BY DEF TypeOK, Shape
<1>2. Shape'  BY DEF Shape
<1>3. OnInv'  BY DEF Shape, OnInv
<1>4. PhaseInv'  BY DEF PhaseInv
<1>5. StepInv'  BY DEF StepInv
<1>6. CtxInv'  BY DEF TypeOK, Shape, CtxInv, Alive
<1>7. VisitInv'  BY DEF CtxInv, VisitInv, Alive
<1>8. HoldInv'  BY DEF HoldInv, Alive, Visits
<1>9. StealInv'  BY DEF StealInv, MustLock
<1>10. SeenInv'  BY DEF Shape, CtxInv, SeenInv, Alive, Visits
<1> QED BY <1>1, <1>2, <1>3, <1>4, <1>5, <1>6, <1>7, <1>8, <1>9, <1>10

(* sml_end of a callback                                                    *)
LEMMA ReturnInv ==
  ASSUME UInv, NEW t \in Threads, Return(t)
  PROVE  UInv'
<1> USE UserConstants DEF UInv, Astray, thread, Return, Goto, rounds, ctxs,
      scan, Labels, Stealing
<1>1. TypeOK'  BY DEF TypeOK
<1>2. Shape'  BY DEF Shape
<1>3. OnInv'  BY DEF Shape, OnInv
<1>4. PhaseInv'  BY DEF PhaseInv
<1>5. StepInv'  BY DEF StepInv
<1>6. CtxInv'  BY DEF Shape, CtxInv, Alive
<1>7. VisitInv'  BY DEF VisitInv
<1>8. HoldInv'  BY DEF HoldInv, Alive, Visits
<1>9. StealInv'  BY DEF StealInv, MustLock
<1>10. SeenInv'  BY DEF SeenInv, Alive, Visits
<1> QED BY <1>1, <1>2, <1>3, <1>4, <1>5, <1>6, <1>7, <1>8, <1>9, <1>10

(* cancel_user                                                              *)
LEMMA CancelInv ==
  ASSUME UInv, NEW t \in Threads, Cancel(t)
  PROVE  UInv'
<1> USE UserConstants DEF UInv, Astray, thread, Cancel, Goto, rounds, scan,
      Labels, Stealing
<1>1. TypeOK'  BY DEF TypeOK
<1>2. Shape'  BY DEF Shape
<1>3. OnInv'  BY DEF OnInv
<1>4. PhaseInv'  BY DEF PhaseInv
<1>5. StepInv'  BY DEF StepInv
<1>6. CtxInv'  BY DEF TypeOK, Shape, CtxInv, Alive
<1>7. VisitInv'  BY DEF VisitInv
<1>8. HoldInv'  BY DEF HoldInv, Alive, Visits
<1>9. StealInv'  BY DEF StealInv, MustLock
<1>10. SeenInv'  BY DEF Shape, CtxInv, SeenInv, Alive, Visits
<1> QED BY <1>1, <1>2, <1>3, <1>4, <1>5, <1>6, <1>7, <1>8, <1>9, <1>10

(* sml_enter without memory                                                 *)
LEMMA EnterRetryInv ==
  ASSUME UInv, NEW t \in Threads, EnterRetry(t)
  PROVE  UInv'
<1> USE UserConstants DEF UInv, Astray, thread, EnterRetry, Goto, rounds,
      ctxs, scan, Labels, Stealing
<1>1. TypeOK'  BY DEF TypeOK
<1>2. Shape'  BY DEF Shape
<1>3. OnInv'  BY DEF Shape, OnInv
<1>4. PhaseInv'  BY DEF PhaseInv
<1>5. StepInv'  BY DEF StepInv
<1>6. CtxInv'  BY DEF Shape, CtxInv, Alive
<1>7. VisitInv'  BY DEF VisitInv
<1>8. HoldInv'  BY DEF HoldInv, Alive, Visits
<1>9. StealInv'  BY DEF StealInv, MustLock
<1>10. SeenInv'  BY DEF SeenInv, Alive, Visits
<1> QED BY <1>1, <1>2, <1>3, <1>4, <1>5, <1>6, <1>7, <1>8, <1>9, <1>10

(* the read of the new worker's phase                                       *)
LEMMA ReadPhaseInv ==
  ASSUME UInv, NEW t \in Threads, ReadPhase(t)
  PROVE  UInv'
<1> USE UserConstants DEF UInv, Astray, thread, ReadPhase, MustLock,
      EnumeratesItself, Goto, rounds, ctxs, scan, Labels, Stealing
<1>1. TypeOK'  BY DEF TypeOK
<1>2. Shape'  BY DEF Shape
<1>3. OnInv'  BY DEF OnInv
<1>4. PhaseInv'  BY DEF PhaseInv
<1>5. StepInv'  BY DEF StepInv
<1>6. CtxInv'  BY DEF CtxInv, Alive
<1>7. VisitInv'  BY DEF VisitInv
<1>8. HoldInv'  BY DEF HoldInv, Alive, Visits
<1>9. StealInv'  BY DEF Shape, OnInv, StealInv, MustLock
<1>10. SeenInv'  BY DEF SeenInv, Alive, Visits
<1> QED BY <1>1, <1>2, <1>3, <1>4, <1>5, <1>6, <1>7, <1>8, <1>9, <1>10

(* acquire_bit                                                              *)
LEMMA TryLockInv ==
  ASSUME UInv, NEW t \in Threads, TryLock(t)
  PROVE  UInv'
<1> USE UserConstants DEF UInv, Astray, thread, TryLock, Goto, rounds, scan,
      Labels, Stealing
<1>1. TypeOK'  BY DEF TypeOK, CtxInv, Alive
<1>2. Shape'  BY DEF Shape
<1>3. OnInv'  BY DEF Shape, OnInv
<1>4. PhaseInv'  BY DEF PhaseInv
<1>5. StepInv'  BY DEF StepInv
<1>6. CtxInv'  BY DEF Shape, CtxInv, Alive
<1>7. VisitInv'  BY DEF VisitInv
<1>8. HoldInv'  BY DEF Shape, CtxInv, VisitInv, HoldInv, Alive, Visits
<1>9. StealInv'  BY DEF Shape, StealInv, MustLock
<1>10. SeenInv'  BY DEF Shape, HoldInv, StealInv, SeenInv, Alive, Visits,
      MustLock
<1> QED BY <1>1, <1>2, <1>3, <1>4, <1>5, <1>6, <1>7, <1>8, <1>9, <1>10

(* the busy loop                                                            *)
LEMMA SpinInv ==
  ASSUME UInv, NEW t \in Threads, Spin(t)
  PROVE  UInv'
<1> USE UserConstants DEF UInv, Astray, thread, Spin, Goto, rounds, scan,
      Labels, Stealing
<1>1. TypeOK'  BY DEF TypeOK, CtxInv, Alive
<1>2. Shape'  BY DEF Shape
<1>3. OnInv'  BY DEF OnInv
<1>4. PhaseInv'  BY DEF PhaseInv
<1>5. StepInv'  BY DEF StepInv
<1>6. CtxInv'  BY DEF CtxInv, Alive
<1>7. VisitInv'  BY DEF VisitInv
<1>8. HoldInv'  BY DEF Shape, CtxInv, VisitInv, HoldInv, Alive, Visits
<1>9. StealInv'  BY DEF StealInv, MustLock
<1>10. SeenInv'  BY DEF VisitInv, SeenInv, Alive, Visits
<1> QED BY <1>1, <1>2, <1>3, <1>4, <1>5, <1>6, <1>7, <1>8, <1>9, <1>10

(* a stolen thread enumerating its own stack                                *)
LEMMA EnumSelfInv ==
  ASSUME UInv, NEW t \in Threads, EnumSelf(t)
  PROVE  UInv'
<1> USE UserConstants DEF UInv, Astray, thread, EnumSelf, Goto, rounds, ctxs,
      scan, Labels, Stealing
<1>1. TypeOK'  BY DEF TypeOK
<1>2. Shape'  BY DEF Shape
<1>3. OnInv'  BY DEF OnInv
<1>4. PhaseInv'  BY DEF PhaseInv
<1>5. StepInv'  BY DEF StepInv
<1>6. CtxInv'  BY DEF CtxInv, Alive
<1>7. VisitInv'  BY DEF VisitInv
<1>8. HoldInv'  BY DEF HoldInv, Alive, Visits
<1>9. StealInv'  BY DEF StealInv, MustLock
<1>10. SeenInv'  BY DEF SeenInv, Alive, Visits
<1> QED BY <1>1, <1>2, <1>3, <1>4, <1>5, <1>6, <1>7, <1>8, <1>9, <1>10

(* sml_enter                                                                *)
LEMMA EnterInv ==
  ASSUME UInv, NEW t \in Threads, NEW w \in Workers, Enter(t, w)
  PROVE  UInv'
<1> USE UserConstants DEF UInv, Astray, thread, Enter, EnterWorker, Join,
      Inactive, Goto, SeenOn, BeforeSnapshot, ctxs, scan, Labels, Stealing
<1>1. TypeOK'  BY DEF TypeOK
<1>2. Shape'  BY DEF Shape
<1>3. OnInv'  BY DEF Shape, OnInv
<1>4. PhaseInv'  BY DEF TypeOK, Shape, PhaseInv
<1>5. StepInv'  BY DEF StepInv
<1>6. CtxInv'  BY DEF Shape, CtxInv, Alive
<1>7. VisitInv'  BY DEF VisitInv
<1>8. HoldInv'  BY DEF Shape, HoldInv, Alive, Visits
<1>9. StealInv'  BY DEF Shape, OnInv, StealInv, MustLock
<1>10. SeenInv'  BY DEF TypeOK, Shape, OnInv, PhaseInv, StepInv, CtxInv, SeenInv,
      Alive, Visits
<1> QED BY <1>1, <1>2, <1>3, <1>4, <1>5, <1>6, <1>7, <1>8, <1>9, <1>10

(* sml_start                                                                *)
LEMMA StartInv ==
  ASSUME UInv, NEW t \in Threads, NEW w \in Workers, Start(t, w)
  PROVE  UInv'
<1>0. NewCtx \in Ctxs /\ NewCtx \notin made
  BY NewCtxFresh DEF UInv, Start, AddCtx
<1> USE <1>0, UserConstants DEF UInv, Astray, thread, Start, EnterWorker,
      Join, Inactive, BeforeSnapshot, Goto, AddCtx, Linked, scan, Labels,
      Stealing
<1>1. TypeOK'  BY DEF TypeOK
<1>2. Shape'  BY DEF Shape
<1>3. OnInv'  BY DEF Shape, OnInv
<1>4. PhaseInv'  BY DEF TypeOK, Shape, PhaseInv
<1>5. StepInv'  BY DEF StepInv
<1>6. CtxInv'  BY DEF TypeOK, Shape, CtxInv, Alive
<1>7. VisitInv'  BY DEF Shape, VisitInv
<1>8. HoldInv'  BY DEF TypeOK, HoldInv, Alive, Visits
<1>9. StealInv'  BY DEF Shape, OnInv, StealInv, MustLock
<1>10. SeenInv'  BY DEF TypeOK, Shape, OnInv, PhaseInv, CtxInv, SeenInv,
      Alive, Visits
<1> QED BY <1>1, <1>2, <1>3, <1>4, <1>5, <1>6, <1>7, <1>8, <1>9, <1>10

(* sml_start of a callback                                                  *)
LEMMA CallbackInv ==
  ASSUME UInv, NEW t \in Threads, NEW w \in Workers, Callback(t, w)
  PROVE  UInv'
<1> USE UserConstants DEF UInv, Astray, thread, Callback, EnterWorker, Join,
      Inactive, SeenOn, BeforeSnapshot, Goto, ctxs, scan, Labels, Stealing
<1>1. TypeOK'  BY DEF TypeOK
<1>2. Shape'  BY DEF Shape
<1>3. OnInv'  BY DEF Shape, OnInv
<1>4. PhaseInv'  BY DEF TypeOK, Shape, PhaseInv
<1>5. StepInv'  BY DEF StepInv
<1>6. CtxInv'
  <2>1. ranges[t] \in Nat /\ ranges[t] # 0 /\ ranges'[t] = ranges[t] + 1
    BY DEF Shape, CtxInv, Alive
  <2>2. ASSUME NEW u \in Threads, Astray(u)'
        PROVE  u \in strayed' /\ ranges'[u] > 1
    <3>1. CASE u = t
      <4>1. ranges'[u] > 1
        BY <2>1, <3>1
      <4>2. home[ctx[t]] # w
        BY <2>2, <3>1 DEF Shape
      <4> QED BY <3>1, <4>1, <4>2
    <3>2. CASE u # t
      BY <2>2, <3>2 DEF Shape, CtxInv, Alive
    <3> QED BY <3>1, <3>2
  <2> QED BY <2>1, <2>2 DEF Shape, CtxInv, Alive
<1>7. VisitInv'  BY DEF VisitInv
<1>8. HoldInv'  BY DEF HoldInv, Alive, Visits
<1>9. StealInv'  BY DEF Shape, OnInv, StealInv, MustLock
<1>10. SeenInv'  BY DEF Shape, OnInv, PhaseInv, CtxInv, SeenInv, Alive, Visits
<1> QED BY <1>1, <1>2, <1>3, <1>4, <1>5, <1>6, <1>7, <1>8, <1>9, <1>10

(* the copy of the context                                                  *)
LEMMA MoveInv ==
  ASSUME UInv, NEW t \in Threads, Move(t)
  PROVE  UInv'
<1>0. NewCtx \in Ctxs /\ NewCtx \notin made
  BY NewCtxFresh DEF UInv, Move, AddCtx
<1> USE <1>0, UserConstants DEF UInv, Astray, Move, AddCtx, Linked, Redirects,
      Goto, SeenOn, BeforeSnapshot, rounds, scan, Labels, Stealing
<1>1. TypeOK'  BY DEF TypeOK, Shape
<1>2. Shape'  BY DEF Shape
<1>3. OnInv'  BY DEF OnInv
<1>4. PhaseInv'  BY DEF PhaseInv
<1>5. StepInv'  BY DEF StepInv
<1>6. CtxInv'  BY DEF TypeOK, Shape, OnInv, CtxInv, Alive
<1>7. VisitInv'  BY DEF Shape, OnInv, PhaseInv, StepInv, VisitInv, HoldInv,
      StealInv, Alive, Visits, MustLock
<1>8. HoldInv'  BY DEF TypeOK, Shape, CtxInv, HoldInv, Alive, Visits
<1>9. StealInv'  BY DEF StealInv, MustLock
<1>10. SeenInv'  BY DEF TypeOK, Shape, OnInv, PhaseInv, StepInv, CtxInv, StealInv,
      SeenInv, Alive, MustLock, Visits
<1> QED BY <1>1, <1>2, <1>3, <1>4, <1>5, <1>6, <1>7, <1>8, <1>9, <1>10

(* an answer without work                                                   *)
LEMMA AnswerInv ==
  ASSUME UInv, NEW w \in Workers, NEW r \in Phases, Answer(w, r)
  PROVE  UInv'
<1> USE UserConstants DEF UInv, Astray, thread, Answer, Accepts, Ready,
      Respond, ctxs, scan, Labels, Stealing
<1>1. TypeOK'  BY DEF TypeOK, Shape, PhaseInv
<1>2. Shape'  BY DEF Shape
<1>3. OnInv'  BY DEF OnInv
<1>4. PhaseInv'  BY DEF Shape, PhaseInv
<1>5. StepInv'  BY DEF StepInv
<1>6. CtxInv'  BY DEF CtxInv, Alive
<1>7. VisitInv'  BY DEF VisitInv
<1>8. HoldInv'  BY DEF HoldInv, Alive, Visits
<1>9. StealInv'  BY DEF StealInv, MustLock
<1>10. SeenInv'  BY DEF SeenInv, Alive, Visits
<1> QED BY <1>1, <1>2, <1>3, <1>4, <1>5, <1>6, <1>7, <1>8, <1>9, <1>10

(* worker_sync2 begins                                                      *)
LEMMA Sync2Inv ==
  ASSUME UInv, NEW w \in Workers, Sync2(w)
  PROVE  UInv'
<1> USE UserConstants DEF UInv, Astray, thread, Sync2, Accepts, Ready, ctxs,
      Labels, Stealing
<1>1. TypeOK'  BY DEF TypeOK
<1>2. Shape'  BY DEF TypeOK, Shape
<1>3. OnInv'  BY DEF OnInv
<1>4. PhaseInv'  BY DEF Shape, PhaseInv
<1>5. StepInv'  BY DEF Shape, PhaseInv, StepInv
<1>6. CtxInv'  BY DEF CtxInv, Alive
<1>7. VisitInv'  BY DEF VisitInv
<1>8. HoldInv'  BY DEF HoldInv, Alive, Visits
<1>9. StealInv'  BY DEF StealInv, MustLock
<1>10. SeenInv'  BY DEF Shape, CtxInv, SeenInv, Alive, Visits
<1> QED BY <1>1, <1>2, <1>3, <1>4, <1>5, <1>6, <1>7, <1>8, <1>9, <1>10

(* worker_sync2 and the next user                                           *)
LEMMA LockUserInv ==
  ASSUME UInv, NEW w \in Workers, NEW c \in Ctxs, LockUser(w, c)
  PROVE  UInv'
<1> USE UserConstants DEF UInv, Astray, thread, LockUser, rounds, Labels,
      Stealing
<1>1. TypeOK'  BY DEF TypeOK, Shape
<1>2. Shape'  BY DEF Shape
<1>3. OnInv'  BY DEF OnInv
<1>4. PhaseInv'  BY DEF PhaseInv
<1>5. StepInv'  BY DEF StepInv
<1>6. CtxInv'  BY DEF CtxInv, Alive
<1>7. VisitInv'  BY DEF Shape, VisitInv
<1>8. HoldInv'  BY DEF Shape, HoldInv, Alive, Visits
<1>9. StealInv'  BY DEF StealInv, MustLock
<1>10. SeenInv'  BY DEF SeenInv, Alive, Visits
<1> QED BY <1>1, <1>2, <1>3, <1>4, <1>5, <1>6, <1>7, <1>8, <1>9, <1>10

(* a user that is no longer the worker's                                    *)
LEMMA DropUserInv ==
  ASSUME UInv, NEW w \in Workers, DropUser(w)
  PROVE  UInv'
<1> USE UserConstants DEF UInv, Astray, thread, DropUser, Ours, rounds,
      Labels, Stealing
<1>1. TypeOK'  BY DEF TypeOK
<1>2. Shape'  BY DEF Shape
<1>3. OnInv'  BY DEF OnInv
<1>4. PhaseInv'  BY DEF PhaseInv
<1>5. StepInv'  BY DEF StepInv
<1>6. CtxInv'  BY DEF CtxInv, Alive
<1>7. VisitInv'  BY DEF Shape, VisitInv
<1>8. HoldInv'  BY DEF Shape, CtxInv, VisitInv, HoldInv, Alive, Visits
<1>9. StealInv'  BY DEF StealInv, MustLock
<1>10. SeenInv'  BY DEF Shape, CtxInv, VisitInv, SeenInv, Alive,
      Visits
<1> QED BY <1>1, <1>2, <1>3, <1>4, <1>5, <1>6, <1>7, <1>8, <1>9, <1>10

(* a stack is enumerated                                                    *)
LEMMA EnumUserInv ==
  ASSUME UInv, NEW w \in Workers, EnumUser(w)
  PROVE  UInv'
<1> USE UserConstants DEF UInv, Astray, thread, EnumUser, Ours, rounds, ctxs,
      Labels, Stealing
<1>1. TypeOK'  BY DEF TypeOK
<1>2. Shape'  BY DEF Shape
<1>3. OnInv'  BY DEF OnInv
<1>4. PhaseInv'  BY DEF PhaseInv
<1>5. StepInv'  BY DEF StepInv
<1>6. CtxInv'  BY DEF CtxInv, Alive
<1>7. VisitInv'  BY DEF Shape, CtxInv, VisitInv, Alive
<1>8. HoldInv'  BY DEF HoldInv, Alive, Visits
<1>9. StealInv'  BY DEF StealInv, MustLock
<1>10. SeenInv'  BY DEF SeenInv, Alive, Visits
<1> QED BY <1>1, <1>2, <1>3, <1>4, <1>5, <1>6, <1>7, <1>8, <1>9, <1>10

(* the flag is released                                                     *)
LEMMA EnumDoneInv ==
  ASSUME UInv, NEW w \in Workers, EnumDone(w)
  PROVE  UInv'
<1> USE UserConstants DEF UInv, Astray, thread, EnumDone, Released, Closed,
      rounds, Labels, Stealing
<1>1. TypeOK'  BY DEF TypeOK
<1>2. Shape'  BY DEF Shape
<1>3. OnInv'  BY DEF OnInv
<1>4. PhaseInv'  BY DEF PhaseInv
<1>5. StepInv'  BY DEF StepInv
<1>6. CtxInv'  BY DEF CtxInv, Alive
<1>7. VisitInv'  BY DEF Shape, CtxInv, VisitInv, Alive
<1>8. HoldInv'  BY DEF HoldInv, Alive, Visits
<1>9. StealInv'  BY DEF StealInv, MustLock
<1>10. SeenInv'  BY DEF CtxInv, SeenInv, Alive, Visits
<1> QED BY <1>1, <1>2, <1>3, <1>4, <1>5, <1>6, <1>7, <1>8, <1>9, <1>10

(* worker_sync2 ends                                                        *)
LEMMA Sync2DoneInv ==
  ASSUME UInv, NEW w \in Workers, Sync2Done(w)
  PROVE  UInv'
<1> USE UserConstants DEF UInv, Astray, thread, Sync2Done, Respond, ctxs,
      Labels, Stealing
<1>1. TypeOK'  BY DEF TypeOK, StepInv
<1>2. Shape'  BY DEF Shape
<1>3. OnInv'  BY DEF OnInv
<1>4. PhaseInv'  BY DEF PhaseInv, StepInv
<1>5. StepInv'  BY DEF Shape, StepInv
<1>6. CtxInv'  BY DEF CtxInv, Alive
<1>7. VisitInv'  BY DEF VisitInv
<1>8. HoldInv'  BY DEF HoldInv, Alive, Visits
<1>9. StealInv'  BY DEF StealInv, MustLock
<1>10. SeenInv'  BY DEF SeenInv, Alive, Visits
<1> QED BY <1>1, <1>2, <1>3, <1>4, <1>5, <1>6, <1>7, <1>8, <1>9, <1>10

(* change_phase                                                             *)
LEMMA SignalInv ==
  ASSUME UInv, NEW w \in Workers, Signal(w)
  PROVE  UInv'
<1> USE UserConstants DEF UInv, Astray, thread, Signal, ctxs, scan, Labels,
      Stealing
<1>1. TypeOK'  BY DEF TypeOK
<1>2. Shape'  BY DEF Shape
<1>3. OnInv'  BY DEF OnInv
<1>4. PhaseInv'  BY DEF Shape, PhaseInv, StepInv
<1>5. StepInv'  BY DEF StepInv
<1>6. CtxInv'  BY DEF CtxInv, Alive
<1>7. VisitInv'  BY DEF VisitInv
<1>8. HoldInv'  BY DEF HoldInv, Alive, Visits
<1>9. StealInv'  BY DEF Shape, PhaseInv, StealInv, MustLock
<1>10. SeenInv'  BY DEF SeenInv, Alive, Visits
<1> QED BY <1>1, <1>2, <1>3, <1>4, <1>5, <1>6, <1>7, <1>8, <1>9, <1>10

(* global_phase                                                             *)
LEMMA NextRoundInv ==
  ASSUME UInv, NEW r \in Phases, NextRound(r)
  PROVE  UInv'
<1> USE UserConstants DEF UInv, Astray, thread, NextRound, Begin, ctxs, scan,
      Successors, Labels, Stealing
<1>1. TypeOK'  BY DEF TypeOK
<1>2. Shape'  BY DEF TypeOK, Shape, OnInv, PhaseInv, StepInv, CtxInv,
      VisitInv, HoldInv, StealInv, SeenInv, Alive, Visits, MustLock
<1>3. OnInv'  BY DEF OnInv
<1>4. PhaseInv'  BY DEF TypeOK, Shape, OnInv, PhaseInv, StepInv, CtxInv,
      VisitInv, HoldInv, StealInv, SeenInv, Alive, Visits, MustLock
<1>5. StepInv'  BY DEF StepInv
<1>6. CtxInv'  BY DEF CtxInv, Alive
<1>7. VisitInv'  BY DEF VisitInv
<1>8. HoldInv'  BY DEF HoldInv, Alive, Visits
<1>9. StealInv'  BY DEF StealInv, MustLock
<1>10. SeenInv'  BY DEF TypeOK, Shape, OnInv, PhaseInv, StepInv, CtxInv,
      VisitInv, HoldInv, StealInv, SeenInv, Alive, Visits, MustLock
<1> QED BY <1>1, <1>2, <1>3, <1>4, <1>5, <1>6, <1>7, <1>8, <1>9, <1>10

-----------------------------------------------------------------------------
(* A stuttering step changes nothing.                                       *)
LEMMA StutterInv == UInv /\ UNCHANGED vars => UInv'
BY DEF UInv, Astray, vars, TypeOK, Shape, OnInv, PhaseInv, StepInv, CtxInv, VisitInv,
      HoldInv, StealInv, SeenInv, Alive, Visits, MustLock, Labels, Stealing

(* Every step preserves the invariant.                                      *)
LEMMA NextInv == UInv /\ [Next]_vars => UInv'
<1> SUFFICES ASSUME UInv, [Next]_vars PROVE UInv'
  OBVIOUS
<1>1. CASE UNCHANGED vars
  BY <1>1, StutterInv
<1>2. CASE \E t \in Threads : User(t)
  <2>1. PICK t \in Threads : User(t)
    BY <1>2
  <2>2. CASE \E w \in Workers : Start(t, w) \/ Callback(t, w) \/ Enter(t, w)
    BY <2>2, StartInv, CallbackInv, EnterInv
  <2>3. CASE Leave(t) \/ Return(t) \/ End(t) \/ Cancel(t) \/ EnterRetry(t)
    BY <2>3, LeaveInv, ReturnInv, EndInv, CancelInv, EnterRetryInv
  <2>4. CASE ReadPhase(t) \/ TryLock(t) \/ Spin(t) \/ EnumSelf(t) \/ Move(t)
    BY <2>4, ReadPhaseInv, TryLockInv, SpinInv, EnumSelfInv, MoveInv
  <2> QED BY <2>1, <2>2, <2>3, <2>4 DEF User
<1>3. CASE \E w \in Workers : Worker(w)
  <2>1. PICK w \in Workers : Worker(w)
    BY <1>3
  <2>2. CASE Sync2(w) \/ Sync2Done(w) \/ Signal(w)
    BY <2>2, Sync2Inv, Sync2DoneInv, SignalInv
  <2>3. CASE DropUser(w) \/ EnumUser(w) \/ EnumDone(w)
    BY <2>3, DropUserInv, EnumUserInv, EnumDoneInv
  <2>4. CASE \E c \in Ctxs : LockUser(w, c)
    BY <2>4, LockUserInv
  <2>5. CASE \E r \in Phases : Answer(w, r)
    BY <2>5, AnswerInv
  <2> QED BY <2>1, <2>2, <2>3, <2>4, <2>5 DEF Worker
<1>4. CASE \E r \in Phases : NextRound(r)
  BY <1>4, NextRoundInv
<1> QED BY <1>1, <1>2, <1>3, <1>4 DEF Next

(* The inductive invariant: who has which context, who holds which flag and *)
(* who is still going to enumerate which stack.                             *)
THEOREM UserInvariance == Spec => []UInv
<1>1. Init => UInv
  BY InitInv
<1>2. UInv /\ [Next]_vars => UInv'
  BY NextInv
<1> QED BY <1>1, <1>2, PTL DEF Spec

(* No worker walks the frames of a thread that is dead or, unless it called *)
(* back on another worker, of one that runs (sml_stack_enum_ptr,            *)
(* worker_sync2).                                                           *)
THEOREM ClosedStackHolds == Spec => []ClosedStack
<1>1. UInv => ClosedStack
  <2> SUFFICES ASSUME UInv, NEW e \in enum
               PROVE  at[e[2]] # "gone" /\ (Closed(e[2], e[1]) \/ e[2] \in strayed)
    BY DEF ClosedStack
  <2> DEFINE c == visiting[e[1]]
  <2>1. /\ e[1] \in Workers /\ c \in users[e[1]] /\ home[c] = e[1]
        /\ e[2] = stack[c]
    BY DEF UInv, VisitInv
  <2>2. e[2] \in Threads /\ Alive(e[2]) /\ ctx[e[2]] = c
    BY <2>1 DEF UInv, CtxInv
  <2> QED BY <2>1, <2>2 DEF UInv, CtxInv, Alive, Astray, Closed
<1> QED BY <1>1, UserInvariance, PTL

(* BUSY_FLAG and user->worker keep two workers from walking one stack.      *)
THEOREM OneWalkerHolds == Spec => []OneWalker
<1>1. UInv => OneWalker
  <2> SUFFICES ASSUME UInv, NEW d \in enum, NEW e \in enum, d[2] = e[2]
               PROVE  d = e
    BY DEF OneWalker
  <2>1. /\ d \in Workers \X Threads /\ visiting[d[1]] \in users[d[1]]
        /\ home[visiting[d[1]]] = d[1] /\ d[2] = stack[visiting[d[1]]]
    BY DEF UInv, VisitInv
  <2>2. /\ e \in Workers \X Threads /\ visiting[e[1]] \in users[e[1]]
        /\ home[visiting[e[1]]] = e[1] /\ e[2] = stack[visiting[e[1]]]
    BY DEF UInv, VisitInv
  <2>3. d[1] \in Workers /\ e[1] \in Workers
    BY <2>1, <2>2
  <2>4. d[1] = e[1]
    <3>1. \A w \in Workers : \A c \in users[w] : home[c] = w => ctx[stack[c]] = c
      BY DEF UInv, CtxInv
    <3>2. visiting[d[1]] = visiting[e[1]]
      <4>1. ctx[d[2]] = visiting[d[1]]
        BY <2>1, <2>3, <3>1
      <4>2. ctx[e[2]] = visiting[e[1]]
        BY <2>2, <2>3, <3>1
      <4> QED BY <4>1, <4>2
    <3>3. \A v, w \in Workers : v # w => users[v] \cap users[w] = {}
      BY DEF UInv, CtxInv
    <3> QED BY <2>1, <2>2, <2>3, <3>2, <3>3
  <2>5. ASSUME NEW x \in Workers \X Threads, NEW y \in Workers \X Threads,
               x[1] = y[1], x[2] = y[2]
        PROVE  x = y
    <3>1. PICK v \in Workers, t \in Threads : x = <<v, t>>
      OBVIOUS
    <3>2. PICK w \in Workers, u \in Threads : y = <<w, u>>
      OBVIOUS
    <3> QED BY <3>1, <3>2, <2>5
  <2> QED BY <2>1, <2>2, <2>4, <2>5
<1> QED BY <1>1, UserInvariance, PTL

(* No thread goes on behind a snapshot or reaches MARK with a stack nobody  *)
(* has enumerated, whoever it was stolen by, unless it called back on       *)
(* another worker (sml_enter, worker_sync2).                                *)
THEOREM AllSeenHolds == Spec => []AllSeen
<1>1. UInv => AllSeen
  <2> SUFFICES ASSUME UInv, NEW t \in Threads, RootsNeeded(t), Alive(t), t \notin strayed
               PROVE  t \in seen
    BY DEF AllSeen, Alive
  <2>1. CASE round = MARK
    BY <2>1 DEF UInv, SeenInv
  <2>2. CASE round # MARK
    <3>1. /\ at[t] = "ml" /\ phase[on[t]] = SYNC2 /\ step[on[t]] = "idle"
          /\ home[ctx[t]] = on[t]
      BY <2>2 DEF UInv, RootsNeeded, CtxInv, Astray
    <3>2. on[t] \in members
      BY <3>1, UserConstants DEF UInv, Shape, OnInv
    <3>3. round = SYNC2
      BY <2>2, <3>1, <3>2 DEF UInv, Shape, PhaseInv
    <3> QED BY <3>1, <3>3 DEF UInv, SeenInv
  <2> QED BY <2>1, <2>2
<1> QED BY <1>1, UserInvariance, PTL

(* The types of the fields, and a context in use is on the list of its      *)
(* worker (worker->users).                                                  *)
THEOREM ListedHolds == Spec => []UsersListed
<1>1. UInv => UsersListed
  BY DEF UInv, CtxInv, UsersListed, Listed, Alive
<1> QED BY <1>1, UserInvariance, PTL
=============================================================================
