-------------------------- MODULE HandshakeProofs --------------------------
(***************************************************************************)
(* What holds of the handshake of control.c for every number of threads    *)
(* and every number of collections.                                        *)
(***************************************************************************)
EXTENDS HandshakeRounds

\* Every variable keeps its type (TypeOK).
THEOREM TypeCorrect == Spec => []TypeOK
  BY TypeInit, TypeStep, PTL DEF Spec

-----------------------------------------------------------------------------
(* The invariant is inductive.                                              *)

\* Before the first thread registers there is nothing to account for.
LEMMA InvInit == Init => IInv
<1>. SUFFICES ASSUME Init PROVE IInv
  OBVIOUS
<1>1. \A t \in Workers : ~Owns(t) /\ ~Helps(t) /\ ~Coordinates(t)
  BY DEF Init, Owns, Helps, Coordinates
<1>2. HoldInv
  BY <1>1 DEF Init, HoldInv, RegistryInv, LockInv, ActInv, SeenInv, GreedyInv,
              HelperInv
<1>3. Unanswered = {}
  BY DEF Init, Unanswered
<1>4. RoundInv
  BY <1>1, <1>3, FS_EmptySet
  DEF Init, RoundInv, OneCoordinator, RunningInv, QuietInv, LastInv, ChangeInv,
      CountedInv, IsPre, ASYNC
<1>5. EnumInv
  BY DEF Init, EnumInv, ASYNC, SYNC1, SYNC2
<1>. QED
  BY <1>2, <1>4, <1>5, TypeInit DEF IInv

\* The steps of a thread outside the coordinator's work.
LocalAction(t) ==
  \/ Register(t) \/ Enter(t) \/ Attach(t) \/ Cancel(t)
  \/ Leave(t) \/ End(t) \/ EnterRetry(t)
  \/ Poll(t) \/ AcceptSignal(t) \/ JoinGC(t) \/ WaitDone(t)
  \/ LoadHandshake(t) \/ (\E w \in Workers : Scan(t, w)) \/ ScanEnd(t)
  \/ Unlink(t) \/ Take(t) \/ Unlock(t) \/ Reaccept(t)

\* They keep the invariant and are local in the sense of LocalStep.
LEMMA LocalActionStep ==
  ASSUME IInv, NEW t \in Workers, LocalAction(t), TypeOK'
  PROVE  IInv' /\ LocalStep(t)
<1>1. CASE Leave(t) \/ End(t) \/ EnterRetry(t)
  <2>1. /\ LeaveWorker(t) /\ pc[t] \in {"ml", "entered"}
        /\ live' \in {live, live \ {t}}
    BY <1>1 DEF Leave, End, EnterRetry
  <2>. QED
    BY <2>1, LeaveActStep, LeaveQuietStep
<1>2. CASE Take(t)
  BY <1>2, TakeActStep, WalkingSteps, WalkStep
<1>3. CASE Unlock(t)
  BY <1>3, UnlockFreeStep, UnlockAgainStep
<1>4. CASE \/ Poll(t) \/ LoadHandshake(t) \/ (\E w \in Workers : Scan(t, w))
           \/ ScanEnd(t) \/ Unlink(t) \/ JoinGC(t) \/ WaitDone(t)
  BY <1>4, WalkingSteps, WalkStep
<1>. QED
  BY <1>1, <1>2, <1>3, <1>4, RegisterStep, EnterStep, AttachStep, CancelStep,
     AcceptSignalStep, ReacceptStep
  DEF LocalAction

\* The steps that answer a signal.
AnswerAction(t) == \/ WorkerSync1(t) \/ WorkerSync2(t)
                   \/ WorkerMark(t) \/ WorkerAsync(t)

\* They keep the invariant and take one worker off the account.
LEMMA AnswerActionStep ==
  ASSUME IInv, NEW t \in Workers, AnswerAction(t), TypeOK'
  PROVE  IInv' /\ Unanswered' = Unanswered \ {tgt[t]}
BY WorkerSync1Step, WorkerSync2Step, WorkerMarkStep, WorkerAsyncStep
DEF AnswerAction

\* The coordinator's steps that neither send a signal nor announce a round.
QuietAction(t) ==
  \/ StartGC(t, TRUE) \/ StartGC(t, FALSE)
  \/ MarkFinish(t) \/ MarkRetry(t) \/ EndGC(t)
  \/ Publish(t) \/ AddCount(t) \/ AnswerGreedily(t)

\* They keep the invariant and leave the account as it is.
LEMMA QuietActionStep ==
  ASSUME IInv, NEW t \in Workers, QuietAction(t), TypeOK'
  PROVE  IInv' /\ Unanswered' = Unanswered
BY StartGCStep, MarkStep, EndGCStep, PublishStep, AddCountStep,
   AnswerGreedilyStep
DEF QuietAction

\* Every step of the system is of one of these kinds.
LEMMA NextCases ==
  ASSUME [Next]_vars
  PROVE  \/ UNCHANGED vars
         \/ \E t \in Workers :
              \/ LocalAction(t) \/ AnswerAction(t) \/ QuietAction(t)
              \/ GlobalPhase(t)
              \/ \E w \in Workers : Kill(t, w) \/ ChangePhase(t, w)
BY DEF Next, Mutator, Runtime, Finished, LocalAction, AnswerAction, QuietAction

\* Every step keeps the invariant.
LEMMA InvStep == IInv /\ [Next]_vars => IInv'
<1>. SUFFICES ASSUME IInv, [Next]_vars PROVE IInv'
  OBVIOUS
<1>1. TypeOK'
  BY TypeStep DEF IInv
<1>2. CASE UNCHANGED vars
  <2>1. UNCHANGED <<Unanswered, Pending>>
    BY <1>2 DEF vars, Unanswered, Pending
  <2>2. \A t \in Workers : /\ Owns(t)' <=> Owns(t)
                           /\ Helps(t)' <=> Helps(t)
                           /\ Coordinates(t)' <=> Coordinates(t)
    BY <1>2 DEF vars, Owns, Helps, Coordinates
  <2>3. HoldInv'
    BY <1>2, <2>2 DEF vars, IInv, HoldInv, RegistryInv, LockInv, ActInv,
       SeenInv, GreedyInv, HelperInv
  <2>4. RoundInv'
    BY <1>2, <2>1, <2>2 DEF vars, IInv, RoundInv, OneCoordinator, RunningInv,
       QuietInv, LastInv, ChangeInv, CountedInv
  <2>5. EnumInv'
    BY <1>2, <2>1 DEF vars, IInv, EnumInv
  <2>. QED
    BY <1>1, <2>3, <2>4, <2>5 DEF IInv
<1>. QED
  BY <1>1, <1>2, NextCases, LocalActionStep, AnswerActionStep, QuietActionStep,
     GlobalPhaseStep, KillStep, ChangePhaseStep

\* IInv holds in every reachable state: who holds which worker, how far the
\* round has come, what sml_check_flag counts, and who owes the global roots.
THEOREM Invariance == Spec => []IInv
  BY InvInit, InvStep, PTL DEF Spec

-----------------------------------------------------------------------------
(* What the invariant says about the program.                               *)

\* The answers the round still lacks are the unanswered signals and those that
\* are still to be sent.
LEMMA PendingIsUnanswered == IInv => Pending = Unanswered \cup left
<1>. SUFFICES ASSUME IInv PROVE Pending = Unanswered \cup left
  OBVIOUS
<1>. USE DEF IInv, RoundInv
<1>1. \A w \in available : IsPre(phase[w]) => phase[w] # newphase
  BY DEF RunningInv
<1>2. \A w \in available \ left : ~IsPre(phase[w]) => phase[w] = newphase
  <2>1. CASE \A t \in Workers : ~Coordinates(t)
    BY <2>1, AcceptFacts DEF QuietInv, TypeOK
  <2>2. ASSUME NEW t \in Workers, Coordinates(t)
        PROVE  \A w \in available \ left : ~IsPre(phase[w]) => phase[w] = newphase
    <3>1. CASE pc[t] \in {"mark", "glob", "endgc"}
      BY <3>1 DEF LastInv
    <3>2. CASE pc[t] \in {"chg", "add"}
      BY <3>2, RoundFacts DEF ChangeInv
    <3>3. CASE pc[t] = "greedy"
      BY <3>3, AcceptFacts DEF CountedInv, TypeOK
    <3>. QED
      BY <2>2, <3>1, <3>2, <3>3 DEF Coordinates
  <2>. QED
    BY <2>1, <2>2
<1>. QED
  BY <1>1, <1>2 DEF Pending, Unanswered

\* At most one thread coordinates (OneCoordinator): whoever turned gc_count odd
\* or took sml_check_flag from 1 to 0 has global_phase and change_phase alone.
THEOREM OneCoordinatorHolds == Spec => []OneCoordinator
<1>1. IInv => OneCoordinator
  BY DEF IInv, RoundInv
<1>. QED
  BY <1>1, Invariance, PTL

\* The thread whose fetch_sub saw 1 is the last to answer (LastAnswerIsLast),
\* although the counter is raised only after the signals are out.
THEOREM LastAnswerIsLastHolds == Spec => []LastAnswerIsLast
<1>1. IInv => LastAnswerIsLast
  BY PendingIsUnanswered DEF IInv, RoundInv, LastInv, LastAnswerIsLast
<1>. QED
  BY <1>1, Invariance, PTL

\* No worker is acted for twice at a time, and never behind the back of its
\* thread (ActionExclusion).
THEOREM ActionExclusionHolds == Spec => []ActionExclusion
<1>1. IInv => ActionExclusion
  BY DEF IInv, HoldInv, ActInv, LockInv, ActionExclusion
<1>. QED
  BY <1>1, Invariance, PTL

\* The plain stores to worker->state overwrite what was loaded before
\* (StoresLoseNothing), so the compare-and-swap could be left out.
THEOREM StoresLoseNothingHolds == Spec => []StoresLoseNothing
<1>1. IInv => StoresLoseNothing
  <2>. SUFFICES ASSUME IInv PROVE StoresLoseNothing
    OBVIOUS
  <2>1. \A w \in left : phase[w] = from
    BY WorkerFacts DEF IInv
  <2>. QED
    BY <2>1 DEF IInv, HoldInv, SeenInv, GreedyInv, LockInv, Owns, Helps,
       StoresLoseNothing
<1>. QED
  BY <1>1, Invariance, PTL

\* No roots are enumerated while a thread in ML code sees its worker outside
\* SYNC1 .. SYNC2 (Sync2Window).
THEOREM Sync2WindowHolds == Spec => []Sync2Window
<1>1. IInv => Sync2Window
  <2>. SUFFICES ASSUME IInv, NEW t \in Workers, NEW u \in Workers, Owns(t),
                       pc[u] = "work", seen[u] = PRESYNC2
                PROVE  phase[t] \in {SYNC1, PRESYNC2, SYNC2}
    BY DEF Sync2Window
  <2>. USE DEF IInv, HoldInv, RoundInv
  <2>1. newphase = SYNC2 /\ t \in available /\ phase[t] \in Phases
    BY DEF ActInv, LockInv, Accept, IsPre, PRESYNC2, SYNC2, TypeOK
  <2>2. Accept(phase[t]) = SYNC2 => phase[t] \in {PRESYNC2, SYNC2}
    BY <2>1 DEF Accept, IsPre, PRESYNC2, SYNC2, Phases
  <2>3. CASE \A v \in Workers : ~Coordinates(v)
    BY <2>1, <2>2, <2>3 DEF QuietInv
  <2>4. ASSUME NEW v \in Workers, Coordinates(v)
        PROVE  phase[t] \in {SYNC1, PRESYNC2, SYNC2}
    <3>1. CASE pc[v] = "greedy"
      BY <2>1, <2>2, <3>1 DEF CountedInv
    <3>2. CASE pc[v] \in {"chg", "add"}
      <4>1. /\ <<from, to>> \in Rounds /\ Accept(to) = SYNC2
            /\ phase[t] \in {from, to, newphase}
        BY <2>1, <3>2 DEF ChangeInv
      <4>2. from = SYNC1 /\ to = PRESYNC2
        BY <4>1 DEF Rounds, Accept, IsPre, ASYNC, PRESYNC1, SYNC1, PRESYNC2,
           SYNC2, PREMARK, MARK, PREASYNC
      <4>. QED
        BY <2>1, <4>1, <4>2
    <3>. QED
      BY <2>4, <3>1, <3>2, AnswerFacts DEF Coordinates
  <2>. QED
    BY <2>3, <2>4
<1>. QED
  BY <1>1, Invariance, PTL

\* The global variables are enumerated once in every collection
\* (GlobalEnumOnce).
THEOREM GlobalEnumOnceHolds == Spec => []GlobalEnumOnce
<1>1. IInv => GlobalEnumOnce
  BY DEF IInv, EnumInv, GlobalEnumOnce
<1>. QED
  BY <1>1, Invariance, PTL

\* A helper answers at most twice for a worker (HelperLoopsTwice): before it
\* does so again it owes the same answer for itself.
THEOREM HelperLoopsTwiceHolds == Spec => []HelperLoopsTwice
<1>1. IInv => HelperLoopsTwice
  <2>. SUFFICES ASSUME IInv, NEW t \in Workers, pc[t] = "reaccept"
                PROVE  /\ t \in Pending /\ tgt[t] \in Pending
                       /\ newphase = Accept(seen[t])
    BY DEF HelperLoopsTwice
  <2>. USE DEF IInv, HoldInv
  <2>1. /\ IsPre(phase[tgt[t]]) /\ phase[tgt[t]] = seen[t]
        /\ tgt[t] \in available /\ t \in available
    BY DEF SeenInv, LockInv, Owns
  <2>2. t \in left \/ IsPre(phase[t])
    BY <2>1 DEF HelperInv, Helps
  <2>. QED
    BY <2>1, <2>2, WorkerFacts, PendingIsUnanswered DEF Unanswered
<1>. QED
  BY <1>1, Invariance, PTL

\* A worker dies only after its thread and its user, and no action for it is
\* under way then or later (DeadIsQuiet).
THEOREM DeadIsQuietHolds == Spec => []DeadIsQuiet
<1>1. IInv => DeadIsQuiet
  BY DEF IInv, HoldInv, RegistryInv, ActInv, DeadIsQuiet
<1>. QED
  BY <1>1, Invariance, PTL

-----------------------------------------------------------------------------
(* Steps.                                                                   *)

\* Accepting a signal and sending one are the only steps of a worker's phase.
LEMMA PhaseSteps ==
  ASSUME IInv, [Next]_vars, NEW w \in available
  PROVE  \/ phase'[w] = phase[w]
         \/ IsPre(phase[w]) /\ phase'[w] = Accept(phase[w])
         \/ <<phase[w], phase'[w]>> \in Rounds
<1>. DEFINE Goal == \/ phase'[w] = phase[w]
                    \/ IsPre(phase[w]) /\ phase'[w] = Accept(phase[w])
                    \/ <<phase[w], phase'[w]>> \in Rounds
<1>1. TypeOK /\ TypeOK' /\ w \in Workers
  BY TypeStep DEF IInv, TypeOK
<1>2. ASSUME NEW t \in Workers, LocalAction(t) PROVE Goal
  BY <1>1, <1>2, LocalActionStep DEF LocalStep
<1>3. ASSUME NEW t \in Workers, AnswerAction(t) \/ GlobalPhase(t) PROVE Goal
  BY <1>3 DEF AnswerAction, WorkerSync1, WorkerSync2, WorkerMark, WorkerAsync,
     Answer, GlobalPhase, stateword
<1>4. ASSUME NEW t \in Workers, QuietAction(t) PROVE Goal
  <2>1. CASE AnswerGreedily(t)
    <3>1. phase[t] = to /\ IsPre(to) /\ phase' = [phase EXCEPT ![t] = Accept(to)]
      BY <2>1 DEF AnswerGreedily, StoreAccepted, IInv, HoldInv, GreedyInv,
         RoundInv, CountedInv
    <3>. QED
      BY <1>1, <3>1 DEF TypeOK
  <2>2. CASE ~AnswerGreedily(t)
    BY <1>4, <2>2 DEF QuietAction, StartGC, MarkFinish, MarkRetry, EndGC,
       Publish, AddCount, stateword
  <2>. QED
    BY <2>1, <2>2
<1>5. ASSUME NEW t \in Workers, NEW z \in Workers, Kill(t, z) PROVE Goal
  BY <1>5 DEF Kill, stateword
<1>6. ASSUME NEW t \in Workers, NEW z \in Workers, ChangePhase(t, z) PROVE Goal
  <2>1. <<from, to>> \in Rounds /\ phase[z] = from
    BY <1>6 DEF ChangePhase, IInv, RoundInv, ChangeInv
  <2>2. phase' = [phase EXCEPT ![z] = to]
    BY <1>6, <2>1, RoundFacts DEF ChangePhase
  <2>. QED
    BY <1>1, <2>1, <2>2 DEF TypeOK
<1>7. CASE UNCHANGED vars
  BY <1>7 DEF vars
<1>. QED
  BY <1>2, <1>3, <1>4, <1>5, <1>6, <1>7, NextCases

\* A registered worker goes through the phases along the arrows of the diagram
\* in control.c and no others (PhaseOrder).
THEOREM PhaseOrderHolds == Spec => PhaseOrder
<1>1. ASSUME IInv, [Next]_vars
      PROVE  [\A w \in available : phase'[w] # phase[w] =>
                 <<phase[w], phase'[w]>> \in Arrows]_vars
  <2>. SUFFICES ASSUME NEW w \in available, phase'[w] # phase[w]
                PROVE  <<phase[w], phase'[w]>> \in Arrows
    OBVIOUS
  <2>1. phase[w] \in Phases
    BY <1>1 DEF IInv, TypeOK
  <2>2. CASE IsPre(phase[w]) /\ phase'[w] = Accept(phase[w])
    BY <2>1, <2>2 DEF Accept, IsPre, Phases, Arrows, ASYNC, PRESYNC1, SYNC1,
       PRESYNC2, SYNC2, PREMARK, MARK, PREASYNC
  <2>3. CASE <<phase[w], phase'[w]>> \in Rounds
    BY <2>3 DEF Rounds, Arrows
  <2>. QED
    BY <1>1, <2>2, <2>3, PhaseSteps
<1>. QED
  BY <1>1, Invariance, PTL DEF Spec, PhaseOrder

-----------------------------------------------------------------------------
(* The handshake implements the rounds of GCPhases.                         *)

\* The initial state is the initial state of GCPhases.
LEMMA AbsInit == Init => Abs!GCInit
BY DEF Init, Abs!GCInit, Pending, ASYNC

\* Every step of the handshake is a step of GCPhases or does not change the
\* members, the round or the answers it waits for.
LEMMA AbsStep == IInv /\ [Next]_vars => [Abs!GCNext]_(Abs!gcvars)
<1>. SUFFICES ASSUME IInv, [Next]_vars PROVE [Abs!GCNext]_(Abs!gcvars)
  OBVIOUS
<1>. USE DEF Abs!gcvars
<1>1. TypeOK /\ TypeOK' /\ IInv'
  BY InvStep DEF IInv
<1>2. Pending = Unanswered \cup left /\ Pending' = Unanswered' \cup left'
  <2>1. (Pending = Unanswered \cup left)'
    BY <1>1, PendingIsUnanswered, PTL
  <2>. QED
    BY <2>1, PendingIsUnanswered
<1>3. ASSUME NEW t \in Workers, LocalAction(t)
      PROVE  [Abs!GCNext]_(Abs!gcvars)
  <2>1. newphase' = newphase /\ Pending' = Pending
    BY <1>1, <1>2, <1>3, LocalActionStep DEF LocalStep
  <2>2. CASE Register(t)
    BY <2>1, <2>2 DEF Register, Abs!GCNext, Abs!Join
  <2>3. CASE ~Register(t)
    <3>1. available' = available
      BY <1>3, <2>3 DEF LocalAction, Enter, Attach, Cancel, Leave, End,
         EnterRetry, LeaveWorker, Poll, AcceptSignal, StoreAccepted, JoinGC,
         WaitDone, LoadHandshake, Scan, ScanEnd, Unlink, Take, Unlock, Reaccept,
         registry
    <3>. QED
      BY <2>1, <3>1
  <2>. QED
    BY <2>2, <2>3
<1>4. ASSUME NEW t \in Workers, AnswerAction(t)
      PROVE  [Abs!GCNext]_(Abs!gcvars)
  <2>1. /\ pc[t] = "work" /\ tgt[t] \in Workers
        /\ available' = available /\ newphase' = newphase /\ left' = left
    BY <1>1, <1>4 DEF AnswerAction, WorkerSync1, WorkerSync2, WorkerMark,
       WorkerAsync, Answer, registry, TypeOK
  <2>2. tgt[t] \notin left /\ tgt[t] \in Unanswered
    BY <2>1, AnswerFacts DEF IInv, HoldInv, ActInv
  <2>3. Pending' = Pending \ {tgt[t]}
    BY <1>1, <1>2, <1>4, <2>1, <2>2, AnswerActionStep
  <2>. QED
    BY <1>2, <2>1, <2>2, <2>3 DEF Abs!GCNext, Abs!Respond
<1>5. ASSUME NEW t \in Workers, QuietAction(t)
      PROVE  [Abs!GCNext]_(Abs!gcvars)
  <2>1. UNCHANGED <<available, newphase, left>>
    BY <1>5 DEF QuietAction, StartGC, MarkFinish, MarkRetry, EndGC, Publish,
       AddCount, AnswerGreedily, StoreAccepted, registry, round
  <2>. QED
    BY <1>1, <1>2, <1>5, <2>1, QuietActionStep
<1>6. ASSUME NEW t \in Workers, GlobalPhase(t)
      PROVE  [Abs!GCNext]_(Abs!gcvars)
  <2>1. /\ pc[t] = "glob" /\ newphase' = Accept(to) /\ left' = available
        /\ available' = available
    BY <1>6 DEF GlobalPhase, RegistrationPhase
  <2>2. /\ left = {} /\ newphase = from /\ <<from, to>> \in Rounds
    BY <2>1 DEF IInv, RoundInv, LastInv
  <2>3. Pending = {} /\ Pending' = available
    BY <1>1, <1>2, <1>6, <2>1, <2>2, GlobalPhaseStep
  <2>4. <<newphase, newphase'>> \in Abs!Successors /\ newphase' \in {1, 3, 5, 7}
    BY <2>1, <2>2 DEF Rounds, Abs!Successors, Accept, IsPre, ASYNC, PRESYNC1,
       SYNC1, PRESYNC2, SYNC2, PREMARK, MARK, PREASYNC
  <2>. QED
    BY <2>1, <2>3, <2>4 DEF Abs!GCNext, Abs!Begin
<1>7. ASSUME NEW t \in Workers, NEW w \in Workers, Kill(t, w)
      PROVE  [Abs!GCNext]_(Abs!gcvars)
  <2>1. /\ pc[t] = "chg" /\ w \in left /\ from = ASYNC
        /\ available' = available \ {w} /\ left' = left \ {w}
        /\ newphase' = newphase
    BY <1>7 DEF Kill, Dies
  <2>2. newphase = 3
    BY <2>1 DEF IInv, RoundInv, ChangeInv, Rounds, Accept, IsPre, ASYNC,
       PRESYNC1, SYNC1, PRESYNC2, SYNC2, PREMARK, MARK, PREASYNC
  <2>3. w \in Pending /\ Pending' = Pending \ {w}
    BY <1>1, <1>2, <1>7, <2>1, KillStep
  <2>. QED
    BY <2>1, <2>2, <2>3 DEF Abs!GCNext, Abs!Retire
<1>8. ASSUME NEW t \in Workers, NEW w \in Workers, ChangePhase(t, w)
      PROVE  [Abs!GCNext]_(Abs!gcvars)
  <2>1. /\ w \in left /\ left' = left \ {w}
        /\ available' = available /\ newphase' = newphase
    BY <1>8 DEF ChangePhase, registry
  <2>2. Pending' = Pending
    BY <1>1, <1>2, <1>8, <2>1, ChangePhaseStep
  <2>. QED
    BY <2>1, <2>2
<1>9. CASE UNCHANGED vars
  BY <1>9 DEF vars, Pending
<1>. QED
  BY <1>3, <1>4, <1>5, <1>6, <1>7, <1>8, <1>9, NextCases

\* The handshake keeps the promise of GCPhases (RoundsComplete): the rounds come
\* in order, and each begins only when every worker has answered the one before.
THEOREM Refinement == Spec => RoundsComplete
  BY Invariance, AbsInit, AbsStep, PTL DEF Spec, RoundsComplete, Abs!GCSpec

-----------------------------------------------------------------------------
(* Nobody who waits for help is forgotten.                                  *)

\* A step that neither walks workers_handshake nor begins or publishes a round,
\* and after which nobody needs help who did not before.
HelpStill ==
  /\ handshake' = handshake /\ snap' = snap /\ todo' = todo /\ newphase' = newphase
  /\ \A u \in Workers :
       pc[u] \in {"scan", "unlink", "take"} \/ pc'[u] \in {"scan", "unlink", "take"} =>
         pc'[u] = pc[u] /\ tgt'[u] = tgt[u] /\ seen'[u] = seen[u]
  /\ \A u \in Workers : pc'[u] = "chg" <=> pc[u] = "chg"
  /\ Sending => from' = from
  /\ RetryInv' /\ (Repeated => Repeated')
  /\ \A u \in Workers : Searching(u) /\ Answered(u)' => Answered(u)
  /\ ~Sending => \A w \in Workers : NeedsHelp(w)' => NeedsHelp(w) /\ phase'[w] = phase[w]

\* Such a step forgets nobody.
LEMMA HelpFrame ==
  ASSUME IInv, HelpInv, HelpStill
  PROVE  HelpInv'
<1>1. /\ handshake' = handshake /\ snap' = snap /\ todo' = todo /\ newphase' = newphase
      /\ Sending' = Sending /\ (Sending => from' = from)
  BY DEF HelpStill, Sending
<1>2. \A u \in Workers : pc[u] \in {"scan", "unlink", "take"} \/ pc'[u] \in {"scan", "unlink", "take"} =>
         pc'[u] = pc[u] /\ tgt'[u] = tgt[u] /\ seen'[u] = seen[u]
  BY DEF HelpStill
<1>3. \A u \in Workers : /\ Searching(u)' <=> Searching(u)
                         /\ Searching(u) => pc'[u] = pc[u] /\ tgt'[u] = tgt[u] /\ seen'[u] = seen[u]
  BY <1>2 DEF Searching
<1>4. StampInv'
  BY <1>1 DEF HelpInv, StampInv
<1>5. AgeInv'
  BY <1>1, <1>3 DEF HelpStill, HelpInv, AgeInv
<1>6. TodoInv'
  BY <1>1, <1>3 DEF HelpInv, TodoInv
<1>7. ASSUME ~Sending', ~Repeated' PROVE CoverInv' /\ WalkInv'
  <2>1. CoverInv /\ WalkInv /\ ~Sending
    BY <1>1, <1>7 DEF HelpInv, HelpStill
  <2>2. \A w \in Workers : NeedsHelp(w)' => NeedsHelp(w) /\ phase'[w] = phase[w]
    BY <2>1 DEF HelpStill
  <2>3. \A w \in Workers : NeedsHelp(w)' /\ Taken(w) => Taken(w)'
    BY <1>2, <2>2 DEF Taken, Finds
  <2>4. CoverInv'
    BY <1>1, <2>1, <2>2, <2>3 DEF CoverInv
  <2>5. WalkInv'
    <3>. SUFFICES ASSUME NEW u \in Workers, (Searching(u) /\ snap[u].stamp = handshake.stamp)'
                  PROVE  /\ (handshake.ws \subseteq snap[u].ws)'
                         /\ (snap[u] = handshake)' => \A w \in (snap[u].ws \ todo[u])' :
                              NeedsHelp(w)' => Taken(w)' \/ (pc[u] = "unlink" /\ Finds(u, w))'
      BY DEF WalkInv
    <3>1. Searching(u) /\ snap[u].stamp = handshake.stamp
      BY <1>1, <1>3
    <3>2. /\ handshake.ws \subseteq snap[u].ws
          /\ snap[u] = handshake => \A w \in snap[u].ws \ todo[u] :
               NeedsHelp(w) => Taken(w) \/ (pc[u] = "unlink" /\ Finds(u, w))
      BY <2>1, <3>1 DEF WalkInv
    <3>3. ASSUME (snap[u] = handshake)', NEW w \in (snap[u].ws \ todo[u])', NeedsHelp(w)'
          PROVE  Taken(w)' \/ (pc[u] = "unlink" /\ Finds(u, w))'
      <4>1. snap[u] = handshake /\ w \in snap[u].ws \ todo[u] /\ w \in Workers
        BY <1>1, <3>3 DEF IInv, TypeOK, Stamps
      <4>2. NeedsHelp(w) /\ phase'[w] = phase[w]
        BY <2>2, <3>3, <4>1
      <4>3. CASE Taken(w)
        BY <2>3, <3>3, <4>1, <4>3
      <4>4. CASE pc[u] = "unlink" /\ Finds(u, w)
        BY <1>3, <3>1, <4>2, <4>4 DEF Finds
      <4>. QED
        BY <3>2, <4>1, <4>2, <4>3, <4>4
    <3>. QED
      BY <1>1, <3>2, <3>3
  <2>. QED
    BY <2>4, <2>5
<1>. QED
  BY <1>4, <1>5, <1>6, <1>7 DEF HelpInv, HelpStill

\* Who walks the list holds its own worker, which is registered.
LEMMA SearchFacts ==
  ASSUME IInv, NEW u \in Workers, Searching(u)
  PROVE  Owns(u) /\ u \in available /\ u \notin inactive \cup helper /\ pc[u] \notin Busy
BY DEF IInv, HoldInv, LockInv, Owns, Searching, Busy

\* Nobody sends unless a round is under way, and then nobody else coordinates.
LEMMA SendingFacts ==
  ASSUME IInv, NEW t \in Workers, Coordinates(t)
  PROVE  /\ pc[t] # "chg" => ~Sending
         /\ \A u \in Workers : u # t => pc[u] \notin {"glob", "chg"}
         /\ gc_count % 2 = 1
BY DEF IInv, RoundInv, OneCoordinator, Coordinates, Sending, RunningInv

\* Entering ML code, and what a thread does there.
LEMMA MutatorHelp ==
  ASSUME IInv, HelpInv, NEW t \in Workers,
         \/ Register(t) \/ Enter(t) \/ Attach(t) \/ Cancel(t) \/ Poll(t)
         \/ JoinGC(t) \/ WaitDone(t)
  PROVE  HelpStill
<1>0. TypeOK
  BY DEF IInv
<1>1. /\ \A u \in Workers : u # t => pc'[u] = pc[u] /\ phase'[u] = phase[u] /\ seen'[u] = seen[u]
      /\ pc[t] \in {"out", "entered", "ml"} /\ pc'[t] \in {"ml", "entered", "dead", "accept", "load"}
      /\ tgt' = tgt /\ handshake' = handshake /\ snap' = snap /\ todo' = todo
      /\ newphase' = newphase /\ from' = from /\ to' = to /\ left' = left
      /\ retries' = retries /\ dead' = dead
      /\ inactive' \subseteq inactive /\ helper \ {t} \subseteq helper'
      /\ t \notin inactive' \/ (phase' = phase /\ helper' = helper)
  BY <1>0 DEF TypeOK, Register, Enter, Attach, Cancel, Poll, JoinGC, WaitDone, Goto, stateword,
     flags, registry, counters, round, frame, scanning
<1>2. \A w \in Workers : NeedsHelp(w)' => NeedsHelp(w) /\ phase'[w] = phase[w]
  BY <1>1 DEF NeedsHelp
<1>3. RetryInv'
  <2>1. \A u \in Workers : pc'[u] \in {"glob", "chg"} => pc[u] \in {"glob", "chg"}
    BY <1>1
  <2>. QED
    BY <1>1, <2>1 DEF HelpInv, RetryInv
<1>. QED
  BY <1>1, <1>2, <1>3 DEF HelpStill, Searching, Answered, Repeated

\* Leaving ML code, accepting a signal, and letting go of a worker that was
\* helped: a signal is accepted before its worker can be found unlocked.
LEMMA AcceptHelp ==
  ASSUME IInv, HelpInv, NEW t \in Workers,
         \/ Leave(t) \/ End(t) \/ EnterRetry(t) \/ AcceptSignal(t) \/ AnswerGreedily(t)
         \/ Unlock(t) \/ Reaccept(t)
  PROVE  HelpStill
<1>0. TypeOK /\ \A w \in Workers : tgt[w] \in Workers
  BY DEF IInv, TypeOK
<1>z. PICK z \in Workers : z = IF pc[t] \in {"helped", "reaccept"} THEN tgt[t] ELSE t
  BY <1>0
<1>1. pc[t] \in {"ml", "entered", "accept", "greedy", "helped", "reaccept"}
  BY DEF Leave, End, EnterRetry, AcceptSignal, AnswerGreedily, Unlock, Reaccept
<1>2. pc[t] \in {"helped", "reaccept"} => z \in helper
  BY <1>z DEF IInv, HoldInv, LockInv, Helps
<1>3. ~Searching(z)
  BY <1>z, <1>1, <1>2, SearchFacts DEF Searching
<1>4. /\ \A u \in Workers : u # t => pc'[u] = pc[u] /\ tgt'[u] = tgt[u] /\ seen'[u] = seen[u]
      /\ pc'[t] \in {"out", "work", "ml", "reaccept"}
      /\ handshake' = handshake /\ snap' = snap /\ todo' = todo /\ newphase' = newphase
      /\ from' = from /\ to' = to /\ left' = left /\ retries' = retries /\ dead' = dead
      /\ \A u \in Workers : u # z =>
           /\ phase'[u] = phase[u]
           /\ u \in inactive' <=> u \in inactive
           /\ u \in helper' <=> u \in helper
      /\ z \notin inactive' \/ z \in helper' \/ phase'[z] \in {Accept(p) : p \in Phases}
  <2>. USE DEF Goto, Resume, Act, flags, registry, counters, round, frame, scanning
  <2>1. CASE Leave(t) \/ End(t) \/ EnterRetry(t)
    BY <1>0, <1>z, <2>1 DEF TypeOK, Leave, End, EnterRetry, LeaveWorker
  <2>2. CASE AcceptSignal(t) \/ AnswerGreedily(t)
    BY <1>0, <1>z, <2>2 DEF TypeOK, AcceptSignal, AnswerGreedily, StoreAccepted
  <2>3. CASE Unlock(t)
    BY <1>0, <1>z, <1>2, <2>3 DEF TypeOK, Unlock
  <2>4. CASE Reaccept(t)
    BY <1>0, <1>z, <1>2, <2>4 DEF TypeOK, Reaccept
  <2>. QED
    BY <2>1, <2>2, <2>3, <2>4
<1>5. ~(NeedsHelp(z)')
  BY <1>4, AcceptFacts DEF NeedsHelp
<1>6. \A w \in Workers : NeedsHelp(w)' => NeedsHelp(w) /\ phase'[w] = phase[w]
  BY <1>4, <1>5 DEF NeedsHelp
<1>7. RetryInv'
  <2>1. \A u \in Workers : pc'[u] \in {"glob", "chg"} => pc[u] \in {"glob", "chg"}
    BY <1>4
  <2>. QED
    BY <1>4, <2>1 DEF HelpInv, RetryInv
<1>8. \A u \in Workers : Searching(u) /\ Answered(u)' => Answered(u)
  BY <1>3, <1>4 DEF Answered
<1>. QED
  BY <1>1, <1>4, <1>6, <1>7, <1>8 DEF HelpStill, Repeated

\* The answers of the workers: only the last one of a round sets from and to, and
\* then nobody is sending.
LEMMA AnswerHelp ==
  ASSUME IInv, HelpInv, NEW t \in Workers, AnswerAction(t)
  PROVE  HelpStill
<1>0. TypeOK /\ pc[t] = "work"
  BY DEF IInv, AnswerAction, WorkerSync1, WorkerSync2, WorkerMark, WorkerAsync
<1>1. IsLast => ~Sending
  BY <1>0, AnswerFacts DEF IsLast, Sending, Coordinates
<1>2. /\ \A u \in Workers : u # t => pc'[u] = pc[u] /\ tgt'[u] = tgt[u] /\ seen'[u] = seen[u]
      /\ pc'[t] \in {"out", "entered", "ml", "helped", "glob", "mark", "endgc"}
      /\ handshake' = handshake /\ snap' = snap /\ todo' = todo /\ newphase' = newphase
      /\ left' = left /\ retries' = retries /\ dead' = dead
      /\ phase' = phase /\ inactive' = inactive /\ helper' = helper
      /\ IF IsLast THEN <<from', to'>> # <<MARK, PREMARK>>
                   ELSE from' = from /\ to' = to /\ pc'[t] # "glob"
  BY <1>0 DEF TypeOK, AnswerAction, WorkerSync1, WorkerSync2, WorkerMark, WorkerAsync, Answer,
     Return, Resume, Goto, frame, stateword, registry, scanning,
     PREASYNC, ASYNC, PRESYNC1, SYNC1, PRESYNC2, SYNC2, PREMARK, MARK
<1>3. RetryInv'
  <2>1. CASE IsLast
    BY <1>2, <2>1 DEF RetryInv
  <2>2. CASE ~IsLast
    <3>1. \A u \in Workers : pc'[u] \in {"glob", "chg"} => pc[u] \in {"glob", "chg"}
      BY <1>2, <2>2
    <3>. QED
      BY <1>2, <2>2, <3>1 DEF HelpInv, RetryInv
  <2>. QED
    BY <2>1, <2>2
<1>4. \A w \in Workers : NeedsHelp(w)' <=> NeedsHelp(w)
  BY <1>2 DEF NeedsHelp
<1>. QED
  BY <1>0, <1>1, <1>2, <1>3, <1>4 DEF HelpStill, Answered, Repeated

\* The coordinator's steps between the rounds.
LEMMA TurnHelp ==
  ASSUME IInv, HelpInv, NEW t \in Workers,
         \/ StartGC(t, TRUE) \/ StartGC(t, FALSE) \/ MarkFinish(t) \/ MarkRetry(t)
         \/ EndGC(t) \/ AddCount(t)
  PROVE  HelpStill
<1>0. TypeOK
  BY DEF IInv
<1>1. /\ \A u \in Workers : u # t => pc'[u] = pc[u] /\ tgt'[u] = tgt[u] /\ seen'[u] = seen[u]
      /\ pc[t] \in {"ml", "entered", "out", "mark", "endgc", "add"}
      /\ pc'[t] \in {"glob", "greedy", "out", "entered", "ml", "helped"}
      /\ handshake' = handshake /\ snap' = snap /\ todo' = todo /\ newphase' = newphase
      /\ left' = left /\ dead' = dead
      /\ phase' = phase /\ inactive' = inactive /\ helper' = helper
  BY <1>0 DEF TypeOK, StartGC, MarkFinish, MarkRetry, EndGC, AddCount,
     Return, Resume, Goto, frame, stateword, flags, registry, round, scanning
<1>2. ~Sending /\ \A u \in Workers : u # t => pc[u] \notin {"glob", "chg"}
  <2>1. CASE StartGC(t, TRUE) \/ StartGC(t, FALSE)
    BY <2>1 DEF StartGC, GCIdle, IInv, RoundInv, RunningInv, Sending, Coordinates, TypeOK
  <2>2. CASE MarkFinish(t) \/ MarkRetry(t) \/ EndGC(t) \/ AddCount(t)
    BY <2>2, SendingFacts DEF MarkFinish, MarkRetry, EndGC, AddCount, Coordinates
  <2>. QED
    BY <2>1, <2>2
<1>3. RetryInv'
  <2>1. CASE StartGC(t, TRUE) \/ StartGC(t, FALSE)
    BY <2>1 DEF StartGC, RetryInv, ASYNC, MARK
  <2>2. CASE MarkFinish(t)
    BY <2>2 DEF MarkFinish, IInv, RoundInv, LastInv, RetryInv, round, PREASYNC, PREMARK
  <2>3. CASE MarkRetry(t)
    BY <1>0, <2>3 DEF MarkRetry, RetryInv, TypeOK
  <2>4. CASE EndGC(t) \/ AddCount(t)
    <3>1. pc'[t] # "glob"
      BY <1>0, <2>4 DEF TypeOK, EndGC, AddCount, Return, Resume, Goto, frame
    <3>. QED
      BY <1>1, <1>2, <3>1 DEF RetryInv
  <2>. QED
    BY <2>1, <2>2, <2>3, <2>4
<1>4. Repeated => Repeated'
  <2>1. CASE EndGC(t)
    BY <2>1 DEF EndGC, IInv, RoundInv, LastInv, Repeated, ASYNC, MARK
  <2>2. CASE MarkRetry(t)
    BY <1>0, <1>1, <2>2 DEF MarkRetry, TypeOK, Repeated
  <2>3. CASE ~EndGC(t) /\ ~MarkRetry(t)
    BY <1>1, <2>3 DEF StartGC, MarkFinish, AddCount, Repeated, counters
  <2>. QED
    BY <2>1, <2>2, <2>3
<1>5. \A w \in Workers : NeedsHelp(w)' <=> NeedsHelp(w)
  BY <1>1 DEF NeedsHelp
<1>6. \A u \in Workers : pc'[u] = "chg" <=> pc[u] = "chg"
  BY <1>1
<1>. QED
  BY <1>1, <1>2, <1>3, <1>4, <1>5, <1>6 DEF HelpStill, Answered

\* Sending a signal, or letting a canceled worker die: who has been sent the
\* signal of a round has not answered it.
LEMMA SendHelp ==
  ASSUME IInv, HelpInv, NEW t \in Workers, NEW z \in Workers,
         Kill(t, z) \/ ChangePhase(t, z)
  PROVE  HelpStill
<1>0. TypeOK /\ pc[t] = "chg" /\ z \in left /\ Sending
  BY DEF IInv, Kill, ChangePhase, Sending
<1>1. <<from, to>> \in Rounds /\ newphase = Accept(to) /\ phase[z] = from
  BY <1>0 DEF IInv, RoundInv, ChangeInv
<1>2. /\ pc' = pc /\ tgt' = tgt /\ seen' = seen /\ from' = from /\ to' = to /\ left' = left \ {z}
      /\ handshake' = handshake /\ snap' = snap /\ todo' = todo /\ newphase' = newphase
      /\ retries' = retries
      /\ \A u \in Workers : u # z => phase'[u] = phase[u]
  BY <1>0 DEF TypeOK, Kill, ChangePhase, frame, counters, stateword, registry, scanning
<1>3. Searching(z) => phase'[z] # newphase
  <2>1. CASE Kill(t, z)
    BY <1>0, <2>1 DEF Kill, Dies, IInv, HoldInv, RegistryInv, Searching
  <2>2. CASE ChangePhase(t, z)
    <3>1. phase' = [phase EXCEPT ![z] = to]
      BY <1>1, <2>2, RoundFacts DEF ChangePhase
    <3>. QED
      BY <1>0, <1>1, <3>1, RoundFacts, AcceptFacts DEF TypeOK
  <2>. QED
    BY <2>1, <2>2
<1>4. \A u \in Workers : Searching(u) /\ Answered(u)' => Answered(u)
  BY <1>2, <1>3 DEF Answered
<1>5. RetryInv' /\ (Repeated => Repeated')
  BY <1>2 DEF HelpInv, RetryInv, Repeated
<1>. QED
  BY <1>0, <1>2, <1>4, <1>5 DEF HelpStill

\* What a step of help_inactive by t does before an action begins.  At most it
\* takes workers off the list.
SearchStep(t) ==
  /\ \A u \in Workers : u # t =>
       /\ pc'[u] = pc[u] /\ tgt'[u] = tgt[u] /\ seen'[u] = seen[u]
       /\ snap'[u] = snap[u] /\ todo'[u] = todo[u]
  /\ pc[t] \notin {"glob", "chg"} /\ pc'[t] \notin {"glob", "chg"}
  /\ newphase' = newphase /\ from' = from /\ to' = to /\ left' = left /\ retries' = retries
  /\ handshake'.stamp = handshake.stamp /\ handshake'.ws \subseteq handshake.ws
  /\ \A u \in Workers : Searching(u)' => phase'[u] = phase[u]
  /\ \A w \in Workers : NeedsHelp(w)' => NeedsHelp(w) /\ phase'[w] = phase[w]
  /\ pc'[t] \in {"scan", "unlink"} =>
       /\ todo'[t] \subseteq snap'[t].ws
       /\ \/ snap'[t].stamp = handshake.stamp
          \/ Searching(t) /\ snap'[t].stamp = snap[t].stamp

\* The workers that t passes, or takes off the list, are in somebody's hands,
\* and nobody lets go of a worker.
SearchKeeps(t) ==
  /\ \A w \in Workers : NeedsHelp(w)' /\ Taken(w) => Taken(w)'
  /\ \A w \in handshake.ws \ handshake'.ws : NeedsHelp(w)' => Taken(w)'
  /\ pc'[t] \in {"scan", "unlink"} /\ snap'[t].stamp = handshake'.stamp =>
       /\ handshake'.ws \subseteq snap'[t].ws
       /\ snap'[t] = handshake' => \A w \in snap'[t].ws \ todo'[t] :
            NeedsHelp(w)' => Taken(w)' \/ (pc'[t] = "unlink" /\ tgt'[t] = w /\ seen'[t] = phase'[w])

\* Such a step forgets nobody.  A list that another thread has loaded can be equal
\* to the new one only if it was to the old one, for in a round the list shrinks.
LEMMA SearchFrame ==
  ASSUME IInv, HelpInv, TypeOK', NEW t \in Workers, SearchStep(t),
         ~Sending /\ ~Repeated /\ CoverInv /\ WalkInv => SearchKeeps(t)
  PROVE  HelpInv'
<1>1. /\ \A u \in Workers : pc'[u] \in {"glob", "chg"} <=> pc[u] \in {"glob", "chg"}
      /\ \A u \in Workers : pc'[u] = "chg" <=> pc[u] = "chg"
  BY DEF SearchStep
<1>2. /\ Sending' <=> Sending
      /\ Repeated' <=> Repeated
  BY <1>1 DEF SearchStep, Sending, Repeated
<1>3. StampInv'
  BY <1>2 DEF SearchStep, HelpInv, StampInv
<1>4. RetryInv'
  BY <1>1 DEF SearchStep, HelpInv, RetryInv
<1>5. TodoInv'
  <2>. SUFFICES ASSUME NEW u \in Workers, pc'[u] \in {"scan", "unlink"} PROVE todo'[u] \subseteq snap'[u].ws
    BY DEF TodoInv, Searching
  <2>. QED
    BY DEF SearchStep, HelpInv, TodoInv, Searching
<1>6. AgeInv'
  <2>. SUFFICES ASSUME NEW u \in Workers, pc'[u] \in {"scan", "unlink"}
                PROVE  IF Sending
                       THEN /\ snap'[u].stamp \in Recent(from)
                            /\ Answered(u)' => snap'[u].stamp = StampOf(from)
                       ELSE Answered(u)' => snap'[u].stamp \in Recent(newphase)
    BY <1>2 DEF AgeInv, Searching, SearchStep
  <2>1. Answered(u)' => Answered(u)
    BY DEF SearchStep, Answered, Searching
  <2>2. CASE Searching(u) /\ snap'[u].stamp = snap[u].stamp
    BY <2>1, <2>2 DEF HelpInv, AgeInv
  <2>3. CASE snap'[u].stamp = handshake.stamp
    BY <2>3 DEF HelpInv, StampInv, Recent
  <2>. QED
    BY <2>2, <2>3 DEF SearchStep, Searching
<1>7. ASSUME ~Sending', ~Repeated' PROVE CoverInv' /\ WalkInv'
  <2>1. CoverInv /\ WalkInv /\ SearchKeeps(t)
    BY <1>2, <1>7 DEF HelpInv
  <2>2. \A w \in Workers : NeedsHelp(w)' => NeedsHelp(w) /\ phase'[w] = phase[w]
    BY DEF SearchStep
  <2>3. CoverInv'
    BY <2>1, <2>2 DEF SearchKeeps, CoverInv
  <2>4. WalkInv'
    <3>. SUFFICES ASSUME NEW u \in Workers, (Searching(u) /\ snap[u].stamp = handshake.stamp)'
                  PROVE  /\ (handshake.ws \subseteq snap[u].ws)'
                         /\ (snap[u] = handshake)' => \A w \in (snap[u].ws \ todo[u])' :
                              NeedsHelp(w)' => Taken(w)' \/ (pc[u] = "unlink" /\ Finds(u, w))'
      BY DEF WalkInv
    <3>1. CASE u = t
      BY <2>1, <3>1 DEF SearchKeeps, Searching, Finds
    <3>2. CASE u # t
      <4>1. /\ pc'[u] = pc[u] /\ tgt'[u] = tgt[u] /\ seen'[u] = seen[u]
            /\ snap'[u] = snap[u] /\ todo'[u] = todo[u]
            /\ handshake'.stamp = handshake.stamp /\ handshake'.ws \subseteq handshake.ws
        BY <3>2 DEF SearchStep
      <4>2. Searching(u) /\ snap[u].stamp = handshake.stamp
        BY <4>1 DEF Searching
      <4>3. /\ handshake.ws \subseteq snap[u].ws
            /\ snap[u] = handshake => \A w \in snap[u].ws \ todo[u] :
                 NeedsHelp(w) => Taken(w) \/ (pc[u] = "unlink" /\ Finds(u, w))
        BY <2>1, <4>2 DEF WalkInv
      <4>4. ASSUME (snap[u] = handshake)', NEW w \in (snap[u].ws \ todo[u])', NeedsHelp(w)'
            PROVE  Taken(w)' \/ (pc[u] = "unlink" /\ Finds(u, w))'
        <5>1. handshake \in Stamps /\ snap[u] \in Stamps
          BY DEF IInv, TypeOK
        <5>2. snap[u].ws = handshake.ws
          BY <4>1, <4>3, <4>4
        <5>3. snap[u] = handshake
          BY <4>2, <5>1, <5>2 DEF Stamps
        <5>4. w \in snap[u].ws \ todo[u] /\ w \in Workers
          BY <4>1, <4>4, <5>1 DEF Stamps
        <5>5. NeedsHelp(w) /\ phase'[w] = phase[w]
          BY <2>2, <4>4, <5>4
        <5>6. Taken(w) \/ (pc[u] = "unlink" /\ Finds(u, w))
          BY <4>3, <5>3, <5>4, <5>5
        <5>. QED
          BY <2>1, <4>1, <4>4, <5>4, <5>5, <5>6 DEF SearchKeeps, Finds
      <4>. QED
        BY <4>1, <4>3, <4>4
    <3>. QED
      BY <3>1, <3>2
  <2>. QED
    BY <2>3, <2>4
<1>. QED
  BY <1>3, <1>4, <1>5, <1>6, <1>7 DEF HelpInv

\* The load of workers_handshake: the list is that of the round, or of the one
\* before, and nobody on it has been passed yet.
LEMMA LoadHelp ==
  ASSUME IInv, HelpInv, TypeOK', NEW t \in Workers, LoadHandshake(t)
  PROVE  HelpInv'
<1>0. TypeOK /\ pc[t] = "load"
  BY DEF IInv, LoadHandshake
<1>1. /\ pc' = [pc EXCEPT ![t] = "scan"] /\ tgt' = tgt /\ seen' = seen
      /\ snap' = [snap EXCEPT ![t] = handshake] /\ todo' = [todo EXCEPT ![t] = handshake.ws]
      /\ newphase' = newphase /\ from' = from /\ to' = to /\ left' = left /\ retries' = retries
      /\ handshake' = handshake /\ phase' = phase /\ inactive' = inactive /\ helper' = helper
      /\ dead' = dead
  BY DEF LoadHandshake, Goto, stateword, flags, registry, counters, round, frame
<1>2. \A w \in Workers : NeedsHelp(w)' <=> NeedsHelp(w)
  BY <1>1 DEF NeedsHelp
<1>3. SearchStep(t)
  BY <1>0, <1>1, <1>2 DEF SearchStep, TypeOK
<1>4. SearchKeeps(t)
  <2>1. \A w \in Workers : Taken(w) => Taken(w)'
    BY <1>0, <1>1 DEF TypeOK, Taken, Finds
  <2>. QED
    BY <1>0, <1>1, <2>1 DEF SearchKeeps, TypeOK
<1>. QED
  BY <1>3, <1>4, SearchFrame

\* A step of the search: a worker is passed because it needs no help, or it is
\* the one that will be taken.
LEMMA ScanHelp ==
  ASSUME IInv, HelpInv, TypeOK', NEW t \in Workers, NEW z \in Workers, Scan(t, z)
  PROVE  HelpInv'
<1>0. TypeOK /\ pc[t] = "scan" /\ z \in todo[t] /\ todo[t] \subseteq snap[t].ws
  BY DEF IInv, Scan, HelpInv, TodoInv, Searching
<1>1. /\ pc'[t] \in {"scan", "unlink"}
      /\ \A u \in Workers : u # t => pc'[u] = pc[u] /\ tgt'[u] = tgt[u] /\ seen'[u] = seen[u]
      /\ NeedsHelp(z) => pc'[t] = "unlink" /\ tgt'[t] = z /\ seen'[t] = phase[z]
      /\ snap' = snap /\ todo' = [todo EXCEPT ![t] = @ \ {z}]
      /\ newphase' = newphase /\ from' = from /\ to' = to /\ left' = left /\ retries' = retries
      /\ handshake' = handshake /\ phase' = phase /\ inactive' = inactive /\ helper' = helper
      /\ dead' = dead
  BY <1>0 DEF TypeOK, Scan, Goto, stateword, flags, registry, counters, round
<1>2. \A w : NeedsHelp(w)' <=> NeedsHelp(w)
  BY <1>1 DEF NeedsHelp
<1>3. SearchStep(t)
  BY <1>0, <1>1, <1>2 DEF SearchStep, TypeOK, Searching
<1>4. ASSUME WalkInv PROVE SearchKeeps(t)
  <2>1. \A w : Taken(w) => Taken(w)'
    BY <1>0, <1>1 DEF TypeOK, Taken, Finds
  <2>2. snap[t].stamp = handshake.stamp =>
          /\ handshake.ws \subseteq snap[t].ws
          /\ snap[t] = handshake => \A w \in snap[t].ws \ todo[t] : NeedsHelp(w) => Taken(w)
    BY <1>0, <1>4 DEF WalkInv, Searching
  <2>3. todo'[t] = todo[t] \ {z}
    BY <1>0, <1>1 DEF TypeOK
  <2>4. \A w \in snap[t].ws \ todo'[t] : w = z \/ w \in snap[t].ws \ todo[t]
    BY <2>3
  <2>. QED
    BY <1>1, <1>2, <2>1, <2>2, <2>4 DEF SearchKeeps
<1>. QED
  BY <1>3, <1>4, SearchFrame

\* The end of the search: the list is cleared if it is still as it was loaded, and
\* then all on it have been passed.
LEMMA ScanEndHelp ==
  ASSUME IInv, HelpInv, TypeOK', NEW t \in Workers, ScanEnd(t)
  PROVE  HelpInv'
<1>0. TypeOK /\ pc[t] = "scan" /\ todo[t] = {}
  BY DEF IInv, ScanEnd
<1>1. /\ pc' = [pc EXCEPT ![t] = "ml"] /\ tgt' = tgt /\ seen' = seen
      /\ snap' = [snap EXCEPT ![t] = NoSnap] /\ todo' = todo
      /\ newphase' = newphase /\ from' = from /\ to' = to /\ left' = left /\ retries' = retries
      /\ phase' = phase /\ inactive' = inactive /\ helper' = helper /\ dead' = dead
      /\ \/ handshake = snap[t] /\ handshake' = [ws |-> {}, stamp |-> snap[t].stamp]
         \/ handshake' = handshake
  BY DEF ScanEnd, ListAsLoaded, Goto, stateword, flags, registry, counters, round, frame
<1>2. \A w : NeedsHelp(w)' <=> NeedsHelp(w)
  BY <1>1 DEF NeedsHelp
<1>3. SearchStep(t)
  BY <1>0, <1>1, <1>2 DEF SearchStep, TypeOK
<1>4. ASSUME WalkInv PROVE SearchKeeps(t)
  <2>1. \A w : Taken(w) => Taken(w)'
    BY <1>0, <1>1 DEF TypeOK, Taken, Finds
  <2>2. handshake = snap[t] => \A w \in handshake.ws : NeedsHelp(w) => Taken(w)
    BY <1>0, <1>4 DEF WalkInv, Searching
  <2>. QED
    BY <1>0, <1>1, <1>2, <2>1, <2>2 DEF SearchKeeps, TypeOK
<1>. QED
  BY <1>3, <1>4, SearchFrame

\* The list is cut at the worker that was found: those before it have been passed,
\* and it is taken next.
LEMMA UnlinkHelp ==
  ASSUME IInv, HelpInv, TypeOK', NEW t \in Workers, Unlink(t)
  PROVE  HelpInv'
<1>0. TypeOK /\ pc[t] = "unlink" /\ todo[t] \subseteq snap[t].ws
  BY DEF IInv, Unlink, HelpInv, TodoInv, Searching
<1>1. /\ \A u \in Workers : u # t => /\ pc'[u] = pc[u] /\ tgt'[u] = tgt[u] /\ seen'[u] = seen[u]
                                     /\ snap'[u] = snap[u] /\ todo'[u] = todo[u]
      /\ newphase' = newphase /\ from' = from /\ to' = to /\ left' = left /\ retries' = retries
      /\ phase' = phase /\ inactive' = inactive /\ helper' = helper /\ dead' = dead
      /\ \/ /\ handshake = snap[t] /\ handshake' = [ws |-> todo[t], stamp |-> snap[t].stamp]
            /\ pc'[t] = "take" /\ tgt'[t] = tgt[t] /\ seen'[t] = seen[t]
         \/ handshake' = handshake /\ pc'[t] = "ml"
  BY <1>0 DEF TypeOK, Unlink, ListAsLoaded, Resume, Goto, stateword, flags, registry, counters, round,
     frame
<1>2. \A w : NeedsHelp(w)' <=> NeedsHelp(w)
  BY <1>1 DEF NeedsHelp
<1>3. SearchStep(t)
  BY <1>0, <1>1, <1>2 DEF SearchStep
<1>4. ASSUME WalkInv PROVE SearchKeeps(t)
  <2>1. \A w : Taken(w) => Taken(w)'
    BY <1>0, <1>1 DEF Taken, Finds
  <2>2. handshake = snap[t] => \A w \in snap[t].ws \ todo[t] : NeedsHelp(w) => Taken(w) \/ Finds(t, w)
    BY <1>0, <1>4 DEF WalkInv, Searching
  <2>3. handshake = snap[t] /\ pc'[t] = "take" /\ tgt'[t] = tgt[t] /\ seen'[t] = seen[t] =>
          \A w : Finds(t, w) => Taken(w)'
    BY <1>1 DEF Taken, Finds
  <2>. QED
    BY <1>1, <1>2, <2>1, <2>2, <2>3 DEF SearchKeeps
<1>. QED
  BY <1>3, <1>4, SearchFrame

\* The compare-and-swap of the state word fails only if the worker needs no help
\* any more, or is not as it was found.
LEMMA TakeHelp ==
  ASSUME IInv, HelpInv, TypeOK', NEW t \in Workers, Take(t)
  PROVE  HelpInv'
<1>0. TypeOK /\ pc[t] = "take" /\ tgt[t] \in Workers
  BY DEF IInv, TypeOK, Take
<1>1. PICK z \in Workers : z = tgt[t]
  BY <1>0
<1>2. /\ \A u \in Workers : u # t =>
           /\ pc'[u] = pc[u] /\ tgt'[u] = tgt[u] /\ seen'[u] = seen[u]
           /\ snap'[u] = snap[u] /\ todo'[u] = todo[u]
      /\ pc'[t] \in {"work", "ml"} /\ snap' = snap /\ todo' = todo /\ handshake' = handshake
      /\ newphase' = newphase /\ from' = from /\ to' = to /\ left' = left /\ retries' = retries
      /\ dead' = dead
  BY <1>0 DEF TypeOK, Take, Act, Resume, Goto, stateword, flags, registry, counters, round, frame,
     scanning
<1>3. \/ /\ WordAsLoaded(t) /\ z \in inactive
         /\ inactive' = inactive \ {z} /\ helper' = helper \cup {z}
         /\ \A u \in Workers : u # z => phase'[u] = phase[u]
      \/ /\ ~WordAsLoaded(t)
         /\ phase' = phase /\ inactive' = inactive /\ helper' = helper
  BY <1>0, <1>1 DEF TypeOK, Take, WordAsLoaded, stateword
<1>4. \A w \in Workers : NeedsHelp(w)' => NeedsHelp(w) /\ phase'[w] = phase[w]
  BY <1>2, <1>3 DEF NeedsHelp
<1>5. \A u \in Workers : Searching(u)' => phase'[u] = phase[u]
  <2>. SUFFICES ASSUME NEW u \in Workers, Searching(u)' PROVE phase'[u] = phase[u]
    OBVIOUS
  <2>1. Searching(u)
    BY <1>2 DEF Searching
  <2>. QED
    BY <1>3, <2>1, SearchFacts
<1>6. SearchStep(t)
  BY <1>0, <1>2, <1>4, <1>5 DEF SearchStep
<1>7. \A w \in Workers : NeedsHelp(w)' /\ Taken(w) => Taken(w)'
  <2>. SUFFICES ASSUME NEW w \in Workers, NeedsHelp(w)', Taken(w) PROVE Taken(w)'
    OBVIOUS
  <2>1. NeedsHelp(w) /\ phase'[w] = phase[w]
    BY <1>4
  <2>2. PICK u \in Workers : pc[u] = "take" /\ Finds(u, w)
    BY DEF Taken
  <2>3. u # t
    BY <1>1, <1>3, <2>1, <2>2 DEF Finds, WordAsLoaded, NeedsHelp
  <2>. QED
    BY <1>2, <2>1, <2>2, <2>3 DEF Taken, Finds
<1>8. SearchKeeps(t)
  BY <1>2, <1>7 DEF SearchKeeps
<1>. QED
  BY <1>6, <1>8, SearchFrame

\* When the phase of a round is announced everybody has answered the one before,
\* so whoever walks a list has loaded it in that round or at its beginning.
LEMMA BeginHelp ==
  ASSUME IInv, HelpInv, NEW t \in Workers, GlobalPhase(t)
  PROVE  HelpInv'
<1>0. TypeOK /\ pc[t] = "glob" /\ ~Sending
  BY SendingFacts DEF IInv, GlobalPhase, Coordinates
<1>1. left = {} /\ newphase = from /\ \A w \in available : phase[w] = newphase
  BY <1>0 DEF IInv, RoundInv, LastInv
<1>2. /\ pc' = [pc EXCEPT ![t] = "chg"] /\ left' = available /\ phase' = phase
      /\ from' = from /\ to' = to /\ retries' = retries
      /\ handshake' = handshake /\ snap' = snap /\ todo' = todo
  BY DEF GlobalPhase, Goto, stateword, counters, scanning
<1>3. Sending' /\ \A u \in Workers : Searching(u)' <=> Searching(u)
  BY <1>0, <1>2 DEF TypeOK, Sending, Searching
<1>4. StampInv'
  BY <1>0, <1>1, <1>2, <1>3 DEF HelpInv, StampInv
<1>5. RetryInv'
  BY <1>0, <1>2 DEF HelpInv, RetryInv
<1>6. AgeInv'
  <2>. SUFFICES ASSUME NEW u \in Workers, Searching(u)
                PROVE  snap[u].stamp \in Recent(from) /\ ~(Answered(u)')
    BY <1>2, <1>3 DEF AgeInv
  <2>1. u \in available
    BY SearchFacts
  <2>. QED
    BY <1>0, <1>1, <1>2, <2>1 DEF HelpInv, AgeInv, Answered
<1>7. TodoInv'
  BY <1>2, <1>3 DEF HelpInv, TodoInv
<1>. QED
  BY <1>3, <1>4, <1>5, <1>6, <1>7 DEF HelpInv

\* A list that is still in use when the next one is published has another stamp,
\* unless MARK is repeated.
LEMMA StampFacts ==
  ASSUME NEW p, NEW q, <<p, q>> \in Rounds
  PROVE  /\ StampOf(Accept(q)) = q /\ StampOf(p) \in Recent(Accept(q))
         /\ <<p, q>> # <<MARK, PREMARK>> => q \notin Recent(p)
<1>1. StampOf(Accept(q)) = q
  BY RoundFacts DEF StampOf, Phases
<1>2. StampOf(p) \in Recent(Accept(q))
  BY <1>1, RoundFacts DEF Recent
<1>3. ASSUME <<p, q>> # <<MARK, PREMARK>> PROVE q \notin Recent(p)
  BY <1>3 DEF Recent, StampOf, Rounds, Phases, PREASYNC, ASYNC, PRESYNC1, SYNC1, PRESYNC2, SYNC2,
     PREMARK, MARK
<1>. QED
  BY <1>1, <1>2, <1>3

\* The publication of the list: all who have still to answer are on it, and nobody
\* has loaded it yet.
LEMMA PublishHelp ==
  ASSUME IInv, HelpInv, NEW t \in Workers, Publish(t)
  PROVE  HelpInv'
<1>0. /\ TypeOK /\ pc[t] = "chg" /\ left = {} /\ Sending
      /\ \A u \in Workers : u # t => pc[u] \notin {"glob", "chg"}
  BY SendingFacts DEF IInv, Publish, Sending, Coordinates
<1>1. /\ <<from, to>> \in Rounds /\ newphase = Accept(to) /\ Unanswered \subseteq list
  BY <1>0 DEF IInv, RoundInv, ChangeInv
<1>2. /\ pc' = [pc EXCEPT ![t] = "add"] /\ handshake' = [ws |-> list, stamp |-> to]
      /\ left' = left /\ phase' = phase /\ inactive' = inactive /\ helper' = helper
      /\ dead' = dead /\ newphase' = newphase /\ retries' = retries
      /\ snap' = snap /\ todo' = todo
  BY DEF Publish, Goto, stateword, flags, registry, counters, round, scanning
<1>3. /\ ~Sending' /\ \A u \in Workers : pc'[u] # "glob"
      /\ \A u \in Workers : Searching(u)' <=> Searching(u)
  BY <1>0, <1>2 DEF TypeOK, Sending, Searching
<1>4. StampInv'
  BY <1>1, <1>2, <1>3, StampFacts DEF StampInv
<1>5. RetryInv'
  BY <1>3 DEF RetryInv, Sending
<1>6. AgeInv'
  <2>. SUFFICES ASSUME NEW u \in Workers, Searching(u), Answered(u)
                PROVE  snap[u].stamp \in Recent(newphase)
    BY <1>2, <1>3 DEF AgeInv, Answered
  <2>1. snap[u].stamp = StampOf(from)
    BY <1>0 DEF HelpInv, AgeInv
  <2>. QED
    BY <1>1, <2>1, StampFacts
<1>7. TodoInv'
  BY <1>2, <1>3 DEF HelpInv, TodoInv
<1>8. CoverInv'
  <2>. SUFFICES ASSUME NEW w \in Workers, NeedsHelp(w) PROVE w \in list
    BY <1>2 DEF CoverInv, NeedsHelp
  <2>1. w \in available /\ IsPre(phase[w])
    BY DEF NeedsHelp, IInv, HoldInv, RegistryInv
  <2>. QED
    BY <1>1, <2>1 DEF Unanswered
<1>9. ASSUME ~Repeated' PROVE WalkInv'
  <2>1. to \notin Recent(from)
    <3>1. <<from, to>> # <<MARK, PREMARK>>
      BY <1>0, <1>1, <1>2, <1>9 DEF HelpInv, RetryInv, Repeated, Accept, IsPre, MARK, PREMARK
    <3>. QED
      BY <1>1, <3>1, StampFacts
  <2>2. \A u \in Workers : Searching(u) => snap[u].stamp # to
    BY <1>0, <2>1 DEF HelpInv, AgeInv
  <2>. QED
    BY <1>2, <1>3, <2>2 DEF WalkInv
<1>. QED
  BY <1>4, <1>5, <1>6, <1>7, <1>8, <1>9 DEF HelpInv

-----------------------------------------------------------------------------
\* Before the first thread registers nobody waits.
LEMMA HelpInit == Init => HelpInv
<1>. SUFFICES ASSUME Init PROVE HelpInv
  OBVIOUS
<1>1. ~Sending /\ \A t \in Workers : ~Searching(t) /\ pc[t] # "glob"
  BY DEF Init, Sending, Searching
<1>2. \A w \in Workers : ~NeedsHelp(w)
  BY DEF Init, NeedsHelp
<1>. QED
  BY <1>1, <1>2 DEF Init, HelpInv, StampInv, RetryInv, AgeInv, TodoInv, CoverInv, WalkInv, Sending,
     StampOf, NoSnap, ASYNC

\* Every step keeps HelpInv.
LEMMA HelpStep == IInv /\ HelpInv /\ [Next]_vars => HelpInv'
<1>. SUFFICES ASSUME IInv, HelpInv, [Next]_vars PROVE HelpInv'
  OBVIOUS
<1>1. TypeOK'
  BY TypeStep DEF IInv
<1>2. CASE UNCHANGED vars
  BY <1>2 DEF vars, HelpInv, StampInv, RetryInv, AgeInv, TodoInv, CoverInv, WalkInv, Sending,
     Searching, Answered, Repeated, Finds, Taken, NeedsHelp
<1>3. ASSUME NEW t \in Workers, LocalAction(t) PROVE HelpInv'
  BY <1>1, <1>3, HelpFrame, MutatorHelp, AcceptHelp, LoadHelp, ScanHelp, ScanEndHelp, UnlinkHelp,
     TakeHelp
  DEF LocalAction
<1>4. ASSUME NEW t \in Workers, AnswerAction(t) PROVE HelpInv'
  BY <1>4, HelpFrame, AnswerHelp
<1>5. ASSUME NEW t \in Workers, QuietAction(t) PROVE HelpInv'
  BY <1>5, HelpFrame, TurnHelp, AcceptHelp, PublishHelp DEF QuietAction
<1>6. ASSUME NEW t \in Workers, NEW w \in Workers, Kill(t, w) \/ ChangePhase(t, w) PROVE HelpInv'
  BY <1>6, HelpFrame, SendHelp
<1>. QED
  BY <1>2, <1>3, <1>4, <1>5, <1>6, BeginHelp, NextCases

\* HelpInv holds in every reachable state: how old the lists are that threads walk,
\* and who will come for each worker that waits.
THEOREM HelpInvariance == Spec => []HelpInv
  BY Invariance, HelpInit, HelpStep, PTL DEF Spec

\* A worker outside ML code that owes an answer is on the list that helpers read,
\* or in the hands of one of them, except while a repeated MARK is answered
\* (HelpNotLost): helpers of another round, who compare and swap what they have
\* loaded in it, take nobody off the list.
THEOREM HelpNotLostHolds == Spec => []HelpNotLost
<1>1. HelpInv /\ IInv => HelpNotLost
  BY DEF HelpInv, HelpNotLost, Sending, Repeated, CoverInv, Taken, Finds, IInv, TypeOK
<1>. QED
  BY <1>1, Invariance, HelpInvariance, PTL
=============================================================================
