--------------------------- MODULE HandshakeLocal ---------------------------
(***************************************************************************)
(* Types, the arithmetic of the phases, and what the invariant of          *)
(* HandshakeInv says about one worker; then the steps of Handshake that    *)
(* neither send nor answer a signal: registering, entering and leaving ML  *)
(* code, polling, accepting a signal and helping.  Each lemma first lists  *)
(* what the step changes and then takes the parts of IInv one by one.      *)
(***************************************************************************)
EXTENDS HandshakeInv, FiniteSetTheorems, TLAPS

\* Accepting a signal (phase | 1) gives a phase.
LEMMA AcceptType == \A p \in Phases : Accept(p) \in Phases
BY DEF Accept, IsPre, Phases

\* So does the fetch_xor of change_phase.
LEMMA XorType == \A p, q \in Phases : Xor(p, q) \in Phases
BY DEF Xor, Phases

\* Counting workers gives a natural number.
LEMMA CountType == \A S \in SUBSET Workers : Cardinality(S) \in Nat
BY WorkersFinite, FS_Subset, FS_CardinalityType

\* The initial values of control.c have their types.
LEMMA TypeInit == Init => TypeOK
BY DEF Init, TypeOK, Phases, Stamps, NoSnap, Labels, PREASYNC, ASYNC, PRESYNC1

\* Every step keeps the types, whatever else holds.
LEMMA TypeStep == TypeOK /\ [Next]_vars => TypeOK'
<1>. SUFFICES ASSUME TypeOK, [Next]_vars PROVE TypeOK'
  OBVIOUS
<1>. USE DEF TypeOK, stateword, flags, userlist, registry, counters, round,
             frame, scanning, Goto
<1>1. ASSUME NEW t \in Workers, Mutator(t) PROVE TypeOK'
  <2>1. CASE Register(t)
    BY <2>1 DEF Register, Labels
  <2>2. CASE Enter(t)
    BY <2>2 DEF Enter, Labels
  <2>3. CASE LeaveWorker(t) /\ live' \in SUBSET Workers
    BY <2>3, AcceptType DEF LeaveWorker, Act, Labels
  <2>4. CASE Cancel(t)
    BY <2>4 DEF Cancel, Labels
  <2>5. ASSUME NEW g \in BOOLEAN, StartGC(t, g) PROVE TypeOK'
    BY <2>5 DEF StartGC, Labels, ASYNC, PRESYNC1, Phases
  <2>6. CASE JoinGC(t)
    BY <2>6 DEF JoinGC
  <2>. QED
    BY <1>1, <2>1, <2>2, <2>3, <2>4, <2>5, <2>6
    DEF Mutator, Leave, End, EnterRetry
<1>2. ASSUME NEW t \in Workers, Poll(t) PROVE TypeOK'
  BY <1>2 DEF Poll, Labels
<1>3. ASSUME NEW t \in Workers, Runtime(t) PROVE TypeOK'
  <2>1. CASE Attach(t)
    BY <2>1 DEF Attach, Labels
  <2>2. ASSUME NEW p \in Phases, StoreAccepted(t, p) PROVE TypeOK'
    BY <2>2, AcceptType DEF StoreAccepted, Act, Labels
  <2>3. CASE WaitDone(t)
    BY <2>3 DEF WaitDone
  <2>4a. CASE WorkerSync1(t)
    BY <2>4a DEF WorkerSync1, Answer, Return, Resume, Labels, Phases, PREASYNC,
       Enumerator, SYNC1, PRESYNC2
  <2>4b. CASE WorkerSync2(t)
    BY <2>4b DEF WorkerSync2, Answer, Return, Resume, Labels, Phases, PREASYNC,
       SYNC2, PREMARK
  <2>5a. CASE WorkerMark(t)
    BY <2>5a DEF WorkerMark, Answer, Return, Resume, Labels, Phases, PREASYNC,
       MARK
  <2>5b. CASE WorkerAsync(t)
    BY <2>5b DEF WorkerAsync, Answer, Return, Resume, Labels, Phases, PREASYNC,
       ASYNC, PRESYNC1
  <2>6. CASE MarkFinish(t)
    BY <2>6 DEF MarkFinish, Labels
  <2>7. CASE MarkRetry(t)
    BY <2>7 DEF MarkRetry, Labels, PREMARK, Phases
  <2>8. CASE EndGC(t)
    BY <2>8 DEF EndGC, Return, Resume, Labels, PREASYNC, Phases
  <2>9. CASE GlobalPhase(t)
    BY <2>9, AcceptType DEF GlobalPhase, RegistrationPhase, Labels
  <2>10. CASE Publish(t)
    BY <2>10 DEF Publish, Labels, Stamps
  <2>11. CASE AddCount(t)
    BY <2>11, CountType DEF AddCount, Return, Resume, Labels, PREASYNC, Phases
  <2>12. ASSUME NEW w \in Workers, Kill(t, w) PROVE TypeOK'
    BY <2>12 DEF Kill
  <2>13. ASSUME NEW w \in Workers, ChangePhase(t, w) PROVE TypeOK'
    BY <2>13, XorType DEF ChangePhase
  <2>14. ASSUME NEW w \in Workers, Scan(t, w) PROVE TypeOK'
    BY <2>14 DEF Scan, Labels
  <2>15. CASE LoadHandshake(t)
    BY <2>15 DEF LoadHandshake, Labels, Stamps
  <2>16. CASE ScanEnd(t)
    BY <2>16 DEF ScanEnd, Labels, Stamps, NoSnap, Phases
  <2>17. CASE Unlink(t)
    <3>1. NoSnap \in Stamps /\ snap[t].stamp \in Phases
      BY DEF Stamps, NoSnap, Phases
    <3>2. handshake' \in Stamps
      BY <2>17, <3>1 DEF Unlink, Stamps
    <3>. QED
      BY <2>17, <3>1, <3>2 DEF Unlink, Resume, Labels, Phases, PREASYNC
  <2>18. CASE Take(t)
    BY <2>18, AcceptType DEF Take, Act, Resume, Labels, Phases, PREASYNC
  <2>19. CASE Unlock(t)
    BY <2>19 DEF Unlock, Resume, Labels, Phases, PREASYNC
  <2>20. CASE Reaccept(t)
    BY <2>20, AcceptType DEF Reaccept, Labels
  <2>. QED
    BY <1>3, <2>1, <2>2, <2>3, <2>4a, <2>4b, <2>5a, <2>5b, <2>6,
       <2>7, <2>8, <2>9, <2>10, <2>11,
       <2>12, <2>13, <2>14, <2>15, <2>16, <2>17, <2>18, <2>19, <2>20
    DEF Runtime, AcceptSignal, AnswerGreedily
<1>4. CASE UNCHANGED vars
  BY <1>4 DEF vars
<1>. QED
  BY <1>1, <1>2, <1>3, <1>4 DEF Next, Finished

-----------------------------------------------------------------------------

\* An accepted phase has no signal pending, and each signal is accepted as a
\* phase of its own.
LEMMA AcceptFacts ==
  /\ \A p \in Phases : ~IsPre(Accept(p))
  /\ \A p \in Phases : ~IsPre(p) => Accept(p) = p
  /\ \A p, q \in Phases : IsPre(p) /\ IsPre(q) /\ Accept(p) = Accept(q) => p = q
BY DEF Accept, IsPre, Phases

\* The two phases of a round: the fetch_xor of change_phase replaces the old
\* one by the new one, which has its signal pending.
LEMMA RoundFacts ==
  ASSUME NEW p, NEW q, <<p, q>> \in Rounds
  PROVE  /\ p \in Phases /\ q \in Phases /\ ~IsPre(p) /\ IsPre(q) /\ p # q
         /\ Accept(q) = q + 1 /\ Accept(q) # 0
         /\ Xor(p, Xor(p, q)) = q
BY DEF Rounds, Phases, IsPre, Accept, Xor, PREASYNC, ASYNC, PRESYNC1, SYNC1,
       PRESYNC2, SYNC2, PREMARK, MARK

\* What the rounds say about one worker, whoever coordinates.
LEMMA WorkerFacts ==
  ASSUME TypeOK, RoundInv
  PROVE  /\ left \subseteq available
         /\ \A w \in left : phase[w] = from /\ ~IsPre(phase[w])
         /\ \A w \in available : IsPre(phase[w]) =>
               newphase = Accept(phase[w]) /\ w \notin left
         /\ left # {} => \E t \in Workers : pc[t] = "chg"
<1>1. CASE \A t \in Workers : ~Coordinates(t)
  BY <1>1 DEF RoundInv, QuietInv
<1>2. ASSUME NEW t \in Workers, pc[t] \in {"mark", "glob", "endgc"}
      PROVE  /\ left = {} /\ \A w \in available : ~IsPre(phase[w])
  BY <1>2 DEF RoundInv, LastInv, Unanswered
<1>3. ASSUME NEW t \in Workers, pc[t] \in {"chg", "add"}
      PROVE  /\ left \subseteq available
             /\ \A w \in left : phase[w] = from /\ ~IsPre(phase[w])
             /\ \A w \in available : IsPre(phase[w]) =>
                   newphase = Accept(phase[w]) /\ w \notin left
             /\ left # {} => \E u \in Workers : pc[u] = "chg"
  <2>1. /\ left \subseteq available /\ <<from, to>> \in Rounds
        /\ newphase = Accept(to)
        /\ \A w \in left : phase[w] = from
        /\ \A w \in available \ left : phase[w] \in {to, newphase}
        /\ pc[t] = "add" => left = {}
    BY <1>3 DEF RoundInv, ChangeInv
  <2>. QED
    BY <1>3, <2>1, RoundFacts, AcceptFacts
<1>4. ASSUME NEW t \in Workers, pc[t] = "greedy"
      PROVE  left = {} /\ \A w \in available : Accept(phase[w]) = newphase
  BY <1>4 DEF RoundInv, CountedInv
<1>. QED
  BY <1>1, <1>2, <1>3, <1>4 DEF Coordinates

\* A step of t that is none of the coordinator's and neither sends nor answers
\* a signal: workers may register, and pending signals may be accepted.
LocalStep(t) ==
  /\ \A u \in Workers \ {t} : pc'[u] = pc[u]
  /\ ~Coordinates(t) /\ ~Coordinates(t)'
  /\ UNCHANGED <<from, to, left, list, check_flag, gc_count, newphase>>
  /\ available \subseteq available'
  /\ \A w \in available : \/ phase'[w] = phase[w]
                          \/ IsPre(phase[w]) /\ phase'[w] = Accept(phase[w])
  /\ \A w \in available' \ available : phase'[w] = newphase
  /\ Unanswered' = Unanswered

\* Such a step keeps the account of the round: what sml_check_flag counts and
\* where each worker stands.
LEMMA RoundFrame ==
  ASSUME TypeOK, RoundInv, NEW t \in Workers, LocalStep(t)
  PROVE  RoundInv'
<1>1. \A u \in Workers : Coordinates(u)' <=> Coordinates(u)
  BY DEF LocalStep, Coordinates
<1>2. \A u \in Workers : Coordinates(u) => pc'[u] = pc[u]
  BY DEF LocalStep, Coordinates
<1>3. \A w \in available' : \/ w \in available /\ phase'[w] = phase[w]
                            \/ /\ w \in available /\ IsPre(phase[w])
                               /\ phase'[w] = Accept(phase[w])
                            \/ w \notin available /\ phase'[w] = newphase
  BY DEF LocalStep
<1>4. /\ newphase \in Phases /\ ~IsPre(newphase)
      /\ \A w \in available : phase[w] \in Phases
  BY DEF TypeOK, RoundInv, RunningInv
<1>5. OneCoordinator'
  BY <1>1 DEF RoundInv, OneCoordinator
<1>6. RunningInv'
  BY <1>1 DEF RoundInv, RunningInv, LocalStep
<1>7. QuietInv'
  BY <1>1, <1>3, <1>4, AcceptFacts DEF RoundInv, QuietInv, LocalStep
<1>8. LastInv'
  <2>. SUFFICES ASSUME NEW u \in Workers, pc'[u] \in {"mark", "glob", "endgc"}
                PROVE  LastInv!(u)'
    BY DEF LastInv
  <2>. QED
    BY <1>1, <1>2, <1>3, <1>4, AcceptFacts
    DEF RoundInv, LastInv, LocalStep, Coordinates
<1>9. ChangeInv'
  <2>. SUFFICES ASSUME NEW u \in Workers, pc'[u] \in {"chg", "add"}
                PROVE  ChangeInv!(u)'
    BY DEF ChangeInv
  <2>1. pc[u] = pc'[u]
    BY <1>1, <1>2 DEF Coordinates
  <2>2. ChangeInv!(u)
    BY <2>1 DEF RoundInv, ChangeInv
  <2>3. \A w \in available' \ left : phase'[w] \in {to, newphase}
    BY <2>1, <2>2, <1>3, <1>4, RoundFacts, AcceptFacts
  <2>4. \A w \in left : phase'[w] = from
    BY <2>1, <2>2, <1>3, RoundFacts DEF LocalStep
  <2>. QED
    BY <2>1, <2>2, <2>3, <2>4, <1>3 DEF LocalStep
<1>10. CountedInv'
  BY <1>1, <1>2, <1>3, <1>4, AcceptFacts
  DEF RoundInv, CountedInv, LocalStep, Coordinates
<1>. QED
  BY <1>5, <1>6, <1>7, <1>8, <1>9, <1>10 DEF RoundInv

-----------------------------------------------------------------------------
(* Steps inside sml_check_internal, sml_wait_gc and the search of           *)
(* help_inactive: only the thread's own locals and workers_handshake.       *)

\* Between the poll and the moment a signal or a worker is taken.
Walking == {"ml", "load", "scan", "unlink", "take"}
Walk(t) ==
  /\ pc[t] \in Walking
  /\ \/ pc'[t] \in {"ml", "load", "scan"}
     \/ pc'[t] \in {"unlink", "take"} /\ IsPre(seen'[t])
     \/ pc'[t] = "accept" /\ IsPre(seen'[t]) /\ phase[t] = seen'[t]
  /\ \A u \in Workers \ {t} : /\ pc'[u] = pc[u] /\ ret'[u] = ret[u]
                              /\ tgt'[u] = tgt[u] /\ seen'[u] = seen[u]
  /\ greedy' \in {greedy, greedy \ {t}}
  /\ phase' = phase /\ inactive' = inactive /\ helper' = helper
  /\ canceled' = canceled /\ dead' = dead /\ globalenum' = globalenum
  /\ users' = users /\ live' = live
  /\ available' = available /\ newphase' = newphase
  /\ check_flag' = check_flag /\ gc_count' = gc_count
  /\ from' = from /\ to' = to /\ left' = left /\ list' = list

\* A step of the search for signals and for workers to help keeps the invariant.
LEMMA WalkStep ==
  ASSUME IInv, NEW t \in Workers, Walk(t), TypeOK'
  PROVE  IInv' /\ LocalStep(t)
<1>. USE DEF IInv, HoldInv
<1>1. /\ \A u \in Workers : Owns(u)' <=> Owns(u)
      /\ \A u \in Workers : Helps(u)' <=> Helps(u)
      /\ ~Helps(t) /\ Owns(t)
  BY DEF Walk, Walking, Owns, Helps
<1>2. /\ \A u \in Workers : u # t =>
            /\ pc'[u] = pc[u] /\ ret'[u] = ret[u]
            /\ tgt'[u] = tgt[u] /\ seen'[u] = seen[u]
      /\ pc[t] \in {"ml", "load", "scan", "unlink", "take"}
      /\ pc'[t] \in {"ml", "load", "scan", "unlink", "take", "accept"}
      /\ pc'[t] \in {"unlink", "take"} => IsPre(seen'[t])
      /\ pc'[t] = "accept" => IsPre(seen'[t]) /\ phase[t] = seen'[t]
      /\ greedy' \subseteq greedy
  BY DEF Walk, Walking
<1>3. /\ phase' = phase /\ inactive' = inactive /\ helper' = helper
      /\ canceled' = canceled /\ dead' = dead /\ globalenum' = globalenum
      /\ users' = users /\ live' = live
      /\ available' = available /\ newphase' = newphase
      /\ check_flag' = check_flag /\ gc_count' = gc_count
      /\ from' = from /\ to' = to /\ left' = left /\ list' = list
  BY DEF Walk
<1>4. RegistryInv'
  BY <1>1, <1>2, <1>3 DEF LockInv, RegistryInv, TypeOK
<1>5. LockInv'
  BY <1>1, <1>2, <1>3 DEF LockInv
<1>6. ActInv'
  BY <1>1, <1>2, <1>3 DEF ActInv
<1>7. SeenInv'
  BY <1>1, <1>2, <1>3 DEF SeenInv
<1>8. GreedyInv'
  BY <1>1, <1>2, <1>3 DEF Busy, GreedyInv, TypeOK
<1>9. HelperInv'
  BY <1>1, <1>2, <1>3 DEF HelperInv
<1>10. Unanswered' = Unanswered /\ Pending' = Pending
  <2>1. {tgt'[u] : u \in {v \in Workers : pc'[v] = "work"}}
        = {tgt[u] : u \in {v \in Workers : pc[v] = "work"}}
    BY <1>2
  <2>. QED
    BY <1>3, <2>1 DEF Unanswered, Pending
<1>11. LocalStep(t)
  BY <1>2, <1>3, <1>10 DEF LocalStep, Coordinates
<1>12. RoundInv'
  BY <1>11, RoundFrame
<1>13. EnumInv'
  <2>1. \A u \in Workers : pc'[u] = "glob" <=> pc[u] = "glob"
    BY <1>2
  <2>. QED
    BY <2>1, <1>3, <1>10 DEF EnumInv
<1>. QED
  BY <1>4, <1>5, <1>6, <1>7, <1>8, <1>9, <1>11, <1>12, <1>13

\* The poll, the search of help_inactive, a worker that was taken by somebody
\* else in between, and the loop of sml_wait_gc are such steps.
LEMMA WalkingSteps ==
  ASSUME IInv, NEW t \in Workers,
         \/ Poll(t) \/ LoadHandshake(t) \/ (\E w \in Workers : Scan(t, w))
         \/ ScanEnd(t) \/ Unlink(t) \/ (Take(t) /\ ~WordAsLoaded(t))
         \/ JoinGC(t) \/ WaitDone(t)
  PROVE  Walk(t)
<1>. USE DEF Walk, Walking, Goto, stateword, flags, userlist, registry,
             counters, round, frame, scanning
<1>1. TypeOK /\ (pc[t] = "unlink" => IsPre(seen[t]))
  BY DEF IInv, HoldInv, SeenInv
<1>2. CASE Poll(t)
  BY <1>1, <1>2 DEF TypeOK, Poll
<1>3. CASE LoadHandshake(t)
  BY <1>1, <1>3 DEF TypeOK, LoadHandshake
<1>4. ASSUME NEW w \in Workers, Scan(t, w) PROVE Walk(t)
  BY <1>1, <1>4 DEF TypeOK, Scan, NeedsHelp
<1>5. CASE ScanEnd(t)
  BY <1>1, <1>5 DEF TypeOK, ScanEnd
<1>6. CASE Unlink(t)
  BY <1>1, <1>6 DEF TypeOK, Unlink, Resume
<1>7. CASE Take(t) /\ ~WordAsLoaded(t)
  BY <1>1, <1>7 DEF TypeOK, Take, Resume
<1>8. CASE JoinGC(t) \/ WaitDone(t)
  BY <1>1, <1>8 DEF TypeOK, JoinGC, WaitDone
<1>. QED
  BY <1>2, <1>3, <1>4, <1>5, <1>6, <1>7, <1>8


-----------------------------------------------------------------------------
(* Entering ML code and leaving it.                                          *)

\* enter_worker of a new worker keeps the invariant: it joins with no signal
\* pending, so no round waits for it.
LEMMA RegisterStep ==
  ASSUME IInv, NEW t \in Workers, Register(t),
         TypeOK'
  PROVE  IInv' /\ LocalStep(t)
<1>. USE DEF IInv, HoldInv
<1>1. /\ left \subseteq available
      /\ \A w \in left : phase[w] = from /\ ~IsPre(phase[w])
      /\ \A w \in available : IsPre(phase[w]) =>
            newphase = Accept(phase[w]) /\ w \notin left
      /\ ~IsPre(newphase)
  BY WorkerFacts DEF RoundInv, RunningInv
<1>2. /\ pc[t] = "out" /\ t \notin available
      /\ pc' = [pc EXCEPT ![t] = "ml"]
      /\ phase' = [phase EXCEPT ![t] = newphase]
      /\ inactive' = inactive \ {t} /\ helper' = helper \ {t}
      /\ available' = available \cup {t}
      /\ users' = users \cup {t} /\ live' = live \cup {t}
      /\ UNCHANGED <<canceled, dead, globalenum, newphase, ret, tgt, greedy,
                     seen, check_flag, gc_count, from, to, left, list>>
  BY DEF Register, Goto, TypeOK, stateword, flags, userlist, registry,
      counters, round, frame, scanning
<1>3. RegistryInv'
  BY <1>1, <1>2, AcceptFacts DEF Helps, Owns, TypeOK, RegistryInv, LockInv,
      SeenInv
<1>4. LockInv'
  BY <1>1, <1>2, AcceptFacts DEF Helps, Owns, TypeOK, RegistryInv, LockInv,
      ActInv, SeenInv
<1>5. ActInv'
  BY <1>1, <1>2, AcceptFacts DEF Helps, Owns, TypeOK, RegistryInv, LockInv,
      ActInv, SeenInv
<1>6. SeenInv'
  BY <1>1, <1>2, AcceptFacts DEF Helps, Owns, TypeOK, RegistryInv, LockInv,
      ActInv, SeenInv
<1>7. GreedyInv'
  BY <1>1, <1>2, AcceptFacts DEF Helps, Owns, TypeOK, Busy, GreedyInv,
      LockInv, SeenInv
<1>8. HelperInv'
  BY <1>1, <1>2, AcceptFacts DEF Helps, Owns, TypeOK, ActInv, HelperInv,
      LockInv, SeenInv
<1>9. EnumInv'
  BY <1>1, <1>2, AcceptFacts DEF Helps, Owns, TypeOK, ActInv, EnumInv,
      LockInv, Pending, RegistryInv, SeenInv
<1>10. LocalStep(t)
  BY <1>1, <1>2, AcceptFacts DEF Helps, Owns, TypeOK, ActInv, Coordinates,
      LocalStep, LockInv, RegistryInv, SeenInv, Unanswered
<1>11. RoundInv'
  BY <1>10, RoundFrame
<1>. QED
  BY <1>3, <1>4, <1>5, <1>6, <1>7, <1>8, <1>9, <1>10, <1>11

\* enter_worker of a registered worker: the lock it takes was free.
LEMMA EnterStep ==
  ASSUME IInv, NEW t \in Workers, Enter(t),
         TypeOK'
  PROVE  IInv' /\ LocalStep(t)
<1>. USE DEF IInv, HoldInv
<1>1. /\ left \subseteq available
      /\ \A w \in left : phase[w] = from /\ ~IsPre(phase[w])
      /\ \A w \in available : IsPre(phase[w]) =>
            newphase = Accept(phase[w]) /\ w \notin left
      /\ ~IsPre(newphase)
  BY WorkerFacts DEF RoundInv, RunningInv
<1>2. /\ pc[t] = "out" /\ t \in available \cap inactive
      /\ pc' = [pc EXCEPT ![t] = "entered"]
      /\ inactive' = inactive \ {t}
      /\ UNCHANGED <<phase, helper, canceled, dead, globalenum, users, live,
                     available, newphase, ret, tgt, greedy, seen,
                     check_flag, gc_count, from, to, left, list>>
  BY DEF Enter, Unlocked, Goto, TypeOK, stateword, flags, userlist, registry,
      counters, round, frame, scanning
<1>3. RegistryInv'
  BY <1>1, <1>2, AcceptFacts DEF Helps, Owns, TypeOK, RegistryInv, LockInv,
      SeenInv
<1>4. LockInv'
  BY <1>1, <1>2, AcceptFacts DEF Helps, Owns, TypeOK, RegistryInv, LockInv,
      ActInv, SeenInv
<1>5. ActInv'
  BY <1>1, <1>2, AcceptFacts DEF Helps, Owns, TypeOK, RegistryInv, LockInv,
      ActInv, SeenInv
<1>6. SeenInv'
  BY <1>1, <1>2, AcceptFacts DEF Helps, Owns, TypeOK, RegistryInv, LockInv,
      ActInv, SeenInv
<1>7. GreedyInv'
  BY <1>1, <1>2, AcceptFacts DEF Helps, Owns, TypeOK, Busy, GreedyInv,
      LockInv, SeenInv
<1>8. HelperInv'
  BY <1>1, <1>2, AcceptFacts DEF Helps, Owns, TypeOK, ActInv, HelperInv,
      LockInv, SeenInv
<1>9. EnumInv'
  BY <1>1, <1>2, AcceptFacts DEF Helps, Owns, TypeOK, ActInv, EnumInv,
      LockInv, Pending, RegistryInv, SeenInv
<1>10. LocalStep(t)
  BY <1>1, <1>2, AcceptFacts DEF Helps, Owns, TypeOK, ActInv, Coordinates,
      LocalStep, LockInv, RegistryInv, SeenInv, Unanswered
<1>11. RoundInv'
  BY <1>10, RoundFrame
<1>. QED
  BY <1>3, <1>4, <1>5, <1>6, <1>7, <1>8, <1>9, <1>10, <1>11

\* sml_start attaches the user to the worker.
LEMMA AttachStep ==
  ASSUME IInv, NEW t \in Workers, Attach(t),
         TypeOK'
  PROVE  IInv' /\ LocalStep(t)
<1>. USE DEF IInv, HoldInv
<1>1. /\ left \subseteq available
      /\ \A w \in left : phase[w] = from /\ ~IsPre(phase[w])
      /\ \A w \in available : IsPre(phase[w]) =>
            newphase = Accept(phase[w]) /\ w \notin left
      /\ ~IsPre(newphase)
  BY WorkerFacts DEF RoundInv, RunningInv
<1>2. /\ pc[t] = "entered"
      /\ pc' = [pc EXCEPT ![t] = "ml"]
      /\ users' = users \cup {t} /\ live' = live \cup {t}
      /\ UNCHANGED <<phase, inactive, helper, canceled, dead, globalenum,
                     available, newphase, ret, tgt, greedy, seen,
                     check_flag, gc_count, from, to, left, list>>
  BY DEF Attach, Goto, TypeOK, stateword, flags, userlist, registry, counters,
      round, frame, scanning
<1>3. RegistryInv'
  BY <1>1, <1>2, AcceptFacts DEF Helps, Owns, TypeOK, RegistryInv, LockInv,
      SeenInv
<1>4. LockInv'
  BY <1>1, <1>2, AcceptFacts DEF Helps, Owns, TypeOK, RegistryInv, LockInv,
      ActInv, SeenInv
<1>5. ActInv'
  BY <1>1, <1>2, AcceptFacts DEF Helps, Owns, TypeOK, RegistryInv, LockInv,
      ActInv, SeenInv
<1>6. SeenInv'
  BY <1>1, <1>2, AcceptFacts DEF Helps, Owns, TypeOK, RegistryInv, LockInv,
      ActInv, SeenInv
<1>7. GreedyInv'
  BY <1>1, <1>2, AcceptFacts DEF Helps, Owns, TypeOK, Busy, GreedyInv,
      LockInv, SeenInv
<1>8. HelperInv'
  BY <1>1, <1>2, AcceptFacts DEF Helps, Owns, TypeOK, ActInv, HelperInv,
      LockInv, SeenInv
<1>9. EnumInv'
  BY <1>1, <1>2, AcceptFacts DEF Helps, Owns, TypeOK, ActInv, EnumInv,
      LockInv, Pending, RegistryInv, SeenInv
<1>10. LocalStep(t)
  BY <1>1, <1>2, AcceptFacts DEF Helps, Owns, TypeOK, ActInv, Coordinates,
      LocalStep, LockInv, RegistryInv, SeenInv, Unanswered
<1>11. RoundInv'
  BY <1>10, RoundFrame
<1>. QED
  BY <1>3, <1>4, <1>5, <1>6, <1>7, <1>8, <1>9, <1>10, <1>11

\* cancel_worker marks the context; change_phase kills it later.
LEMMA CancelStep ==
  ASSUME IInv, NEW t \in Workers, Cancel(t),
         TypeOK'
  PROVE  IInv' /\ LocalStep(t)
<1>. USE DEF IInv, HoldInv
<1>1. /\ left \subseteq available
      /\ \A w \in left : phase[w] = from /\ ~IsPre(phase[w])
      /\ \A w \in available : IsPre(phase[w]) =>
            newphase = Accept(phase[w]) /\ w \notin left
      /\ ~IsPre(newphase)
  BY WorkerFacts DEF RoundInv, RunningInv
<1>2. /\ pc[t] = "out" /\ t \in available
      /\ pc' = [pc EXCEPT ![t] = "dead"]
      /\ canceled' = canceled \cup {t}
      /\ UNCHANGED <<phase, inactive, helper, dead, globalenum, users, live,
                     available, newphase, ret, tgt, greedy, seen,
                     check_flag, gc_count, from, to, left, list>>
  BY DEF Cancel, Goto, TypeOK, stateword, flags, userlist, registry, counters,
      round, frame, scanning
<1>3. RegistryInv'
  BY <1>1, <1>2, AcceptFacts DEF Helps, Owns, TypeOK, RegistryInv, LockInv,
      SeenInv
<1>4. LockInv'
  BY <1>1, <1>2, AcceptFacts DEF Helps, Owns, TypeOK, RegistryInv, LockInv,
      ActInv, SeenInv
<1>5. ActInv'
  BY <1>1, <1>2, AcceptFacts DEF Helps, Owns, TypeOK, RegistryInv, LockInv,
      ActInv, SeenInv
<1>6. SeenInv'
  BY <1>1, <1>2, AcceptFacts DEF Helps, Owns, TypeOK, RegistryInv, LockInv,
      ActInv, SeenInv
<1>7. GreedyInv'
  BY <1>1, <1>2, AcceptFacts DEF Helps, Owns, TypeOK, Busy, GreedyInv,
      LockInv, SeenInv
<1>8. HelperInv'
  BY <1>1, <1>2, AcceptFacts DEF Helps, Owns, TypeOK, ActInv, HelperInv,
      LockInv, SeenInv
<1>9. EnumInv'
  BY <1>1, <1>2, AcceptFacts DEF Helps, Owns, TypeOK, ActInv, EnumInv,
      LockInv, Pending, RegistryInv, SeenInv
<1>10. LocalStep(t)
  BY <1>1, <1>2, AcceptFacts DEF Helps, Owns, TypeOK, ActInv, Coordinates,
      LocalStep, LockInv, RegistryInv, SeenInv, Unanswered
<1>11. RoundInv'
  BY <1>10, RoundFrame
<1>. QED
  BY <1>3, <1>4, <1>5, <1>6, <1>7, <1>8, <1>9, <1>10, <1>11

\* leave_worker with a signal pending: the fetch_or accepts it, and the action
\* goes on although the worker is unlocked.
LEMMA LeaveActStep ==
  ASSUME IInv, NEW t \in Workers, LeaveWorker(t), pc[t] \in {"ml", "entered"},
         live' \in {live, live \ {t}}, IsPre(phase[t]),
         TypeOK'
  PROVE  IInv' /\ LocalStep(t)
<1>. USE DEF IInv, HoldInv
<1>1. /\ left \subseteq available
      /\ \A w \in left : phase[w] = from /\ ~IsPre(phase[w])
      /\ \A w \in available : IsPre(phase[w]) =>
            newphase = Accept(phase[w]) /\ w \notin left
      /\ ~IsPre(newphase)
  BY WorkerFacts DEF RoundInv, RunningInv
<1>2. /\ pc' = [pc EXCEPT ![t] = "work"]
      /\ phase' = [phase EXCEPT ![t] = Accept(phase[t])]
      /\ inactive' = inactive \cup {t}
      /\ tgt' = [tgt EXCEPT ![t] = t]
      /\ seen' = [seen EXCEPT ![t] = phase[t]]
      /\ ret' = [ret EXCEPT ![t] = "out"]
      /\ UNCHANGED <<canceled, dead, globalenum, users, available, newphase,
                     check_flag, gc_count, from, to, left, list, helper,
                     greedy>>
  BY DEF LeaveWorker, Act, Goto, LockInv, Owns, TypeOK, stateword, flags,
      userlist, registry, counters, round, frame, scanning
<1>3. RegistryInv'
  BY <1>1, <1>2, AcceptFacts DEF Helps, Owns, TypeOK, RegistryInv, LockInv,
      SeenInv
<1>4. LockInv'
  BY <1>1, <1>2, AcceptFacts DEF Helps, Owns, TypeOK, RegistryInv, LockInv,
      ActInv, SeenInv
<1>5. ActInv'
  BY <1>1, <1>2, AcceptFacts DEF Helps, Owns, TypeOK, RegistryInv, LockInv,
      ActInv, SeenInv
<1>6. SeenInv'
  BY <1>1, <1>2, AcceptFacts DEF Helps, Owns, TypeOK, RegistryInv, LockInv,
      ActInv, SeenInv
<1>7. GreedyInv'
  BY <1>1, <1>2, AcceptFacts DEF Helps, Owns, TypeOK, Busy, GreedyInv,
      LockInv, SeenInv
<1>8. HelperInv'
  BY <1>1, <1>2, AcceptFacts DEF Helps, Owns, TypeOK, ActInv, HelperInv,
      LockInv, SeenInv
<1>9. EnumInv'
  BY <1>1, <1>2, AcceptFacts DEF Helps, Owns, TypeOK, ActInv, EnumInv,
      LockInv, Pending, RegistryInv, SeenInv
<1>10. LocalStep(t)
  BY <1>1, <1>2, AcceptFacts DEF Helps, Owns, TypeOK, ActInv, Coordinates,
      LocalStep, LockInv, RegistryInv, SeenInv, Unanswered
<1>11. RoundInv'
  BY <1>10, RoundFrame
<1>. QED
  BY <1>3, <1>4, <1>5, <1>6, <1>7, <1>8, <1>9, <1>10, <1>11

\* leave_worker without a signal.
LEMMA LeaveQuietStep ==
  ASSUME IInv, NEW t \in Workers, LeaveWorker(t), pc[t] \in {"ml", "entered"},
         live' \in {live, live \ {t}}, ~IsPre(phase[t]),
         TypeOK'
  PROVE  IInv' /\ LocalStep(t)
<1>. USE DEF IInv, HoldInv
<1>1. /\ left \subseteq available
      /\ \A w \in left : phase[w] = from /\ ~IsPre(phase[w])
      /\ \A w \in available : IsPre(phase[w]) =>
            newphase = Accept(phase[w]) /\ w \notin left
      /\ ~IsPre(newphase)
  BY WorkerFacts DEF RoundInv, RunningInv
<1>2. /\ pc' = [pc EXCEPT ![t] = "out"]
      /\ inactive' = inactive \cup {t}
      /\ UNCHANGED <<canceled, dead, globalenum, users, available, newphase,
                     check_flag, gc_count, from, to, left, list, phase, helper,
                     ret, tgt, greedy, seen>>
  BY DEF LeaveWorker, Goto, Accept, TypeOK, stateword, flags, userlist,
      registry, counters, round, frame, scanning
<1>3. RegistryInv'
  BY <1>1, <1>2, AcceptFacts DEF Helps, Owns, TypeOK, RegistryInv, LockInv,
      SeenInv
<1>4. LockInv'
  BY <1>1, <1>2, AcceptFacts DEF Helps, Owns, TypeOK, RegistryInv, LockInv,
      ActInv, SeenInv
<1>5. ActInv'
  BY <1>1, <1>2, AcceptFacts DEF Helps, Owns, TypeOK, RegistryInv, LockInv,
      ActInv, SeenInv
<1>6. SeenInv'
  BY <1>1, <1>2, AcceptFacts DEF Helps, Owns, TypeOK, RegistryInv, LockInv,
      ActInv, SeenInv
<1>7. GreedyInv'
  BY <1>1, <1>2, AcceptFacts DEF Helps, Owns, TypeOK, Busy, GreedyInv,
      LockInv, SeenInv
<1>8. HelperInv'
  BY <1>1, <1>2, AcceptFacts DEF Helps, Owns, TypeOK, ActInv, HelperInv,
      LockInv, SeenInv
<1>9. EnumInv'
  BY <1>1, <1>2, AcceptFacts DEF Helps, Owns, TypeOK, ActInv, EnumInv,
      LockInv, Pending, RegistryInv, SeenInv
<1>10. LocalStep(t)
  BY <1>1, <1>2, AcceptFacts DEF Helps, Owns, TypeOK, ActInv, Coordinates,
      LocalStep, LockInv, RegistryInv, SeenInv, Unanswered
<1>11. RoundInv'
  BY <1>10, RoundFrame
<1>. QED
  BY <1>3, <1>4, <1>5, <1>6, <1>7, <1>8, <1>9, <1>10, <1>11

-----------------------------------------------------------------------------
(* Accepting a signal, for the own worker or for another one.                *)

\* sml_check_internal accepts the signal of its own worker.
LEMMA AcceptSignalStep ==
  ASSUME IInv, NEW t \in Workers, AcceptSignal(t),
         TypeOK'
  PROVE  IInv' /\ LocalStep(t)
<1>. USE DEF IInv, HoldInv
<1>1. /\ left \subseteq available
      /\ \A w \in left : phase[w] = from /\ ~IsPre(phase[w])
      /\ \A w \in available : IsPre(phase[w]) =>
            newphase = Accept(phase[w]) /\ w \notin left
      /\ ~IsPre(newphase)
  BY WorkerFacts DEF RoundInv, RunningInv
<1>2. /\ pc[t] = "accept"
      /\ pc' = [pc EXCEPT ![t] = "work"]
      /\ phase' = [phase EXCEPT ![t] = Accept(seen[t])]
      /\ tgt' = [tgt EXCEPT ![t] = t]
      /\ ret' = [ret EXCEPT ![t] = "ml"]
      /\ greedy' = greedy \cup {t}
      /\ UNCHANGED <<canceled, dead, globalenum, users, available, newphase,
                     check_flag, gc_count, from, to, left, list, live, inactive,
                     helper, seen>>
  BY DEF AcceptSignal, StoreAccepted, Act, Goto, LockInv, Owns, TypeOK,
      stateword, flags, userlist, registry, counters, round, frame, scanning
<1>3. RegistryInv'
  BY <1>1, <1>2, AcceptFacts DEF Helps, Owns, TypeOK, RegistryInv, LockInv,
      SeenInv
<1>4. LockInv'
  BY <1>1, <1>2, AcceptFacts DEF Helps, Owns, TypeOK, RegistryInv, LockInv,
      ActInv, SeenInv
<1>5. ActInv'
  BY <1>1, <1>2, AcceptFacts DEF Helps, Owns, TypeOK, RegistryInv, LockInv,
      ActInv, SeenInv
<1>6. SeenInv'
  BY <1>1, <1>2, AcceptFacts DEF Helps, Owns, TypeOK, RegistryInv, LockInv,
      ActInv, SeenInv
<1>7. GreedyInv'
  BY <1>1, <1>2, AcceptFacts DEF Helps, Owns, TypeOK, Busy, GreedyInv,
      LockInv, SeenInv
<1>8. HelperInv'
  BY <1>1, <1>2, AcceptFacts DEF Helps, Owns, TypeOK, ActInv, HelperInv,
      LockInv, SeenInv
<1>9. EnumInv'
  BY <1>1, <1>2, AcceptFacts DEF Helps, Owns, TypeOK, ActInv, EnumInv,
      LockInv, Pending, RegistryInv, SeenInv
<1>10. LocalStep(t)
  BY <1>1, <1>2, AcceptFacts DEF Helps, Owns, TypeOK, ActInv, Coordinates,
      LocalStep, LockInv, RegistryInv, SeenInv, Unanswered
<1>11. RoundInv'
  BY <1>10, RoundFrame
<1>. QED
  BY <1>3, <1>4, <1>5, <1>6, <1>7, <1>8, <1>9, <1>10, <1>11

\* help_inactive takes a worker: it was unlocked, so nobody else has it.
LEMMA TakeActStep ==
  ASSUME IInv, NEW t \in Workers, Take(t), WordAsLoaded(t),
         TypeOK'
  PROVE  IInv' /\ LocalStep(t)
<1>. USE DEF IInv, HoldInv
<1>1. /\ left \subseteq available
      /\ \A w \in left : phase[w] = from /\ ~IsPre(phase[w])
      /\ \A w \in available : IsPre(phase[w]) =>
            newphase = Accept(phase[w]) /\ w \notin left
      /\ ~IsPre(newphase)
  BY WorkerFacts DEF RoundInv, RunningInv
<1>2. /\ pc[t] = "take"
      /\ phase[tgt[t]] = seen[t] /\ tgt[t] \in inactive \ helper
      /\ pc' = [pc EXCEPT ![t] = "work"]
      /\ phase' = [phase EXCEPT ![tgt[t]] = Accept(seen[t])]
      /\ inactive' = inactive \ {tgt[t]} /\ helper' = helper \cup {tgt[t]}
      /\ ret' = [ret EXCEPT ![t] = "helped"]
      /\ UNCHANGED <<canceled, dead, globalenum, users, available, newphase,
                     check_flag, gc_count, from, to, left, list, live, tgt,
                     seen, greedy>>
  BY DEF Take, Act, Goto, WordAsLoaded, TypeOK, stateword, flags, userlist,
      registry, counters, round, frame, scanning
<1>3. RegistryInv'
  BY <1>1, <1>2, AcceptFacts DEF Helps, Owns, TypeOK, RegistryInv, LockInv,
      SeenInv
<1>4. LockInv'
  BY <1>1, <1>2, AcceptFacts DEF Helps, Owns, TypeOK, RegistryInv, LockInv,
      ActInv, SeenInv
<1>5. ActInv'
  BY <1>1, <1>2, AcceptFacts DEF Helps, Owns, TypeOK, RegistryInv, LockInv,
      ActInv, SeenInv
<1>6. SeenInv'
  BY <1>1, <1>2, AcceptFacts DEF Helps, Owns, TypeOK, RegistryInv, LockInv,
      ActInv, SeenInv
<1>7. GreedyInv'
  BY <1>1, <1>2, AcceptFacts DEF Helps, Owns, TypeOK, Busy, GreedyInv,
      LockInv, SeenInv
<1>8. HelperInv'
  BY <1>1, <1>2, AcceptFacts DEF Helps, Owns, TypeOK, ActInv, HelperInv,
      LockInv, SeenInv
<1>9. EnumInv'
  BY <1>1, <1>2, AcceptFacts DEF Helps, Owns, TypeOK, ActInv, EnumInv,
      LockInv, Pending, RegistryInv, SeenInv
<1>10. LocalStep(t)
  BY <1>1, <1>2, AcceptFacts DEF Helps, Owns, TypeOK, ActInv, Coordinates,
      LocalStep, LockInv, RegistryInv, SeenInv, Unanswered
<1>11. RoundInv'
  BY <1>10, RoundFrame
<1>. QED
  BY <1>3, <1>4, <1>5, <1>6, <1>7, <1>8, <1>9, <1>10, <1>11

\* help_inactive gives the worker back.
LEMMA UnlockFreeStep ==
  ASSUME IInv, NEW t \in Workers, Unlock(t), phase[tgt[t]] = Accept(seen[t]),
         TypeOK'
  PROVE  IInv' /\ LocalStep(t)
<1>. USE DEF IInv, HoldInv
<1>1. /\ left \subseteq available
      /\ \A w \in left : phase[w] = from /\ ~IsPre(phase[w])
      /\ \A w \in available : IsPre(phase[w]) =>
            newphase = Accept(phase[w]) /\ w \notin left
      /\ ~IsPre(newphase)
  BY WorkerFacts DEF RoundInv, RunningInv
<1>2. /\ pc[t] = "helped"
      /\ pc' = [pc EXCEPT ![t] = "ml"]
      /\ inactive' = inactive \cup {tgt[t]} /\ helper' = helper \ {tgt[t]}
      /\ tgt' = [tgt EXCEPT ![t] = t]
      /\ seen' = [seen EXCEPT ![t] = PREASYNC]
      /\ ret' = [ret EXCEPT ![t] = "out"]
      /\ greedy' = greedy \ {t}
      /\ UNCHANGED <<canceled, dead, globalenum, users, available, newphase,
                     check_flag, gc_count, from, to, left, list, live, phase>>
  BY DEF Unlock, Resume, Goto, Helps, LockInv, TypeOK, stateword, flags,
      userlist, registry, counters, round, frame, scanning
<1>3. RegistryInv'
  BY <1>1, <1>2, AcceptFacts DEF Helps, Owns, TypeOK, RegistryInv, LockInv,
      SeenInv
<1>4. LockInv'
  BY <1>1, <1>2, AcceptFacts DEF Helps, Owns, TypeOK, RegistryInv, LockInv,
      ActInv, SeenInv
<1>5. ActInv'
  BY <1>1, <1>2, AcceptFacts DEF Helps, Owns, TypeOK, RegistryInv, LockInv,
      ActInv, SeenInv
<1>6. SeenInv'
  BY <1>1, <1>2, AcceptFacts DEF Helps, Owns, TypeOK, RegistryInv, LockInv,
      ActInv, SeenInv
<1>7. GreedyInv'
  BY <1>1, <1>2, AcceptFacts DEF Helps, Owns, TypeOK, Busy, GreedyInv,
      LockInv, SeenInv
<1>8. HelperInv'
  BY <1>1, <1>2, AcceptFacts DEF Helps, Owns, TypeOK, ActInv, HelperInv,
      LockInv, SeenInv
<1>9. EnumInv'
  BY <1>1, <1>2, AcceptFacts DEF Helps, Owns, TypeOK, ActInv, EnumInv,
      LockInv, Pending, RegistryInv, SeenInv
<1>10. LocalStep(t)
  BY <1>1, <1>2, AcceptFacts DEF Helps, Owns, TypeOK, ActInv, Coordinates,
      LocalStep, LockInv, RegistryInv, SeenInv, Unanswered
<1>11. RoundInv'
  BY <1>10, RoundFrame
<1>. QED
  BY <1>3, <1>4, <1>5, <1>6, <1>7, <1>8, <1>9, <1>10, <1>11

\* help_inactive finds the next signal on the worker it holds.
LEMMA UnlockAgainStep ==
  ASSUME IInv, NEW t \in Workers, Unlock(t), phase[tgt[t]] # Accept(seen[t]),
         TypeOK'
  PROVE  IInv' /\ LocalStep(t)
<1>. USE DEF IInv, HoldInv
<1>1. /\ left \subseteq available
      /\ \A w \in left : phase[w] = from /\ ~IsPre(phase[w])
      /\ \A w \in available : IsPre(phase[w]) =>
            newphase = Accept(phase[w]) /\ w \notin left
      /\ ~IsPre(newphase)
  BY WorkerFacts DEF RoundInv, RunningInv
<1>2. /\ pc[t] = "helped"
      /\ pc' = [pc EXCEPT ![t] = "reaccept"]
      /\ seen' = [seen EXCEPT ![t] = phase[tgt[t]]]
      /\ UNCHANGED <<canceled, dead, globalenum, users, available, newphase,
                     check_flag, gc_count, from, to, left, list, live, phase,
                     inactive, helper, ret, tgt, greedy>>
  BY DEF Unlock, Goto, TypeOK, stateword, flags, userlist, registry, counters,
      round, frame, scanning
<1>3. RegistryInv'
  BY <1>1, <1>2, AcceptFacts DEF Helps, Owns, TypeOK, RegistryInv, LockInv,
      SeenInv
<1>4. LockInv'
  BY <1>1, <1>2, AcceptFacts DEF Helps, Owns, TypeOK, RegistryInv, LockInv,
      ActInv, SeenInv
<1>5. ActInv'
  BY <1>1, <1>2, AcceptFacts DEF Helps, Owns, TypeOK, RegistryInv, LockInv,
      ActInv, SeenInv
<1>6. SeenInv'
  BY <1>1, <1>2, AcceptFacts DEF Helps, Owns, TypeOK, RegistryInv, LockInv,
      ActInv, SeenInv
<1>7. GreedyInv'
  BY <1>1, <1>2, AcceptFacts DEF Helps, Owns, TypeOK, Busy, GreedyInv,
      LockInv, SeenInv
<1>8. HelperInv'
  BY <1>1, <1>2, AcceptFacts DEF Helps, Owns, TypeOK, ActInv, HelperInv,
      LockInv, SeenInv
<1>9. EnumInv'
  BY <1>1, <1>2, AcceptFacts DEF Helps, Owns, TypeOK, ActInv, EnumInv,
      LockInv, Pending, RegistryInv, SeenInv
<1>10. LocalStep(t)
  BY <1>1, <1>2, AcceptFacts DEF Helps, Owns, TypeOK, ActInv, Coordinates,
      LocalStep, LockInv, RegistryInv, SeenInv, Unanswered
<1>11. RoundInv'
  BY <1>10, RoundFrame
<1>. QED
  BY <1>3, <1>4, <1>5, <1>6, <1>7, <1>8, <1>9, <1>10, <1>11

\* help_inactive accepts that signal too.
LEMMA ReacceptStep ==
  ASSUME IInv, NEW t \in Workers, Reaccept(t),
         TypeOK'
  PROVE  IInv' /\ LocalStep(t)
<1>. USE DEF IInv, HoldInv
<1>1. /\ left \subseteq available
      /\ \A w \in left : phase[w] = from /\ ~IsPre(phase[w])
      /\ \A w \in available : IsPre(phase[w]) =>
            newphase = Accept(phase[w]) /\ w \notin left
      /\ ~IsPre(newphase)
  BY WorkerFacts DEF RoundInv, RunningInv
<1>2. /\ pc[t] = "reaccept"
      /\ pc' = [pc EXCEPT ![t] = "work"]
      /\ phase' = [phase EXCEPT ![tgt[t]] = Accept(seen[t])]
      /\ UNCHANGED <<canceled, dead, globalenum, users, available, newphase,
                     check_flag, gc_count, from, to, left, list, live, inactive,
                     helper, ret, tgt, greedy, seen>>
  BY DEF Reaccept, Goto, TypeOK, stateword, flags, userlist, registry,
      counters, round, frame, scanning
<1>3. RegistryInv'
  BY <1>1, <1>2, AcceptFacts DEF Helps, Owns, TypeOK, RegistryInv, LockInv,
      SeenInv
<1>4. LockInv'
  BY <1>1, <1>2, AcceptFacts DEF Helps, Owns, TypeOK, RegistryInv, LockInv,
      ActInv, SeenInv
<1>5. ActInv'
  BY <1>1, <1>2, AcceptFacts DEF Helps, Owns, TypeOK, RegistryInv, LockInv,
      ActInv, SeenInv
<1>6. SeenInv'
  BY <1>1, <1>2, AcceptFacts DEF Helps, Owns, TypeOK, RegistryInv, LockInv,
      ActInv, SeenInv
<1>7. GreedyInv'
  BY <1>1, <1>2, AcceptFacts DEF Helps, Owns, TypeOK, Busy, GreedyInv,
      LockInv, SeenInv
<1>8. HelperInv'
  BY <1>1, <1>2, AcceptFacts DEF Helps, Owns, TypeOK, ActInv, HelperInv,
      LockInv, SeenInv
<1>9. EnumInv'
  BY <1>1, <1>2, AcceptFacts DEF Helps, Owns, TypeOK, ActInv, EnumInv,
      LockInv, Pending, RegistryInv, SeenInv
<1>10. LocalStep(t)
  BY <1>1, <1>2, AcceptFacts DEF Helps, Owns, TypeOK, ActInv, Coordinates,
      LocalStep, LockInv, RegistryInv, SeenInv, Unanswered
<1>11. RoundInv'
  BY <1>10, RoundFrame
<1>. QED
  BY <1>3, <1>4, <1>5, <1>6, <1>7, <1>8, <1>9, <1>10, <1>11

=============================================================================
