-------------------------- MODULE HandshakeRounds --------------------------
(***************************************************************************)
(* The steps of Handshake that start a collection, answer a signal or      *)
(* coordinate a round preserve the invariant.                              *)
(***************************************************************************)
EXTENDS HandshakeLocal

\* Thread t goes on from one piece of collector work to the next, or returns,
\* and no lock and no state word changes.
Turn(t) ==
  /\ pc[t] \in Busy
  /\ \/ Return(t)
     \/ /\ UNCHANGED frame
        /\ \E label \in {"mark", "glob", "endgc", "add", "greedy"} :
              /\ Goto(t, label)
              /\ label = "add" => pc[t] = "chg" /\ to' = to
              /\ label = "greedy" => phase[t] = to' /\ ret[t] = "ml"
  /\ UNCHANGED <<phase, inactive, helper, canceled, dead, live, available,
                 newphase, left>>
  /\ live \subseteq users'
  /\ to' = to \/ \A u \in Workers \ {t} : ~Coordinates(u)

\* Such a step keeps every lock where it is, or gives up what its thread holds.
LEMMA TurnHold ==
  ASSUME IInv, NEW t \in Workers, Turn(t), TypeOK'
  PROVE  HoldInv'
<1>. USE DEF IInv, HoldInv
<1>1. \A u \in Workers : u # t =>
         /\ pc'[u] = pc[u] /\ ret'[u] = ret[u]
         /\ tgt'[u] = tgt[u] /\ seen'[u] = seen[u]
         /\ u \in greedy' <=> u \in greedy
  BY DEF Turn, Return, Resume, Goto, frame, TypeOK
<1>2. /\ pc[t] \in Busy
      /\ pc'[t] \notin {"work", "accept", "unlink", "take", "reaccept", "chg",
                        "dead"}
      /\ pc'[t] = "add" => pc[t] = "chg" /\ to' = to
      /\ pc'[t] = "greedy" => phase[t] = to'
      /\ pc'[t] \in {"glob", "mark", "endgc", "add", "greedy"} =>
            ret'[t] = ret[t]
      /\ pc'[t] = "greedy" => ret[t] = "ml"
  BY DEF Turn, Return, Resume, Goto, frame, TypeOK, Busy
<1>3. /\ t \in greedy' => pc'[t] \in Busy \cup {"greedy"} /\ ret'[t] = "ml"
  BY DEF Turn, Return, Resume, Goto, frame, TypeOK, Busy, GreedyInv
<1>4. Owns(t)' => Owns(t)
  BY DEF Turn, Return, Resume, Goto, frame, TypeOK, Busy, Owns
<1>5. Helps(t)' => /\ Helps(t) /\ ret'[t] = ret[t]
                   /\ tgt'[t] = tgt[t] /\ seen'[t] = seen[t]
  BY DEF Turn, Return, Resume, Goto, frame, TypeOK, Busy, Helps
<1>6. \A u \in Workers : u # t => /\ Owns(u)' <=> Owns(u)
                                  /\ Helps(u)' <=> Helps(u)
  BY <1>1 DEF Owns, Helps
<1>7. /\ phase' = phase /\ inactive' = inactive /\ helper' = helper
      /\ canceled' = canceled /\ dead' = dead /\ live' = live
      /\ available' = available /\ newphase' = newphase /\ left' = left
      /\ live \subseteq users'
      /\ to' = to \/ \A u \in Workers \ {t} : ~Coordinates(u)
  BY DEF Turn
<1>8. pc'[t] = "out" \/ Owns(t)' \/ pc'[t] \in {"mark", "glob", "endgc", "add"}
  BY DEF Turn, Return, Resume, Goto, frame, TypeOK, Busy, Owns
<1>9. RegistryInv'
  BY <1>1, <1>2, <1>4, <1>7, <1>8 DEF RegistryInv, LockInv, TypeOK, Busy
<1>10. LockInv'
  BY <1>1, <1>4, <1>5, <1>6, <1>7 DEF LockInv
<1>11. ActInv'
  BY <1>1, <1>2, <1>7 DEF ActInv
<1>12. SeenInv'
  BY <1>1, <1>2, <1>5, <1>6, <1>7 DEF SeenInv, ActInv, Helps, Busy
<1>13. GreedyInv'
  BY <1>1, <1>2, <1>3, <1>4, <1>6, <1>7 DEF GreedyInv, TypeOK, Coordinates, Busy
<1>14. HelperInv'
  BY <1>1, <1>2, <1>5, <1>6, <1>7, AcceptFacts DEF ActInv, HelperInv, TypeOK
<1>. QED
  BY <1>9, <1>10, <1>11, <1>12, <1>13, <1>14

-----------------------------------------------------------------------------
(* Answering a signal.                                                      *)

\* The set that sml_check_flag counts is finite.
LEMMA UnansweredFinite ==
  ASSUME TypeOK PROVE IsFiniteSet(Unanswered) /\ Unanswered \subseteq Workers
<1>1. Unanswered \subseteq Workers
  BY DEF TypeOK, Unanswered
<1>. QED
  BY <1>1, WorkersFinite, FS_Subset

\* While an action runs the round is open, and a counter of 1 means that
\* this action is the last one and nobody coordinates.
LEMMA AnswerFacts ==
  ASSUME IInv, NEW t \in Workers, pc[t] = "work"
  PROVE  /\ tgt[t] \in Unanswered
         /\ \A u \in Workers : pc[u] \notin {"mark", "glob", "endgc"}
         /\ gc_count % 2 = 1
         /\ check_flag = 1 => /\ \A u \in Workers : ~Coordinates(u)
                              /\ Unanswered = {tgt[t]}
<1>. USE DEF IInv, HoldInv, RoundInv
<1>1. tgt[t] \in Unanswered
  BY DEF Unanswered
<1>2. \A u \in Workers : pc[u] \notin {"mark", "glob", "endgc"}
  BY <1>1 DEF LastInv
<1>3. gc_count % 2 = 1
  <2>1. CASE \E u \in Workers : Coordinates(u)
    BY <2>1 DEF RunningInv
  <2>2. CASE \A u \in Workers : ~Coordinates(u)
    BY <1>1, <2>2 DEF QuietInv, TypeOK
  <2>. QED
    BY <2>1, <2>2
<1>4. ASSUME check_flag = 1 PROVE \A u \in Workers : pc[u] \notin {"chg", "add"}
  <2>. SUFFICES ASSUME NEW u \in Workers, pc[u] \in {"chg", "add"} PROVE FALSE
    OBVIOUS
  <2>1. /\ Unanswered \subseteq list /\ list \subseteq Workers
        /\ check_flag = Cardinality(Unanswered) - Cardinality(list)
    BY DEF ChangeInv, TypeOK
  <2>2. IsFiniteSet(list)
    BY <2>1, WorkersFinite, FS_Subset
  <2>3. Cardinality(Unanswered) <= Cardinality(list)
    BY <2>1, <2>2, FS_Subset
  <2>4. Cardinality(Unanswered) \in Nat /\ Cardinality(list) \in Nat
    BY <2>1, CountType
  <2>. QED
    BY <1>4, <2>1, <2>3, <2>4
<1>5. ASSUME check_flag = 1 PROVE \A u \in Workers : pc[u] # "greedy"
  <2>. SUFFICES ASSUME NEW u \in Workers, pc[u] = "greedy" PROVE FALSE
    OBVIOUS
  <2>1. Cardinality(Unanswered) = 1
    BY <1>5 DEF CountedInv
  <2>2. u \in Unanswered
    BY DEF CountedInv, GreedyInv, LockInv, Owns, Unanswered
  <2>3. u # tgt[t]
    BY AcceptFacts DEF ActInv, CountedInv, GreedyInv, TypeOK
  <2>. QED
    BY <1>1, <2>1, <2>2, <2>3, UnansweredFinite, FS_Singleton
<1>6. ASSUME check_flag = 1 PROVE Unanswered = {tgt[t]}
  <2>1. Cardinality(Unanswered) = 1
    BY <1>2, <1>4, <1>5, <1>6 DEF QuietInv, Coordinates
  <2>. QED
    BY <1>1, <2>1, UnansweredFinite, FS_Singleton
<1>. QED
  BY <1>1, <1>2, <1>3, <1>4, <1>5, <1>6 DEF Coordinates

\* The fetch_sub that ends an action, and what its thread does then, keep the
\* locks and the account of the round.  The four actions differ in where the
\* last of them goes.
LEMMA AnswerStep ==
  ASSUME IInv, NEW t \in Workers, pc[t] = "work", TypeOK',
         NEW last \in {"mark", "glob", "endgc"}, NEW old, NEW new,
         Answer(t, last, old, new), live \subseteq users',
         last = "mark" => newphase = MARK /\ old = MARK /\ new = PREASYNC,
         last = "glob" => newphase = old /\ <<old, new>> \in Rounds,
         last = "endgc" => newphase = ASYNC
  PROVE  HoldInv' /\ RoundInv' /\ Unanswered' = Unanswered \ {tgt[t]}
<1>. USE DEF IInv, HoldInv
<1>1. /\ tgt[t] \in Unanswered
      /\ \A u \in Workers : pc[u] \notin {"mark", "glob", "endgc"}
      /\ gc_count % 2 = 1
      /\ check_flag = 1 => /\ \A u \in Workers : ~Coordinates(u)
                           /\ Unanswered = {tgt[t]}
  BY AnswerFacts
<1>2. /\ check_flag' = check_flag - 1
      /\ UNCHANGED <<phase, inactive, helper, canceled, dead, live, available,
                     newphase, gc_count, left, list>>
      /\ IsLast => /\ pc' = [pc EXCEPT ![t] = last]
                   /\ from' = old /\ to' = new /\ UNCHANGED frame
      /\ ~IsLast => Return(t) /\ UNCHANGED <<from, to>>
  BY DEF Answer, Goto, stateword, registry
<1>3. Turn(t)
  BY <1>1, <1>2 DEF Turn, Goto, IsLast, Busy
<1>4. HoldInv'
  BY <1>3, TurnHold
<1>5. /\ \A u \in Workers : u # t => pc'[u] = pc[u] /\ tgt'[u] = tgt[u]
      /\ pc'[t] # "work"
      /\ ~IsLast => pc'[t] \in {"ml", "entered", "out", "helped"}
      /\ IsLast => pc'[t] = last
  BY <1>2 DEF Return, Resume, Goto, TypeOK, frame
<1>6. Unanswered' = Unanswered \ {tgt[t]}
  <2>1. \A w \in available : IsPre(phase[w]) => w # tgt[t]
    BY AcceptFacts DEF ActInv, TypeOK
  <2>2. \A u \in Workers : pc[u] = "work" /\ u # t => tgt[u] # tgt[t]
    BY DEF ActInv
  <2>. QED
    BY <1>2, <1>5, <2>1, <2>2 DEF Unanswered
<1>7. Cardinality(Unanswered') = Cardinality(Unanswered) - 1
  BY <1>1, <1>6, UnansweredFinite, FS_RemoveElement
<1>8. /\ Cardinality(Unanswered) \in Nat /\ Cardinality(list) \in Nat
      /\ check_flag \in Int
  BY UnansweredFinite, CountType DEF TypeOK
<1>9. CASE IsLast
  <2>1. /\ \A u \in Workers : ~Coordinates(u) /\ Unanswered = {tgt[t]}
        /\ Unanswered' = {} /\ check_flag' = 0
    BY <1>1, <1>2, <1>6, <1>9 DEF IsLast
  <2>2. /\ left = {} /\ list = {}
        /\ \A w \in available : Accept(phase[w]) = newphase
    BY <2>1 DEF RoundInv, QuietInv
  <2>3. \A w \in available : phase[w] = newphase
    BY <2>1, <2>2, <1>2, AcceptFacts DEF Unanswered, TypeOK
  <2>4. \A u \in Workers : Coordinates(u)' => u = t
    BY <2>1, <1>5 DEF Coordinates
  <2>5. OneCoordinator' /\ RunningInv'
    BY <2>4, <1>1, <1>2 DEF OneCoordinator, RunningInv, RoundInv
  <2>6. LastInv'
    BY <2>1, <2>2, <2>3, <2>4, <1>2, <1>5, <1>9 DEF LastInv, Coordinates
  <2>7. QuietInv' /\ ChangeInv' /\ CountedInv'
    BY <2>4, <1>5, <1>9 DEF QuietInv, ChangeInv, CountedInv, Coordinates
  <2>. QED
    BY <2>5, <2>6, <2>7, <1>4, <1>6 DEF RoundInv
<1>10. CASE ~IsLast
  <2>1. \A u \in Workers : /\ Coordinates(u)' <=> Coordinates(u)
                           /\ Coordinates(u) => u # t /\ pc'[u] = pc[u]
    BY <1>5, <1>10 DEF Coordinates
  <2>2. OneCoordinator' /\ RunningInv'
    BY <2>1, <1>1, <1>2 DEF OneCoordinator, RunningInv, RoundInv
  <2>3. QuietInv'
    BY <2>1, <1>1, <1>2, <1>7, <1>8 DEF QuietInv, RoundInv
  <2>4. LastInv'
    BY <2>1, <1>1 DEF LastInv, Coordinates
  <2>5. ChangeInv'
    BY <2>1, <1>2, <1>6, <1>7, <1>8, <1>10 DEF ChangeInv, RoundInv, Coordinates
  <2>6. CountedInv'
    BY <2>1, <1>2, <1>7, <1>8, <1>10 DEF CountedInv, RoundInv, Coordinates
  <2>. QED
    BY <2>2, <2>3, <2>4, <2>5, <2>6, <1>4, <1>6 DEF RoundInv
<1>. QED
  BY <1>9, <1>10

\* worker_sync1: the last one becomes responsible for the global variables.
LEMMA WorkerSync1Step ==
  ASSUME IInv, NEW t \in Workers, WorkerSync1(t), TypeOK'
  PROVE  IInv' /\ Unanswered' = Unanswered \ {tgt[t]}
<1>. USE DEF IInv, HoldInv
<1>1. /\ pc[t] = "work" /\ tgt[t] \in available /\ newphase = SYNC1
      /\ newphase' = newphase /\ available' = available /\ live \subseteq users'
      /\ globalenum' = globalenum \cup Enumerator(t)
      /\ Answer(t, "glob", SYNC1, PRESYNC2)
  BY DEF WorkerSync1, ActInv, RegistryInv, Accept, IsPre, PRESYNC1, SYNC1,
         Answer, registry
<1>2. <<SYNC1, PRESYNC2>> \in Rounds
  BY DEF Rounds
<1>3. HoldInv' /\ RoundInv' /\ Unanswered' = Unanswered \ {tgt[t]}
  BY <1>1, <1>2, AnswerStep
<1>4. globalenum = {} /\ \A u \in Workers : pc[u] # "glob"
  BY <1>1, AnswerFacts DEF EnumInv
<1>5. EnumInv'
  <2>1. CASE IsLast
    <3>1. globalenum' = {tgt[t]} /\ pc'[t] = "glob"
      BY <1>1, <1>4, <2>1 DEF Enumerator, Answer, Goto, TypeOK
    <3>. QED
      BY <1>1, <3>1 DEF EnumInv, SYNC1, SYNC2, MARK, ASYNC
  <2>2. CASE ~IsLast
    BY <1>1, <1>4, <2>2
    DEF EnumInv, Enumerator, Answer, Return, Resume, Goto, TypeOK, SYNC1,
        SYNC2, MARK, ASYNC
  <2>. QED
    BY <2>1, <2>2
<1>. QED
  BY <1>3, <1>5

\* worker_sync2: the responsible worker enumerates the global variables before
\* its answer, so nobody is responsible any more when the round is over.
LEMMA WorkerSync2Step ==
  ASSUME IInv, NEW t \in Workers, WorkerSync2(t), TypeOK'
  PROVE  IInv' /\ Unanswered' = Unanswered \ {tgt[t]}
<1>. USE DEF IInv, HoldInv
<1>1. /\ pc[t] = "work" /\ tgt[t] \in available /\ newphase = SYNC2
      /\ newphase' = newphase /\ available' = available /\ live \subseteq users'
      /\ left' = left /\ phase' = phase
      /\ globalenum' = globalenum \ {tgt[t]}
      /\ Answer(t, "glob", SYNC2, PREMARK)
  BY DEF WorkerSync2, ActInv, RegistryInv, Accept, IsPre, PRESYNC2, SYNC2,
         Answer, registry, stateword
<1>2. <<SYNC2, PREMARK>> \in Rounds
  BY DEF Rounds
<1>3. HoldInv' /\ RoundInv' /\ Unanswered' = Unanswered \ {tgt[t]}
  BY <1>1, <1>2, AnswerStep
<1>4. \A u \in Workers : pc[u] # "glob"
  BY <1>1, AnswerFacts
<1>5. \A u \in Workers : u # t => pc'[u] = pc[u] /\ tgt'[u] = tgt[u]
  BY <1>1 DEF Answer, Return, Resume, Goto, TypeOK, frame
<1>6. Pending \subseteq Pending' \cup {tgt[t]}
  BY <1>1, <1>5 DEF Pending
<1>7. ~(\E u \in Workers : pc'[u] = "glob" /\ to' = PRESYNC2)
  BY <1>1, <1>4, <1>5
  DEF Answer, Return, Resume, Goto, TypeOK, frame, PREMARK, PRESYNC2
<1>8. EnumInv'
  BY <1>1, <1>6, <1>7 DEF EnumInv, SYNC1, SYNC2, MARK, ASYNC
<1>. QED
  BY <1>3, <1>8

\* worker_mark: the last one asks the heap whether marking is complete.
LEMMA WorkerMarkStep ==
  ASSUME IInv, NEW t \in Workers, WorkerMark(t), TypeOK'
  PROVE  IInv' /\ Unanswered' = Unanswered \ {tgt[t]}
<1>. USE DEF IInv, HoldInv
<1>1. /\ pc[t] = "work" /\ newphase = MARK
      /\ newphase' = newphase /\ live \subseteq users'
      /\ globalenum' = globalenum
      /\ Answer(t, "mark", MARK, PREASYNC)
  BY DEF WorkerMark, ActInv, RegistryInv, Accept, IsPre, PREMARK, MARK,
         Answer, registry
<1>2. HoldInv' /\ RoundInv' /\ Unanswered' = Unanswered \ {tgt[t]}
  BY <1>1, AnswerStep
<1>3. \A u \in Workers : pc[u] # "glob"
  BY <1>1, AnswerFacts
<1>4. \A u \in Workers : pc'[u] # "glob"
  BY <1>1, <1>3 DEF Answer, Return, Resume, Goto, TypeOK, frame
<1>5. EnumInv'
  BY <1>1, <1>4 DEF EnumInv, SYNC1, SYNC2, MARK, ASYNC
<1>. QED
  BY <1>2, <1>5

\* worker_async: the last one ends the collection.
LEMMA WorkerAsyncStep ==
  ASSUME IInv, NEW t \in Workers, WorkerAsync(t), TypeOK'
  PROVE  IInv' /\ Unanswered' = Unanswered \ {tgt[t]}
<1>. USE DEF IInv, HoldInv
<1>1. /\ pc[t] = "work" /\ newphase = ASYNC
      /\ newphase' = newphase /\ live \subseteq users'
      /\ globalenum' = globalenum
      /\ Answer(t, "endgc", ASYNC, PRESYNC1)
  BY DEF WorkerAsync, ActInv, RegistryInv, Accept, IsPre, PREASYNC, ASYNC,
         Answer, registry
<1>2. HoldInv' /\ RoundInv' /\ Unanswered' = Unanswered \ {tgt[t]}
  BY <1>1, AnswerStep
<1>3. \A u \in Workers : pc[u] # "glob"
  BY <1>1, AnswerFacts
<1>4. \A u \in Workers : pc'[u] # "glob"
  BY <1>1, <1>3 DEF Answer, Return, Resume, Goto, TypeOK, frame
<1>5. EnumInv'
  BY <1>1, <1>4 DEF EnumInv, SYNC1, SYNC2, MARK, ASYNC
<1>. QED
  BY <1>2, <1>5

-----------------------------------------------------------------------------
(* Starting and ending a collection, and the end of marking.                *)

\* A coordinator's turn answers nothing.
LEMMA TurnSignals ==
  ASSUME IInv, NEW t \in Workers, Turn(t), Coordinates(t), TypeOK'
  PROVE  /\ \A u \in Workers : u # t => pc'[u] = pc[u] /\ ~Coordinates(u)'
         /\ Unanswered' = Unanswered /\ Pending' = Pending
<1>1. \A u \in Workers : u # t => pc'[u] = pc[u] /\ tgt'[u] = tgt[u]
  BY DEF IInv, Turn, Return, Resume, Goto, frame, TypeOK
<1>2. pc[t] # "work" /\ pc'[t] # "work"
  BY DEF IInv, Turn, Return, Resume, Goto, frame, TypeOK, Coordinates
<1>3. UNCHANGED <<phase, available, newphase, left>>
  BY DEF Turn
<1>. QED
  BY <1>1, <1>2, <1>3
  DEF IInv, RoundInv, OneCoordinator, Coordinates, Unanswered, Pending

\* sml_gc: the fetch_or saw no collection, so all rounds are complete.
LEMMA StartGCStep ==
  ASSUME IInv, NEW t \in Workers, NEW g \in BOOLEAN, StartGC(t, g), TypeOK'
  PROVE  IInv' /\ Unanswered' = Unanswered
<1>. USE DEF IInv, HoldInv
<1>1. /\ pc[t] \in {"ml", "entered", "out"} /\ (g => pc[t] = "ml")
      /\ t \in available /\ gc_count % 2 = 0 /\ gc_count' = gc_count + 1
      /\ pc' = [pc EXCEPT ![t] = "glob"] /\ ret' = [ret EXCEPT ![t] = pc[t]]
      /\ greedy' = IF g THEN greedy \cup {t} ELSE greedy \ {t}
      /\ from' = ASYNC /\ to' = PRESYNC1
      /\ UNCHANGED <<phase, inactive, helper, canceled, dead, globalenum, users,
                     live, available, newphase, check_flag, left, list, tgt,
                     seen>>
  BY DEF StartGC, GCIdle, Goto, stateword, flags, userlist, registry, TypeOK
<1>2. \A u \in Workers : ~Coordinates(u)
  BY <1>1 DEF RoundInv, RunningInv
<1>3. /\ left = {} /\ list = {} /\ check_flag = Cardinality(Unanswered)
      /\ Unanswered = {} /\ newphase = ASYNC
      /\ \A w \in available : Accept(phase[w]) = newphase
  BY <1>1, <1>2 DEF RoundInv, QuietInv
<1>4. /\ check_flag = 0 /\ \A w \in available : phase[w] = newphase
  BY <1>3, FS_EmptySet, AcceptFacts DEF Unanswered, TypeOK
<1>5. Unanswered' = Unanswered
  BY <1>1 DEF Unanswered, TypeOK
<1>6. \A u \in Workers : /\ Helps(u)' <=> Helps(u)
                         /\ Owns(u)' <=> Owns(u)
  BY <1>1 DEF Helps, Owns, TypeOK
<1>7. RegistryInv'
  BY <1>1 DEF RegistryInv, TypeOK
<1>8. LockInv'
  BY <1>1, <1>6 DEF Helps, LockInv, TypeOK
<1>9. ActInv'
  BY <1>1 DEF ActInv, TypeOK
<1>10. SeenInv'
  BY <1>1, <1>6 DEF Helps, SeenInv, TypeOK
<1>11. GreedyInv'
  <2>1. \A u \in greedy' : pc'[u] \in Busy \cup {"greedy"} /\ ret'[u] = "ml"
    BY <1>1 DEF Busy, GreedyInv, TypeOK
  <2>2. \A u \in Workers : pc'[u] \notin {"greedy", "chg", "add"}
    BY <1>1, <1>2 DEF Coordinates, TypeOK
  <2>. QED
    BY <2>1, <2>2 DEF GreedyInv
<1>12. HelperInv'
  BY <1>1, <1>6 DEF Helps, HelperInv, TypeOK
<1>13. \A u \in Workers : Coordinates(u)' <=> u = t
  BY <1>1, <1>2 DEF Coordinates, TypeOK
<1>14. OneCoordinator' /\ RunningInv' /\ QuietInv'
  BY <1>1, <1>13 DEF OneCoordinator, QuietInv, RoundInv, RunningInv, TypeOK
<1>15. LastInv'
  BY <1>1, <1>3, <1>4, <1>5, <1>13 DEF Coordinates, LastInv, Rounds, TypeOK
<1>16. ChangeInv' /\ CountedInv'
  BY <1>1, <1>13 DEF ChangeInv, CountedInv, Coordinates, TypeOK
<1>17. EnumInv'
  BY <1>1, <1>3 DEF ASYNC, EnumInv, PRESYNC1, PRESYNC2, SYNC1, SYNC2
<1>. QED
  BY <1>5, <1>7, <1>8, <1>9, <1>10, <1>11, <1>12, <1>14, <1>15, <1>16, <1>17
  DEF RoundInv

\* sml_heap_mark_finish decides between ASYNC and another MARK.
LEMMA MarkStep ==
  ASSUME IInv, NEW t \in Workers, MarkFinish(t) \/ MarkRetry(t), TypeOK'
  PROVE  IInv' /\ Unanswered' = Unanswered
<1>. USE DEF IInv
<1>1. /\ pc[t] = "mark" /\ pc' = [pc EXCEPT ![t] = "glob"]
      /\ to' \in {to, PREMARK}
      /\ UNCHANGED <<phase, inactive, helper, canceled, dead, globalenum, users,
                     live, available, newphase, check_flag, gc_count, from,
                     left, list, ret, tgt, greedy, seen>>
  BY DEF MarkFinish, MarkRetry, Goto, stateword, flags, userlist, registry,
         counters, round, frame
<1>2. Coordinates(t) /\ \A u \in Workers \ {t} : ~Coordinates(u)
  BY <1>1 DEF Coordinates, OneCoordinator, RoundInv
<1>3. Turn(t)
  BY <1>1, <1>2 DEF Turn, Goto, Busy, frame, HoldInv, RegistryInv
<1>4. HoldInv'
  BY <1>3, TurnHold
<1>5. /\ \A u \in Workers : u # t => pc'[u] = pc[u] /\ ~Coordinates(u)'
      /\ Unanswered' = Unanswered /\ Pending' = Pending
  BY <1>2, <1>3, TurnSignals
<1>6. OneCoordinator' /\ RunningInv' /\ QuietInv'
  BY <1>1, <1>2, <1>5
  DEF Coordinates, OneCoordinator, QuietInv, RoundInv, RunningInv, TypeOK
<1>7. LastInv' /\ ChangeInv' /\ CountedInv'
  BY <1>1, <1>5
  DEF ChangeInv, Coordinates, CountedInv, LastInv, RoundInv, Rounds, TypeOK
<1>8. newphase = MARK /\ to' # PRESYNC2
  BY <1>1 DEF LastInv, RoundInv, PREASYNC, PREMARK, PRESYNC2
<1>9. EnumInv'
  BY <1>1, <1>8 DEF EnumInv, MARK, SYNC1, SYNC2
<1>. QED
  BY <1>5, <1>4, <1>6, <1>7, <1>9 DEF RoundInv

\* worker_async makes gc_count even: everybody has answered ASYNC.
LEMMA EndGCStep ==
  ASSUME IInv, NEW t \in Workers, EndGC(t), TypeOK'
  PROVE  IInv' /\ Unanswered' = Unanswered
<1>. USE DEF IInv
<1>1. /\ pc[t] = "endgc" /\ Return(t) /\ gc_count' = gc_count + 1
      /\ UNCHANGED <<phase, inactive, helper, canceled, dead, globalenum, users,
                     live, available, newphase, check_flag, from, to, left,
                     list>>
  BY DEF EndGC, stateword, flags, userlist, registry, round
<1>2. Coordinates(t)
  BY <1>1 DEF Coordinates
<1>3. Turn(t)
  BY <1>1 DEF Turn, Busy, HoldInv, RegistryInv
<1>4. HoldInv'
  BY <1>3, TurnHold
<1>5. /\ \A u \in Workers : u # t => pc'[u] = pc[u] /\ ~Coordinates(u)'
      /\ Unanswered' = Unanswered /\ Pending' = Pending
  BY <1>2, <1>3, TurnSignals
<1>6. pc'[t] \in {"ml", "entered", "out", "helped"}
  BY <1>1 DEF Return, Resume, Goto, TypeOK
<1>7. \A u \in Workers : ~Coordinates(u)'
  BY <1>5, <1>6 DEF Coordinates
<1>8. OneCoordinator' /\ RunningInv' /\ LastInv' /\ ChangeInv' /\ CountedInv'
  BY <1>1, <1>7
  DEF ChangeInv, Coordinates, CountedInv, LastInv, OneCoordinator, RoundInv,
      RunningInv
<1>9. /\ left = {} /\ list = {} /\ check_flag = 0 /\ Unanswered = {}
      /\ \A w \in available : phase[w] = newphase
      /\ newphase = ASYNC /\ ~IsPre(newphase)
  BY <1>1 DEF LastInv, RoundInv, RunningInv
<1>10. QuietInv'
  BY <1>1, <1>5, <1>9, FS_EmptySet, AcceptFacts DEF QuietInv, TypeOK
<1>11. EnumInv'
  BY <1>1, <1>5, <1>7, <1>9 DEF ASYNC, Coordinates, EnumInv, SYNC1, SYNC2
<1>. QED
  BY <1>5, <1>4, <1>8, <1>10, <1>11 DEF RoundInv

-----------------------------------------------------------------------------
(* Sending the signals of a round.                                          *)

\* global_phase: all workers are in the old phase and nothing is pending.
LEMMA GlobalPhaseStep ==
  ASSUME IInv, NEW t \in Workers, GlobalPhase(t), TypeOK'
  PROVE  IInv' /\ Unanswered = {} /\ Unanswered' = {}
<1>. USE DEF IInv, HoldInv
<1>1. /\ pc[t] = "glob" /\ pc' = [pc EXCEPT ![t] = "chg"]
      /\ newphase' = Accept(to) /\ left' = available /\ list' = {}
      /\ UNCHANGED <<phase, inactive, helper, canceled, dead, globalenum, users,
                     live, available, check_flag, gc_count, from, to, ret, tgt,
                     greedy, seen>>
  BY DEF GlobalPhase, RegistrationPhase, Goto, stateword, flags, userlist,
         counters, frame
<1>2. /\ check_flag = 0 /\ Unanswered = {} /\ left = {}
      /\ newphase = from /\ <<from, to>> \in Rounds
      /\ \A w \in available : phase[w] = from
  BY <1>1 DEF LastInv, RoundInv
<1>3. \A u \in Workers : Coordinates(u) <=> u = t
  BY <1>1 DEF Coordinates, OneCoordinator, RoundInv
<1>4. \A u \in Workers : pc[u] # "work"
  BY <1>2 DEF Unanswered
<1>5. Unanswered' = {}
  BY <1>1, <1>2, <1>4 DEF Unanswered, TypeOK
<1>6. \A u \in Workers : /\ Helps(u)' <=> Helps(u)
                         /\ Owns(u)' <=> Owns(u)
  BY <1>1 DEF Helps, Owns, TypeOK
<1>7. RegistryInv'
  BY <1>1 DEF RegistryInv, TypeOK
<1>8. LockInv'
  BY <1>1, <1>6 DEF LockInv
<1>9. ActInv'
  BY <1>1, <1>4 DEF ActInv, TypeOK
<1>10. SeenInv'
  BY <1>1, <1>6 DEF SeenInv, TypeOK
<1>11. GreedyInv'
  BY <1>1, <1>3, <1>6 DEF Busy, Coordinates, GreedyInv, LockInv, TypeOK
<1>12. HelperInv'
  BY <1>1, <1>6 DEF HelperInv, Helps, LockInv, Owns, TypeOK
<1>13. \A u \in Workers : Coordinates(u)' <=> u = t
  BY <1>1, <1>3 DEF Coordinates, TypeOK
<1>14. Accept(to) \in Phases /\ ~IsPre(Accept(to))
  BY <1>2, RoundFacts, AcceptFacts, AcceptType
<1>15. OneCoordinator' /\ RunningInv' /\ QuietInv' /\ LastInv' /\ CountedInv'
  BY <1>1, <1>3, <1>13, <1>14
  DEF Coordinates, CountedInv, LastInv, OneCoordinator, QuietInv, RoundInv,
      RunningInv, TypeOK
<1>16. ChangeInv'
  BY <1>1, <1>2, <1>5, <1>13, FS_EmptySet DEF ChangeInv, Coordinates, TypeOK
<1>17. EnumInv'
  <2>1. Pending = {}
    BY <1>2, <1>4 DEF Pending
  <2>2. \A u \in Workers : pc'[u] # "glob"
    BY <1>1, <1>3 DEF Coordinates, TypeOK
  <2>3. newphase' = SYNC2 => globalenum' \subseteq Pending'
    BY <1>1, <1>2 DEF EnumInv, Pending, Rounds, Accept, IsPre, TypeOK, ASYNC,
      PRESYNC1, SYNC1, PRESYNC2, SYNC2, PREMARK, MARK, PREASYNC
  <2>4. newphase' \in {SYNC1, MARK, ASYNC} => globalenum' = {}
    BY <1>1, <1>2, <2>1 DEF EnumInv, Rounds, Accept, IsPre, ASYNC, PRESYNC1,
      SYNC1, PRESYNC2, SYNC2, PREMARK, MARK, PREASYNC
  <2>. QED
    BY <2>2, <2>3, <2>4 DEF EnumInv
<1>. QED
  BY <1>2, <1>5, <1>7, <1>8, <1>9, <1>10, <1>11, <1>12, <1>15, <1>16, <1>17
  DEF RoundInv

\* change_phase kills a canceled worker: its signal was never sent, nobody acts
\* for it, and its thread has ended.
LEMMA KillStep ==
  ASSUME IInv, NEW t \in Workers, NEW w \in Workers, Kill(t, w), TypeOK'
  PROVE  IInv' /\ w \notin Unanswered /\ Unanswered' = Unanswered
<1>. USE DEF IInv, HoldInv
<1>1. /\ pc[t] = "chg" /\ w \in left /\ from = ASYNC /\ w \in canceled \ users
      /\ dead' = dead \cup {w} /\ available' = available \ {w}
      /\ left' = left \ {w}
      /\ UNCHANGED <<phase, inactive, helper, canceled, globalenum, users, live,
                     newphase, check_flag, gc_count, from, to, list, pc, ret,
                     tgt, greedy, seen>>
  BY DEF Kill, Dies, stateword, userlist, counters, frame
<1>2. /\ <<from, to>> \in Rounds /\ newphase = Accept(to)
      /\ left \subseteq available /\ list \subseteq available \ left
      /\ \A z \in left : phase[z] = from
      /\ \A z \in available \ left : phase[z] \in {to, newphase}
      /\ Unanswered \subseteq list
      /\ check_flag = Cardinality(Unanswered) - Cardinality(list)
  BY <1>1 DEF ChangeInv, RoundInv
<1>3. ~IsPre(phase[w]) /\ pc[w] = "dead" /\ w # t
  BY <1>1, <1>2, RoundFacts DEF RegistryInv
<1>4. \A u \in Workers : /\ Helps(u)' <=> Helps(u)
                         /\ Owns(u)' <=> Owns(u)
                         /\ Coordinates(u)' <=> Coordinates(u)
  BY <1>1 DEF Helps, Owns, Coordinates
<1>5. ~Owns(w) /\ ~Helps(w)
  BY <1>3 DEF Helps, Owns
<1>6. \A u \in Workers : pc[u] = "work" => tgt[u] # w
  BY <1>1 DEF ActInv
<1>7. Unanswered' = Unanswered
  BY <1>1, <1>3 DEF Unanswered
<1>8. RegistryInv'
  BY <1>1, <1>3 DEF RegistryInv
<1>9. LockInv'
  BY <1>1, <1>4, <1>5 DEF LockInv
<1>10. ActInv'
  BY <1>1, <1>6 DEF ActInv
<1>11. SeenInv'
  BY <1>1, <1>3, <1>4 DEF SeenInv
<1>12. GreedyInv'
  BY <1>1, <1>4, <1>5 DEF GreedyInv
<1>13. HelperInv'
  BY <1>1, <1>4, <1>5 DEF HelperInv
<1>14. OneCoordinator' /\ RunningInv' /\ QuietInv' /\ LastInv' /\ CountedInv'
  BY <1>1, <1>4
  DEF Coordinates, CountedInv, LastInv, OneCoordinator, QuietInv, RoundInv,
      RunningInv
<1>15. ChangeInv'
  BY <1>1, <1>2, <1>7 DEF ChangeInv, Coordinates, OneCoordinator, RoundInv
<1>16. newphase # SYNC2 /\ \A u \in Workers : pc[u] # "glob"
  BY <1>1, <1>2 DEF Accept, ASYNC, Coordinates, IsPre, MARK, OneCoordinator,
     PREASYNC, PREMARK, PRESYNC1, PRESYNC2, RoundInv, Rounds, SYNC1, SYNC2
<1>17. EnumInv'
  BY <1>1, <1>16 DEF EnumInv
<1>. QED
  BY <1>3, <1>6, <1>7, <1>8, <1>9, <1>10, <1>11, <1>12, <1>13, <1>14, <1>15, <1>17
  DEF RoundInv, Unanswered

\* change_phase sends the signal: one more worker is unanswered and one more is
\* on the list, so the counter is as far below zero as before.
LEMMA ChangePhaseStep ==
  ASSUME IInv, NEW t \in Workers, NEW w \in Workers, ChangePhase(t, w), TypeOK'
  PROVE  IInv' /\ Unanswered' = Unanswered \cup {w}
<1>. USE DEF IInv, HoldInv
<1>1. /\ pc[t] = "chg" /\ w \in left
      /\ phase' = [phase EXCEPT ![w] = Xor(phase[w], Xor(from, to))]
      /\ left' = left \ {w} /\ list' = list \cup {w}
      /\ UNCHANGED <<inactive, helper, canceled, dead, globalenum, users, live,
                     available, newphase, check_flag, gc_count, from, to, pc,
                     ret, tgt, greedy, seen>>
  BY DEF ChangePhase, flags, userlist, registry, counters, frame
<1>2. /\ <<from, to>> \in Rounds /\ newphase = Accept(to)
      /\ left \subseteq available /\ list \subseteq available \ left
      /\ \A z \in left : phase[z] = from
      /\ \A z \in available \ left : phase[z] \in {to, newphase}
      /\ Unanswered \subseteq list
      /\ check_flag = Cardinality(Unanswered) - Cardinality(list)
  BY <1>1 DEF ChangeInv, RoundInv
<1>3. /\ phase' = [phase EXCEPT ![w] = to] /\ IsPre(to) /\ ~IsPre(phase[w])
      /\ phase[w] = from /\ w \in available /\ w \notin list
  BY <1>1, <1>2, RoundFacts
<1>4. \A u \in Workers : /\ Helps(u)' <=> Helps(u)
                         /\ Owns(u)' <=> Owns(u)
                         /\ Coordinates(u)' <=> Coordinates(u)
  BY <1>1 DEF Helps, Owns, Coordinates
<1>5. \A u \in Workers : pc[u] \notin {"mark", "glob", "endgc", "greedy"}
  BY <1>1 DEF Coordinates, OneCoordinator, RoundInv
<1>6. \A u \in Workers : pc[u] = "work" => tgt[u] # w
  BY <1>1 DEF ActInv
<1>7. Unanswered' = Unanswered \cup {w} /\ w \notin Unanswered
  BY <1>1, <1>2, <1>3 DEF Unanswered, TypeOK
<1>8. RegistryInv'
  BY <1>1, <1>3 DEF RegistryInv, TypeOK
<1>9. LockInv'
  BY <1>1, <1>4 DEF LockInv
<1>10. ActInv'
  BY <1>1, <1>3, <1>6 DEF ActInv, TypeOK
<1>11. SeenInv'
  BY <1>1, <1>3, <1>4 DEF SeenInv, TypeOK
<1>12. GreedyInv'
  BY <1>1, <1>3, <1>4, <1>5 DEF GreedyInv, TypeOK
<1>13. HelperInv'
  BY <1>1, <1>3, <1>4 DEF HelperInv, TypeOK
<1>14. OneCoordinator' /\ RunningInv' /\ QuietInv' /\ LastInv' /\ CountedInv'
  BY <1>1, <1>4, <1>5
  DEF Coordinates, CountedInv, LastInv, OneCoordinator, QuietInv, RoundInv,
      RunningInv
<1>15. ChangeInv'
  <2>1. /\ Cardinality(Unanswered') = Cardinality(Unanswered) + 1
        /\ Cardinality(list') = Cardinality(list) + 1
    <3>1. IsFiniteSet(Unanswered) /\ IsFiniteSet(list)
      BY UnansweredFinite, WorkersFinite, FS_Subset DEF TypeOK
    <3>. QED
      BY <1>1, <1>3, <1>7, <3>1, FS_AddElement
  <2>2. Cardinality(Unanswered) \in Nat /\ Cardinality(list) \in Nat
    BY UnansweredFinite, CountType DEF TypeOK
  <2>3. check_flag' = Cardinality(Unanswered') - Cardinality(list')
    BY <1>1, <1>2, <2>1, <2>2
  <2>4. /\ left' \subseteq available' /\ list' \subseteq available' \ left'
        /\ \A z \in left' : phase'[z] = from'
        /\ \A z \in available' \ left' : phase'[z] \in {to', newphase'}
        /\ Unanswered' \subseteq list'
    BY <1>1, <1>2, <1>3, <1>7 DEF TypeOK
  <2>5. \A u \in Workers : pc'[u] # "add"
    BY <1>1 DEF Coordinates, OneCoordinator, RoundInv
  <2>. QED
    BY <1>1, <1>2, <2>3, <2>4, <2>5 DEF ChangeInv
<1>16. EnumInv'
  <2>1. to # newphase
    BY <1>2, <1>3, RoundFacts, AcceptFacts
  <2>2. Pending \subseteq Pending'
    BY <1>1, <1>3, <2>1 DEF Pending, TypeOK
  <2>. QED
    BY <1>1, <1>5, <2>2 DEF EnumInv
<1>. QED
  BY <1>7, <1>8, <1>9, <1>10, <1>11, <1>12, <1>13, <1>14, <1>15, <1>16
  DEF RoundInv

\* change_phase stores the list of the signalled workers.
LEMMA PublishStep ==
  ASSUME IInv, NEW t \in Workers, Publish(t), TypeOK'
  PROVE  IInv' /\ Unanswered' = Unanswered
<1>. USE DEF IInv
<1>1. /\ pc[t] = "chg" /\ left = {} /\ pc' = [pc EXCEPT ![t] = "add"]
      /\ UNCHANGED <<phase, inactive, helper, canceled, dead, globalenum, users,
                     live, available, newphase, check_flag, gc_count, from, to,
                     left, list, ret, tgt, greedy, seen>>
  BY DEF Publish, Goto, stateword, flags, userlist, registry, counters, round,
         frame
<1>2. Coordinates(t)
  BY <1>1 DEF Coordinates
<1>3. Turn(t)
  BY <1>1 DEF Turn, Goto, Busy, frame, HoldInv, RegistryInv
<1>4. HoldInv'
  BY <1>3, TurnHold
<1>5. /\ \A u \in Workers : u # t => pc'[u] = pc[u] /\ ~Coordinates(u)'
      /\ Unanswered' = Unanswered /\ Pending' = Pending
  BY <1>2, <1>3, TurnSignals
<1>6. OneCoordinator' /\ RunningInv' /\ QuietInv' /\ LastInv' /\ CountedInv'
  BY <1>1, <1>2, <1>5
  DEF Coordinates, CountedInv, LastInv, OneCoordinator, QuietInv, RoundInv,
      RunningInv, TypeOK
<1>7. ChangeInv'
  BY <1>1, <1>5 DEF ChangeInv, Coordinates, RoundInv, TypeOK
<1>8. EnumInv'
  BY <1>1, <1>5 DEF Coordinates, EnumInv, OneCoordinator, RoundInv, TypeOK
<1>. QED
  BY <1>5, <1>4, <1>6, <1>7, <1>8 DEF RoundInv

\* The fetch_add of sml_check_flag closes the account: from now on the counter
\* is the number of unanswered signals.
LEMMA AddCountStep ==
  ASSUME IInv, NEW t \in Workers, AddCount(t), TypeOK'
  PROVE  IInv' /\ Unanswered' = Unanswered
<1>. USE DEF IInv
<1>1. /\ pc[t] = "add" /\ check_flag' = check_flag + Cardinality(list)
      /\ list' = {}
      /\ t \in greedy => pc' = [pc EXCEPT ![t] = "greedy"] /\ UNCHANGED frame
      /\ t \notin greedy => Return(t)
      /\ UNCHANGED <<phase, inactive, helper, canceled, dead, globalenum, users,
                     live, available, newphase, gc_count, from, to, left>>
  BY DEF AddCount, Goto, stateword, flags, userlist, registry
<1>2. /\ <<from, to>> \in Rounds /\ newphase = Accept(to) /\ left = {}
      /\ \A w \in available : phase[w] \in {to, newphase}
      /\ check_flag = Cardinality(Unanswered) - Cardinality(list)
  BY <1>1 DEF ChangeInv, RoundInv
<1>3. t \in greedy => ret[t] = "ml" /\ phase[t] = to
  BY <1>1, <1>2 DEF GreedyInv, HoldInv, Owns
<1>4. Coordinates(t)
  BY <1>1 DEF Coordinates
<1>5. Turn(t)
  BY <1>1, <1>3 DEF Turn, Goto, Busy, HoldInv, RegistryInv
<1>6. HoldInv'
  BY <1>5, TurnHold
<1>7. /\ \A u \in Workers : u # t => pc'[u] = pc[u] /\ ~Coordinates(u)'
      /\ Unanswered' = Unanswered /\ Pending' = Pending
  BY <1>4, <1>5, TurnSignals
<1>8. pc'[t] \in {"greedy", "ml", "entered", "out", "helped"}
  BY <1>1 DEF Return, Resume, Goto, TypeOK
<1>9. check_flag' = Cardinality(Unanswered)
  <2>1. Cardinality(Unanswered) \in Nat /\ Cardinality(list) \in Nat
    BY UnansweredFinite, CountType DEF TypeOK
  <2>. QED
    BY <1>1, <1>2, <2>1
<1>10. /\ \A w \in available : Accept(phase[w]) = newphase
       /\ IsPre(to) /\ gc_count % 2 = 1
  BY <1>2, <1>4, RoundFacts, AcceptFacts, AcceptType
  DEF RoundInv, RunningInv, TypeOK
<1>11. OneCoordinator' /\ RunningInv' /\ LastInv' /\ ChangeInv'
  BY <1>1, <1>7, <1>8, <1>10
  DEF ChangeInv, Coordinates, LastInv, OneCoordinator, RoundInv, RunningInv
<1>12. QuietInv' /\ CountedInv'
  BY <1>1, <1>2, <1>7, <1>8, <1>9, <1>10 DEF Coordinates, CountedInv, QuietInv
<1>13. EnumInv'
  BY <1>1, <1>7, <1>8 DEF Coordinates, EnumInv, OneCoordinator, RoundInv
<1>. QED
  BY <1>7, <1>6, <1>11, <1>12, <1>13 DEF RoundInv

\* The coordinator in ML code accepts the signal it sent to itself.
LEMMA AnswerGreedilyStep ==
  ASSUME IInv, NEW t \in Workers, AnswerGreedily(t), TypeOK'
  PROVE  IInv' /\ Unanswered' = Unanswered
<1>. USE DEF IInv, HoldInv
<1>1. /\ pc[t] = "greedy" /\ pc' = [pc EXCEPT ![t] = "work"]
      /\ phase' = [phase EXCEPT ![t] = Accept(to)]
      /\ tgt' = [tgt EXCEPT ![t] = t] /\ seen' = [seen EXCEPT ![t] = to]
      /\ ret' = [ret EXCEPT ![t] = "ml"] /\ greedy' = greedy \cup {t}
      /\ UNCHANGED <<inactive, helper, canceled, dead, globalenum, users, live,
                     available, newphase, check_flag, gc_count, from, to, left,
                     list>>
  BY DEF AnswerGreedily, StoreAccepted, Act, Goto, flags, userlist, registry,
         counters, round, LockInv, Owns, TypeOK
<1>2. /\ left = {} /\ list = {} /\ check_flag = Cardinality(Unanswered)
      /\ \A w \in available : Accept(phase[w]) = newphase
      /\ newphase = Accept(to) /\ IsPre(to) /\ phase[t] = to
      /\ ~IsPre(newphase) /\ gc_count % 2 = 1
  BY <1>1 DEF Coordinates, CountedInv, GreedyInv, RoundInv, RunningInv
<1>3. t \in available /\ t \notin inactive \cup helper
  BY <1>1 DEF LockInv, Owns
<1>4. \A u \in Workers : Coordinates(u) <=> u = t
  BY <1>1 DEF Coordinates, OneCoordinator, RoundInv
<1>5. \A u \in Workers : ~Coordinates(u)'
  BY <1>1, <1>4 DEF Coordinates, TypeOK
<1>6. \A u \in Workers : pc[u] = "work" => tgt[u] # t
  BY <1>2, AcceptFacts DEF ActInv, TypeOK
<1>7. RegistryInv'
  BY <1>1, <1>3 DEF RegistryInv, TypeOK
<1>8. LockInv'
  BY <1>1, <1>3 DEF Helps, LockInv, Owns, TypeOK
<1>9. ActInv'
  BY <1>1, <1>2, <1>3, <1>6 DEF ActInv, TypeOK
<1>10. SeenInv'
  BY <1>1, <1>3 DEF Helps, LockInv, SeenInv, TypeOK
<1>11. GreedyInv'
  BY <1>1, <1>4 DEF Busy, Coordinates, GreedyInv, TypeOK
<1>12. HelperInv'
  BY <1>1, <1>2, <1>3 DEF Helps, HelperInv, LockInv, TypeOK
<1>13. Unanswered' = Unanswered
  BY <1>1, <1>2, <1>3, AcceptFacts DEF Unanswered, TypeOK
<1>14. OneCoordinator' /\ RunningInv' /\ LastInv' /\ ChangeInv' /\ CountedInv'
  BY <1>1, <1>2, <1>5
  DEF ChangeInv, Coordinates, CountedInv, LastInv, OneCoordinator, RunningInv
<1>15. QuietInv'
  BY <1>1, <1>2, <1>13, AcceptFacts DEF QuietInv, TypeOK
<1>16. EnumInv'
  <2>1. Pending \subseteq Pending'
    BY <1>1, <1>2 DEF Pending, TypeOK
  <2>. QED
    BY <1>1, <1>4, <2>1 DEF Coordinates, EnumInv, TypeOK
<1>. QED
  BY <1>13, <1>7, <1>8, <1>9, <1>10, <1>11, <1>12, <1>14, <1>15, <1>16
  DEF RoundInv
=============================================================================
