---------------------------- MODULE HandshakeInv ----------------------------
(***************************************************************************)
(* The inductive invariant of Handshake.  TLC checks it on the instances   *)
(* of the runs; HandshakeProofs proves it for every set of workers.        *)
(***************************************************************************)
EXTENDS Handshake

\* The rounds change_phase is called for: <<old_phase, new_phase>>.
Rounds == {<<ASYNC, PRESYNC1>>, <<SYNC1, PRESYNC2>>, <<SYNC2, PREMARK>>,
           <<MARK, PREMARK>>, <<MARK, PREASYNC>>}

Busy == {"work", "mark", "glob", "chg", "add", "endgc"}

\* The signalled workers that have not answered: what sml_check_flag counts.
Unanswered == {w \in available : IsPre(phase[w])}
              \cup {tgt[t] : t \in {u \in Workers : pc[u] = "work"}}

-----------------------------------------------------------------------------
(* Who holds which worker.                                                  *)

\* Registered, canceled and dead workers.
RegistryInv ==
  /\ \A t \in Workers : t \notin available => pc[t] \in {"out", "dead"}
  /\ \A t \in canceled : pc[t] = "dead"
  /\ dead \subseteq canceled /\ dead \cap available = {}
  /\ live \subseteq users /\ dead \cap live = {}
  /\ inactive \cap helper = {}
  /\ \A w \in inactive \ available : ~IsPre(phase[w])

\* A thread in ML code owns its worker's lock; a helper holds the lock of the
\* worker it answers for.
LockInv ==
  /\ \A t \in Workers : Owns(t) =>
        t \in available /\ t \notin inactive \cup helper
  /\ \A t \in Workers : Helps(t) =>
        ret[t] = "helped" /\ tgt[t] \in helper \ inactive
  /\ \A t, u \in Workers : Helps(t) /\ Helps(u) /\ tgt[t] = tgt[u] => t = u

\* An action runs for the round in progress, once for each worker.
ActInv ==
  /\ \A t \in Workers : pc[t] = "work" =>
        /\ tgt[t] \in available \ left
        /\ IsPre(seen[t]) /\ phase[tgt[t]] = Accept(seen[t])
        /\ newphase = Accept(seen[t])
        /\ ret[t] # "helped" => tgt[t] = t
  /\ \A t, u \in Workers :
        pc[t] = "work" /\ pc[u] = "work" /\ tgt[t] = tgt[u] => t = u

\* What a thread remembers of a state word is still true where it is used.
SeenInv ==
  /\ \A t \in Workers : pc[t] = "accept" => IsPre(seen[t]) /\ phase[t] = seen[t]
  /\ \A t \in Workers : pc[t] \in {"unlink", "take"} => IsPre(seen[t])
  /\ \A t \in Workers : pc[t] = "reaccept" =>
        IsPre(seen[t]) /\ phase[tgt[t]] = seen[t] /\ tgt[t] \in available
  /\ \A t \in Workers : Helps(t) /\ pc[t] # "reaccept" =>
        /\ IsPre(seen[t]) /\ tgt[t] \in available \cup dead
        /\ \/ phase[tgt[t]] = Accept(seen[t])
           \/ IsPre(phase[tgt[t]]) /\ tgt[t] \in available

\* The greedy threads answer for themselves.
GreedyInv ==
  /\ \A t \in greedy : pc[t] \in Busy \cup {"greedy"} /\ ret[t] = "ml"
  /\ \A t \in Workers : pc[t] = "greedy" => phase[t] = to
  /\ \A t \in Workers : pc[t] \in {"chg", "add"} /\ Owns(t) =>
        t \in left \/ phase[t] = to

\* A helper whose worker got the next signal will get it, or has got it, too.
HelperInv ==
  \A t \in Workers :
     Helps(t) /\ pc[t] # "work" /\ (tgt[t] \in left \/ IsPre(phase[tgt[t]]))
     => t \in left \/ IsPre(phase[t])

-----------------------------------------------------------------------------
(* The rounds.                                                              *)

\* Nobody coordinates.
QuietInv ==
  (\A t \in Workers : ~Coordinates(t)) =>
     /\ left = {} /\ list = {}
     /\ check_flag = Cardinality(Unanswered)
     /\ \A w \in available : Accept(phase[w]) = newphase
     /\ gc_count % 2 = 0 => Unanswered = {} /\ newphase = ASYNC

\* A thread has seen the last answer and has not announced the next round.
LastInv ==
  \A t \in Workers : pc[t] \in {"mark", "glob", "endgc"} =>
     /\ left = {} /\ list = {}
     /\ check_flag = 0 /\ Unanswered = {}
     /\ \A w \in available : phase[w] = newphase
     /\ pc[t] = "mark" => newphase = MARK /\ from = MARK /\ to = PREASYNC
     /\ pc[t] = "glob" => newphase = from /\ <<from, to>> \in Rounds
     /\ pc[t] = "endgc" => newphase = ASYNC

\* A thread is sending the signals of a round.
ChangeInv ==
  \A t \in Workers : pc[t] \in {"chg", "add"} =>
     /\ <<from, to>> \in Rounds /\ newphase = Accept(to)
     /\ left \subseteq available /\ list \subseteq available \ left
     /\ \A w \in left : phase[w] = from
     /\ \A w \in available \ left : phase[w] \in {to, newphase}
     /\ Unanswered \subseteq list
     /\ check_flag = Cardinality(Unanswered) - Cardinality(list)
     /\ pc[t] = "add" => left = {}

\* A thread has counted a round and will answer it for itself.
CountedInv ==
  \A t \in Workers : pc[t] = "greedy" =>
     /\ left = {} /\ list = {}
     /\ check_flag = Cardinality(Unanswered)
     /\ \A w \in available : Accept(phase[w]) = newphase
     /\ newphase = Accept(to) /\ IsPre(to)

\* Only a running collection is coordinated, and a context that registers has
\* no signal pending.
RunningInv == /\ \A t \in Workers : Coordinates(t) => gc_count % 2 = 1
              /\ ~IsPre(newphase)

\* The worker responsible for the global variables.
EnumInv ==
  /\ newphase \in {MARK, ASYNC} => globalenum = {}
  /\ newphase = SYNC1 =>
        \/ globalenum = {}
        \/ \E t \in Workers : pc[t] = "glob"
  /\ (\E t \in Workers : pc[t] = "glob" /\ to = PRESYNC2) =>
        \E w \in available : globalenum = {w}
  /\ newphase = SYNC2 => globalenum \subseteq Pending

-----------------------------------------------------------------------------
(* Helpers.  Whoever walks workers_handshake holds its own worker, which    *)
(* owes the round its answer, so the rounds do not pass it by.              *)

Sending == \E t \in Workers : pc[t] = "chg"
Searching(t) == pc[t] \in {"scan", "unlink"}
Answered(t) == t \notin left /\ phase[t] = newphase
Repeated == newphase = MARK /\ retries # 0

\* The stamp of the list of round p, and the stamps a thread that has answered
\* round p can have loaded: it may have found the list of the round before.
StampOf(p) == p - 1
Recent(p) == {StampOf(p)} \cup {StampOf(q) : q \in {r \in Phases : <<r, StampOf(p)>> \in Rounds}}

\* workers_handshake is that of the round, or of the round before as long as
\* signals are sent.
StampInv == handshake.stamp = StampOf(IF Sending THEN from ELSE newphase)

\* MARK is not announced twice without being counted.
RetryInv == (\E t \in Workers : pc[t] \in {"glob", "chg"}) /\ retries = 0
              => <<from, to>> # <<MARK, PREMARK>>

\* How old the list is that a thread walks.
AgeInv == \A t \in Workers : Searching(t) =>
  IF Sending
  THEN /\ snap[t].stamp \in Recent(from)
       /\ Answered(t) => snap[t].stamp = StampOf(from)
  ELSE Answered(t) => snap[t].stamp \in Recent(newphase)

TodoInv == \A t \in Workers : Searching(t) => todo[t] \subseteq snap[t].ws

\* Thread t has found w pending, and w is still as it was.
Finds(t, w) == tgt[t] = w /\ seen[t] = phase[w]
Taken(w) == \E t \in Workers : pc[t] = "take" /\ Finds(t, w)

\* A pending worker outside ML code is on the list or in the hands of a helper.
CoverInv == \A w \in Workers : NeedsHelp(w) => w \in handshake.ws \/ Taken(w)

\* The list of a round only shrinks.  The workers that a thread has passed in
\* it, as it is now, need no help or are in somebody's hands.
WalkInv == \A t \in Workers : Searching(t) /\ snap[t].stamp = handshake.stamp =>
  /\ handshake.ws \subseteq snap[t].ws
  /\ snap[t] = handshake => \A w \in snap[t].ws \ todo[t] :
       NeedsHelp(w) => Taken(w) \/ (pc[t] = "unlink" /\ Finds(t, w))

HelpInv == /\ StampInv /\ RetryInv /\ AgeInv /\ TodoInv
           /\ ~Sending /\ ~Repeated => CoverInv /\ WalkInv

-----------------------------------------------------------------------------
\* Handshake implements GCPhases: the members are the registered workers, the
\* round is the phase new workers get, and waiting is Pending.
Abs == INSTANCE GCPhases WITH members <- available, round <- newphase,
                              waiting <- Pending

HoldInv == /\ RegistryInv /\ LockInv /\ ActInv /\ SeenInv /\ GreedyInv
           /\ HelperInv
RoundInv == /\ OneCoordinator /\ RunningInv /\ QuietInv /\ LastInv
            /\ ChangeInv /\ CountedInv

\* Together: who holds what, where the round stands, and the global roots.
IInv == TypeOK /\ HoldInv /\ RoundInv /\ EnumInv

\* Every round waits for the answers of all its members and the rounds follow
\* each other in the order of GCPhases.
RoundsComplete == Abs!GCSpec
=============================================================================
