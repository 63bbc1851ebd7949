---------------------------- MODULE MCHandshake ----------------------------
(***************************************************************************)
(* Two threads that do what they like through two collections, in each of  *)
(* which MARK may be repeated; or three threads and one collection: all    *)
(* three register, and the program around the runtime then takes MaxMoves  *)
(* decisions (enter, leave, start a collection, ...).  The runtime's own   *)
(* steps are not bounded.                                                  *)
(***************************************************************************)
EXTENDS HandshakeInv, TLC

CONSTANT MaxMoves   \* bound: program decisions of three threads

VARIABLES acting,   \* the threads of the behaviour
          moves     \* the decisions so far, of three threads

Symmetry == Permutations(Workers)

Longer == INSTANCE Handshake WITH MaxGC <- 2, MaxRetry <- 1

MCInit == /\ Init /\ moves = 0
          /\ acting \in {ts \in SUBSET Workers : Cardinality(ts) >= 2}

Two ==
  /\ Cardinality(acting) = 2
  /\ \/ \E t \in acting : Longer!Mutator(t) \/ Longer!Poll(t) \/ Longer!Runtime(t)
     \/ (\A t \in acting : pc[t] = "dead") /\ UNCHANGED vars
  /\ UNCHANGED moves

Three ==
  /\ acting = Workers
  /\ \/ \E t \in Workers : Register(t) /\ UNCHANGED moves
     \/ \E t \in Workers : Mutator(t) /\ available = Workers
                             /\ moves < MaxMoves /\ moves' = moves + 1
     \/ \E t \in Workers : (Poll(t) \/ Runtime(t)) /\ UNCHANGED moves
     \/ moves = MaxMoves /\ UNCHANGED <<vars, moves>>

MCNext == (Two \/ Three) /\ UNCHANGED acting

MCSpec == MCInit /\ [][MCNext]_<<vars, acting, moves>>
=============================================================================
