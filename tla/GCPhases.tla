------------------------------ MODULE GCPhases ------------------------------
(***************************************************************************)
(* What the handshake of control.c promises the heap: the collector goes   *)
(* through its rounds in order, every round waits for every member, and a  *)
(* thread may join at any time without being waited for in the round       *)
(* under way.  Handshake implements this specification.                    *)
(***************************************************************************)
CONSTANT Workers

VARIABLES members,   \* the workers that take part
          round,     \* the signal sent last
          waiting    \* the members whose answer to it is still missing

gcvars == <<members, round, waiting>>

\* ASYNC = 1, SYNC1 = 3, SYNC2 = 5 and MARK = 7, as in smlsharp.h.
Successors == {<<1, 3>>, <<3, 5>>, <<5, 7>>, <<7, 7>>, <<7, 1>>}

GCInit == members = {} /\ round = 1 /\ waiting = {}

Join(w) == /\ w \notin members
           /\ members' = members \cup {w}
           /\ UNCHANGED <<round, waiting>>

Begin(r) == /\ waiting = {}
            /\ <<round, r>> \in Successors
            /\ round' = r /\ waiting' = members
            /\ UNCHANGED members

Respond(w) == /\ w \in waiting
              /\ waiting' = waiting \ {w}
              /\ UNCHANGED <<members, round>>

\* A worker whose thread is gone is dropped when a collection starts.
Retire(w) == /\ w \in waiting /\ round = 3
             /\ members' = members \ {w} /\ waiting' = waiting \ {w}
             /\ UNCHANGED round

GCNext == \/ \E w \in Workers : Join(w) \/ Respond(w) \/ Retire(w)
          \/ \E r \in {1, 3, 5, 7} : Begin(r)

GCSpec == GCInit /\ [][GCNext]_gcvars
=============================================================================
