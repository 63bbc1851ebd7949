----------------------------- MODULE ObjectGraph -----------------------------
(***************************************************************************)
(* What a heap promises to the program: the objects it can reach from its   *)
(* roots and the pointers between them change by its own operations and by  *)
(* nothing else.  A collection changes nothing here.                        *)
(***************************************************************************)
EXTENDS Integers, FiniteSets

CONSTANTS Ids,    \* identities of objects, positive numbers
          Roots,  \* the root slots
          Sizes   \* the possible numbers of pointer slots of an object

VARIABLES root,   \* root[x]: an identity or 0
          edge    \* edge[i][k] for the reachable i: an identity or 0

Reached(r, e) ==
    LET Next1(S) == S \cup (UNION {{e[i][k] : k \in DOMAIN e[i]} : i \in S} \ {0})
        reach[n \in 0..Cardinality(Ids)] ==
            IF n = 0 THEN {r[x] : x \in Roots} \ {0} ELSE LET R == reach[n - 1] IN Next1(R)
    IN  reach[Cardinality(Ids)]

\* Whatever becomes unreachable is forgotten.
Live(r, e) == [i \in Reached(r, e) |-> e[i]]

Init == root = [x \in Roots |-> 0] /\ edge = << >>

(* The operations as relations between the roots r and the pointers e before *)
(* and the roots s and the pointers f after them.                            *)

\* The root x is set to a new object with n slots, which hold NULL.
Alloc(r, e, s, f, x, n) ==
    /\ s[x] \in Ids \ DOMAIN e
    /\ f = Live(s, [i \in DOMAIN e \cup {s[x]} |-> IF i = s[x] THEN [k \in 1..n |-> 0] ELSE e[i]])

\* The root x is set to a reachable object or to NULL.
Move(r, e, s, f, x) == s[x] \in DOMAIN e \cup {0} /\ f = Live(s, e)

\* Slot k of the object at root x is set to what root y holds.
Write(r, e, s, f, x, k, y) ==
    /\ r[x] # 0 /\ k \in DOMAIN e[r[x]]
    /\ f = Live(r, [e EXCEPT ![r[x]][k] = r[y]])

Collect(r, e, s, f) == s = r /\ f = e

Step(r, e, s, f) ==
    \/ Collect(r, e, s, f)
    \/ \E x \in Roots :
          /\ \A y \in Roots \ {x} : s[y] = r[y]
          /\ Move(r, e, s, f, x) \/ \E n \in Sizes : Alloc(r, e, s, f, x, n)
    \/ s = r /\ \E x, y \in Roots, k \in 1..2 : Write(r, e, s, f, x, k, y)

Next == Step(root, edge, root', edge')
Spec == Init /\ [][Next]_<<root, edge>>
==============================================================================
