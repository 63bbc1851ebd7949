----------------------------- MODULE CopyingHeap -----------------------------
(***************************************************************************)
(* The memory of the copying collectors: objects at addresses, each with    *)
(* the address it was copied to, and the graph of objects that the program  *)
(* sees through whichever of the copies is there.                           *)
(***************************************************************************)
EXTENDS Integers, Sequences, FiniteSets

CONSTANT Ids   \* bound: identities of objects, positive numbers

Null == <<0>>          \* the null pointer; other addresses are tuples with more
Object(id, n) == [id |-> id, field |-> [k \in 1..n |-> Null], fwd |-> Null]

\* The copy of an object that counts: the new one if there is one.
Copy(mem, a) == IF mem[a].fwd = Null THEN a ELSE mem[a].fwd

\* The identity behind an address; -1 behind a dangling pointer.
IdAt(mem, a) == IF a = Null THEN 0 ELSE IF a \in DOMAIN mem THEN mem[a].id ELSE -1

\* The addresses of the copies that count, of the objects reachable from the
\* addresses in S.
ReachedFrom(mem, S) ==
    LET Copies(T) == {Copy(mem, a) : a \in T \cap DOMAIN mem}
        Pointed(T) == UNION {{mem[a].field[k] : k \in DOMAIN mem[a].field} : a \in T \cap DOMAIN mem}
        reach[n \in 0..Cardinality(Ids)] ==
            IF n = 0 THEN Copies(S) ELSE LET R == reach[n - 1] IN R \cup Copies(Pointed(R))
    IN  reach[Cardinality(Ids)]

\* Nothing leads to the other objects any more and nothing is done to them: they
\* keep their room and are left out.
Kept(mem, S) == [a \in ReachedFrom(mem, S) |-> mem[a]]

\* The pointers between the objects, by identity.
GraphOf(mem, S) ==
    LET live == ReachedFrom(mem, S) IN
    [i \in {IdAt(mem, a) : a \in live} |->
        LET o == mem[CHOOSE a \in live : IdAt(mem, a) = i] IN
        [k \in DOMAIN o.field |-> IdAt(mem, o.field[k])]]

\* No object was copied twice.
OneCopyEach(mem, S) ==
    LET live == ReachedFrom(mem, S) IN \A a, b \in live : IdAt(mem, a) = IdAt(mem, b) => a = b
==============================================================================
