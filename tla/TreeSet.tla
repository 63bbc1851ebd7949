------------------------------- MODULE TreeSet -------------------------------
(* What splay.h promises of a tree: a set of items of which equivalent ones  *)
(* are the same, whatever the shape of the tree that holds them.             *)
EXTENDS Integers, Sequences, FiniteSets

CONSTANT Keys        \* the items, ordered by the tree's compare function

VARIABLES items,     \* the items in the tree
          ret        \* what the last call gave back: the items it found or met, in order

AnswerOf(k) == IF k \in items THEN <<k>> ELSE << >>

Init == items = {} /\ ret = << >>

\* sml_tree_find returns the equivalent item or null.
Find(k) == items' = items /\ ret' = AnswerOf(k)

\* sml_tree_insert returns the item in the tree.
Insert(k) == items' = items \cup {k} /\ ret' = <<k>>

\* sml_tree_delete returns the deleted item or null.
Delete(k) == items' = items \ {k} /\ ret' = AnswerOf(k)

\* sml_tree_each visits every item once, in order.
Each == /\ items' = items
        /\ Len(ret') = Cardinality(items)
        /\ \A i \in 1..Len(ret') : ret'[i] \in items
        /\ \A i, j \in 1..Len(ret') : i < j => ret'[i] < ret'[j]

\* sml_tree_reject asks for every item once, in order, and drops those refused.
Reject(refused) == /\ items' = items \ refused
                   /\ Len(ret') = Cardinality(items)
                   /\ \A i \in 1..Len(ret') : ret'[i] \in items
                   /\ \A i, j \in 1..Len(ret') : i < j => ret'[i] < ret'[j]

\* sml_tree_rebuild and sml_tree_compact change nothing a caller can see.
Tidy == items' = items /\ ret' = << >>

Next == \/ \E k \in Keys : Find(k) \/ Insert(k) \/ Delete(k)
        \/ Each
        \/ \E refused \in SUBSET Keys : Reject(refused)
        \/ Tidy

Spec == Init /\ [][Next]_<<items, ret>>
==============================================================================
