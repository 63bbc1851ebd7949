------------------------------- MODULE Objects -------------------------------
(***************************************************************************)
(* Heap objects: their format (src/runtime/object.h), the primitives that   *)
(* make them, polymorphic equality, the enumeration of their pointers and   *)
(* the copying of boxed arrays (src/runtime/object.c).                      *)
(*                                                                         *)
(* A payload is counted in words.  A word is a pointer (an address or NULL) *)
(* where the type of the object or the bitmap says so, else a number.       *)
(***************************************************************************)
EXTENDS Integers, Sequences, FiniteSets, SequencesExt

CONSTANTS BitmapBits,   \* BITMAP_NUM_BITS: bits of one bitmap word
          Words,        \* the unboxed words
          Types,        \* the types of objects the program allocates
          MaxLen,       \* bound: the words of an object
          MaxObjects,   \* bound: the objects of the heap
          MaxCopies     \* bound: the calls of sml_copyary

ObjectConstants == BitmapBits \in Nat \ {0} /\ Words \subseteq Nat /\ MaxLen \in Nat

VARIABLES heap,    \* the objects; an object pointer is an index, 0 is NULL
          copy,    \* the arguments of sml_copyary as its loop changes them
          copies   \* the number of copies made

vars == <<heap, copy, copies>>

Null == 0
NoCopy == [len |-> 0, down |-> FALSE]
Addresses == 1..Len(heap)
Pointers == Addresses \cup {Null}

Arrays == {"UNBOXED_ARRAY", "BOXED_ARRAY"}

Init == heap = << >> /\ copy = NoCopy /\ copies = 0
------------------------------------------------------------------------------
(* The format                                                                *)

\* One bitmap word too few when the last is not full.
BitmapsLenFloor(len) == len \div BitmapBits
\* OBJ_BITMAPS_LEN
BitmapsLen(len) == (len + BitmapBits - 1) \div BitmapBits

\* The bitmap words that cover the tags of a record.
Bitmap(tags) ==
    [n \in 1..BitmapsLen(Len(tags)) |->
        [b \in 1..BitmapBits |->
            LET k == (n - 1) * BitmapBits + b IN IF k <= Len(tags) THEN tags[k] ELSE 0]]

\* BITMAP_BIT for index 0, 1, ...; a word behind the bitmap is no tag.
BITMAP_BIT(bitmaps, index) ==
    LET n == index \div BitmapBits + 1 IN
    IF n <= Len(bitmaps) THEN bitmaps[n][(index % BitmapBits) + 1] ELSE 0

\* The slots whose contents are passed on.
sml_obj_enum_ptr(o) ==
    CASE o.type \in {"UNBOXED_ARRAY", "UNBOXED_VECTOR", "INTINF"} -> {}
      [] o.type \in {"BOXED_ARRAY", "BOXED_VECTOR"} -> 1..Len(o.payload)
      [] o.type = "RECORD" -> {k \in 1..Len(o.payload) : BITMAP_BIT(o.bitmap, k - 1) = 1}

\* The bit 0x10000000 of the types' codes 0, 1, 2, 3, 5 and 6.
OBJ_FLAG_MAY_HAVE_PTR(o) == o.type \in {"BOXED_VECTOR", "BOXED_ARRAY", "RECORD"}
------------------------------------------------------------------------------
(* Equality                                                                  *)

\* The tags of the record are not looked at.
AnyTags(v, r) == v.type \in {"UNBOXED_VECTOR", "BOXED_VECTOR"}

\* A record is comparable with a vector if all of its words have the tag of
\* the vector's elements.
Comparable(v, r) ==
    \/ /\ v.type = "UNBOXED_VECTOR"
       /\ \A k \in 1..Len(r.payload) : BITMAP_BIT(r.bitmap, k - 1) = 0
    \/ /\ v.type = "BOXED_VECTOR"
       /\ \A k \in 1..Len(r.payload) : BITMAP_BIT(r.bitmap, k - 1) = 1

\* The type that governs the comparison: the two objects are swapped if the
\* first of two types is RECORD.
Governing(o1, o2) == IF o1.type = "RECORD" THEN o2 ELSE o1

\* The recursive calls follow the heap, whose cycles go through arrays only.
sml_obj_equal(h, a1, a2) ==
    LET eq[x \in 0..Len(h), y \in 0..Len(h)] ==
          IF x = y THEN TRUE
          ELSE IF x = Null \/ y = Null THEN FALSE
          ELSE LET o1 == Governing(h[x], h[y])
                   o2 == IF o1 = h[x] THEN h[y] ELSE h[x]
                   WordsEqual(k) ==
                     IF k \in sml_obj_enum_ptr(o1) THEN eq[h[x].payload[k], h[y].payload[k]]
                     ELSE h[x].payload[k] = h[y].payload[k]
               IN  /\ Len(h[x].payload) = Len(h[y].payload)
                   /\ \/ h[x].type = h[y].type
                      \/ /\ "RECORD" \in {h[x].type, h[y].type}
                         /\ Comparable(o1, o2)
                   /\ o1.type \notin Arrays
                   /\ h[x].type = h[y].type /\ o1.type = "RECORD" => h[x].bitmap = h[y].bitmap
                   /\ \A k \in 1..Len(o1.payload) : WordsEqual(k)
    IN  eq[a1, a2]
------------------------------------------------------------------------------
(* Operations                                                                *)

Boxed(type) == type \in {"BOXED_VECTOR", "BOXED_ARRAY"}
Allocate(o) ==
    /\ Len(heap) < MaxObjects /\ copy = NoCopy
    /\ heap' = Append(heap, o)
    /\ UNCHANGED <<copy, copies>>

\* sml_obj_alloc and the initialisation by its caller.
sml_obj_alloc(type, payload) ==
    /\ type \in Types
    /\ IF Boxed(type) THEN Range(payload) \subseteq Pointers ELSE Range(payload) \subseteq Words
    /\ Allocate([type |-> type, payload |-> payload, bitmap |-> << >>, tags |-> << >>])

\* A string: a vector with a null sentinel behind its characters.
sml_str_new2(str) ==
    /\ "UNBOXED_VECTOR" \in Types
    /\ Allocate([type |-> "UNBOXED_VECTOR", payload |-> Append(str, 0),
                 bitmap |-> << >>, tags |-> << >>])

sml_load_intinf(n) ==
    /\ "INTINF" \in Types
    /\ Allocate([type |-> "INTINF", payload |-> <<n>>, bitmap |-> << >>, tags |-> << >>])

\* Compiled code makes a record and its bitmap; "tags" is what it knows of the
\* words and is not in the object.
AllocRecord(tags, payload) ==
    /\ "RECORD" \in Types
    /\ \A k \in DOMAIN tags : payload[k] \in IF tags[k] = 1 THEN Pointers ELSE Words
    /\ Allocate([type |-> "RECORD", payload |-> payload, bitmap |-> Bitmap(tags), tags |-> tags])

\* An assignment to an element of a boxed array; it may close a cycle.
sml_write(a, k, v) ==
    /\ copy = NoCopy /\ copies = 0
    /\ heap[a].type = "BOXED_ARRAY" /\ heap[a].payload[k] # v
    /\ heap' = [heap EXCEPT ![a].payload[k] = v]
    /\ UNCHANGED <<copy, copies>>

\* What the elements of dst should be when the copy is done.
Expected(src, si, dst, di, len) ==
    [k \in DOMAIN heap[dst].payload |->
        IF k \in (di + 1)..(di + len) THEN heap[src].payload[si + (k - di)]
        ELSE heap[dst].payload[k]]

\* The array is always copied upwards.
Upwards(src, dst) == FALSE
\* sml_copyary goes down from the end if the arrays are the same.
Downwards(src, dst) == src = dst

sml_copyary(src, si, dst, di, len) ==
    /\ copy = NoCopy /\ copies < MaxCopies
    /\ \A a \in {src, dst} : heap[a].type = "BOXED_ARRAY"
    /\ si + len <= Len(heap[src].payload) /\ di + len <= Len(heap[dst].payload)
    /\ len > 0
    /\ copy' = [src |-> src, si |-> si, dst |-> dst, di |-> di, len |-> len,
                down |-> Downwards(src, dst),
                up |-> src = dst /\ di < si,
                expected |-> Expected(src, si, dst, di, len)]
    /\ copies' = copies + 1
    /\ UNCHANGED heap

\* One turn of either loop: sml_write and the counters.
CopyStep ==
    /\ copy.len > 0
    /\ LET at == IF copy.down THEN copy.len ELSE 1 IN
       heap' = [heap EXCEPT ![copy.dst].payload[copy.di + at] = heap[copy.src].payload[copy.si + at]]
    /\ copy' = IF copy.down THEN [copy EXCEPT !.len = @ - 1]
               ELSE [copy EXCEPT !.len = @ - 1, !.si = @ + 1, !.di = @ + 1]
    /\ UNCHANGED copies

CopyDone == copy # NoCopy /\ copy.len = 0
EndCopy == CopyDone /\ copy' = NoCopy /\ UNCHANGED <<heap, copies>>

Payloads(S) == UNION {[1..n -> S] : n \in 1..MaxLen}
Next ==
    \/ \E type \in {"UNBOXED_VECTOR", "UNBOXED_ARRAY"}, p \in Payloads(Words) : sml_obj_alloc(type, p)
    \/ \E type \in {"BOXED_VECTOR", "BOXED_ARRAY"}, p \in Payloads(Pointers) : sml_obj_alloc(type, p)
    \/ \E n \in 1..(MaxLen - 1) : \E str \in [1..n -> Words] : sml_str_new2(str)
    \/ \E n \in Words : sml_load_intinf(n)
    \/ \E n \in 1..MaxLen : \E tags \in [1..n -> {0, 1}], p \in [1..n -> Words \cup Pointers] : AllocRecord(tags, p)
    \/ \E a \in Addresses : \E k \in 1..Len(heap[a].payload), v \in Pointers : sml_write(a, k, v)
    \/ \E src, dst \in Addresses : \E si, di \in 0..(MaxLen - 1), len \in 1..MaxLen :
          sml_copyary(src, si, dst, di, len)
    \/ CopyStep
    \/ EndCopy

Spec == Init /\ [][Next]_vars
------------------------------------------------------------------------------
(* Properties                                                                *)

\* What an object stands for: an array for itself, an integer for its value,
\* anything else for the sequence of what its words stand for.
Value(h) ==
    LET value[a \in 0..Len(h)] ==
          IF a = Null THEN <<"null", 0>>
          ELSE LET o == h[a] IN
               IF o.type \in Arrays THEN <<"array", a>>
               ELSE IF o.type = "INTINF" THEN <<"int", o.payload[1]>>
               ELSE <<"content", [k \in 1..Len(o.payload) |->
                        IF k \in sml_obj_enum_ptr(o) THEN value[o.payload[k]] ELSE <<"word", o.payload[k]>>]>>
    IN  value

\* What the collector takes for pointers is NULL or an object, and of a record
\* exactly the words that hold pointers; and only objects whose header says that
\* they may have pointers have any.
TypeOK ==
    /\ \A a \in Addresses : LET o == heap[a] IN
          /\ \A k \in sml_obj_enum_ptr(o) : o.payload[k] \in Pointers
          /\ o.type = "RECORD" => sml_obj_enum_ptr(o) = {k \in DOMAIN o.tags : o.tags[k] = 1}
          /\ sml_obj_enum_ptr(o) # {} => OBJ_FLAG_MAY_HAVE_PTR(o)
    /\ copy.len \in 0..MaxLen /\ copies \in 0..MaxCopies

\* sml_obj_equal holds of exactly the objects of equal content, whether they
\* are built as vectors or as records and in whichever order they are given;
\* arrays are equal only to themselves ("content equality", "identity
\* equality", object.h).
EqualIsContent ==
    LET value == Value(heap) IN
    \A a, b \in Pointers : sml_obj_equal(heap, a, b) <=> value[a] = value[b]

\* The collector follows the same structure in objects that are equal.
EqualTracedAlike ==
    \A a, b \in Addresses :
        sml_obj_equal(heap, a, b) => sml_obj_enum_ptr(heap[a]) = sml_obj_enum_ptr(heap[b])

\* sml_copyary leaves in dst what was in src before the call, for two different
\* arrays and for a move towards the end of one.
CopiesUnlessUp == CopyDone /\ ~copy.up => heap[copy.dst].payload = copy.expected

\* ... and for a move towards the beginning of an array as well ("source array
\* and dstination array may overlap").
CopiesOverlapping == CopyDone => heap[copy.dst].payload = copy.expected
==============================================================================
