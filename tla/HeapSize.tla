------------------------------ MODULE HeapSize ------------------------------
(***************************************************************************)
(* How the heap gets its size, from SMLSHARP_HEAPSIZE ("min:max") to the    *)
(* memory of the segment pool: src/runtime/init.c (parse_size,              *)
(* parse_heapsize, sml_init) and, of src/runtime/heap_concurrent.c,         *)
(* init_memory, init_segment_pool and init_subheap_count_init.              *)
(*                                                                         *)
(* The text is a sequence of what the parser tells apart: an integer, a     *)
(* fraction such as ".5", one of the units, the colon or anything else.     *)
(* The widths and sizes are scaled down: a size_t has Width bits and a      *)
(* double Mantissa of them.                                                 *)
(***************************************************************************)
EXTENDS Integers, Sequences, SequencesExt, FiniteSetsExt

CONSTANTS Width, Mantissa,   \* of size_t and of double
          Numbers,           \* the integers in the texts
          MaxLen,            \* bound: the tokens of a text
          Unit,              \* what k, M and G stand for
          SEGMENT_SIZE, PageSize,
          DEFAULT_MIN, DEFAULT_MAX,
          NumBlocks          \* num_blocks of each subheap's layout

HeapSizeConstants ==
    /\ Width \in Nat /\ Mantissa \in 1..Width
    /\ SEGMENT_SIZE % PageSize = 0 /\ (2 ^ Width) % SEGMENT_SIZE = 0
    /\ DEFAULT_MIN <= DEFAULT_MAX

VARIABLES text, stage,
          size,      \* heapsize_min and heapsize_max
          mapped,    \* the pages that the system gave, as an interval
          released,  \* the intervals that were given back
          pool,      \* begin and count of the memory, min_num_segments
          rooms      \* extension_room and threshold of the subheaps

vars == <<text, stage, size, mapped, released, pool, rooms>>

Units == {"k", "M", "G"}
Token == [kind : {"number"}, n : Numbers]
         \cup [kind : {"frac", "k", "M", "G", "colon", "other"}, n : {0}]

\* Digits behind digits are the same number or the same fraction.
Texts == {s \in BoundedSeq(Token, MaxLen) :
             \A i \in 2..Len(s) :
                s[i].kind = "number" /\ s[i - 1].kind \in {"number", "frac"} => s[i].n < 0}

At(s, p) == IF p <= Len(s) THEN s[p].kind ELSE "end"
SizeMax == 2 ^ Width - 1
------------------------------------------------------------------------------
(* sml_init: the sizes                                                       *)

\* The conversion to double, of the nearest value with Mantissa bits, and back:
\* beyond size_t the result is undefined.
Doubles(x) ==
    LET ulp == Max({1} \cup {2 ^ e : e \in {f \in 0..Width : 2 ^ (Mantissa + f) <= 2 * x}})
        low == (x \div ulp) * ulp
        up == 2 * (x - low) > ulp \/ (2 * (x - low) = ulp /\ (low \div ulp) % 2 = 1)
        r == IF up THEN low + ulp ELSE low
    IN  IF r <= SizeMax THEN {r} ELSE {0, SizeMax}

\* A negative number is read like the others.
ParseNegative(s, p) ==
    IF At(s, p) = "number" THEN [n |-> s[p].n, next |-> p + 1] ELSE [n |-> 0, next |-> p]
\* strtol, and the position that it leaves.
ParseNumber(s, p) ==
    IF At(s, p) = "number" THEN [n |-> s[p].n, next |-> IF s[p].n < 0 THEN p ELSE p + 1]
    ELSE [n |-> 0, next |-> p]

\* parse_size: the size (r * n + r * f, in double) and the position after it.
parse_size(s, p) ==
    LET num  == ParseNumber(s, p)
        frac == At(s, num.next) = "frac"
        q    == IF frac THEN num.next + 1 ELSE num.next
        unit == At(s, q) \in Units
        r    == IF unit THEN Unit[At(s, q)] ELSE 1
    IN  {[size |-> v, next |-> IF unit THEN q + 1 ELSE q] :
            v \in Doubles(((r * num.n) % 2 ^ Width) + IF frac THEN r \div 2 ELSE 0)}

AtLeast(min, max) == IF max < min THEN min ELSE max

\* parse_heapsize
parse_heapsize(s, old) ==
    UNION {LET min == IF a.next = 1 THEN old.min ELSE a.size
               Result(max, p) == IF At(s, p) = "end" /\ p > 1
                                   THEN [min |-> min, max |-> AtLeast(min, max)] ELSE old
           IN  IF At(s, a.next) = "colon"
                 THEN {Result(b.size, b.next) : b \in parse_size(s, a.next + 1)}
                 ELSE {Result(min, a.next)}
           : a \in parse_size(s, 1)}

Defaults == [min |-> DEFAULT_MIN, max |-> DEFAULT_MAX]
Nothing == [begin |-> 0, count |-> 0, min |-> 0]

Init ==
    /\ text \in Texts
    /\ stage = "init" /\ size = Defaults
    /\ mapped = <<0, 0>> /\ released = {} /\ pool = Nothing /\ rooms = << >>

\* SMLSHARP_HEAPSIZE is read.
sml_init ==
    /\ stage = "init" /\ stage' = "memory"
    /\ \E new \in parse_heapsize(text, Defaults) :
         size' = [new EXCEPT !.max = AtLeast(new.min, @)]
    /\ UNCHANGED <<text, mapped, released, pool, rooms>>
------------------------------------------------------------------------------
(* sml_heap_init                                                             *)

\* The last part of a segment is left out.
FLOOR(x) == (x \div SEGMENT_SIZE) * SEGMENT_SIZE
CEILING(x) == (((x + SEGMENT_SIZE - 1) % 2 ^ Width) \div SEGMENT_SIZE) * SEGMENT_SIZE

\* All of the rest is given back at the end.
ReleaseTail(p, bytes, gap) == {<<p + bytes, p + bytes + SEGMENT_SIZE>>}
\* What init_memory gives back of the bytes + SEGMENT_SIZE bytes at p, of which
\* it keeps those from the first aligned address.
Surplus(p, bytes, gap) ==
    IF gap = 0 THEN {<<p + bytes, p + bytes + SEGMENT_SIZE>>}
    ELSE {<<p, p + SEGMENT_SIZE - gap>>,
          <<p + SEGMENT_SIZE - gap + bytes, p + SEGMENT_SIZE + bytes>>}

\* From the first page, aligned or not.
KeptFromPage(p, gap) == p
\* The first segment that lies in the pages.
KeptFrom(p, gap) == IF gap = 0 THEN p ELSE p + SEGMENT_SIZE - gap

\* init_memory and the rest of init_segment_pool; the pages are at any address.
init_segment_pool(page) ==
    LET p == page * PageSize
        bytes == CEILING(size.max)
        gap == p % SEGMENT_SIZE
    IN  /\ stage = "memory" /\ stage' = "counts"
        /\ bytes + SEGMENT_SIZE <= SizeMax
        /\ mapped' = <<p, p + bytes + SEGMENT_SIZE>>
        /\ released' = Surplus(p, bytes, gap)
        /\ pool' = [begin |-> KeptFrom(p, gap),
                    count |-> bytes \div SEGMENT_SIZE,
                    min   |-> CEILING(size.min) \div SEGMENT_SIZE]
        /\ UNCHANGED <<text, size, rooms>>

Total(seq) == FoldLeft(LAMBDA a, b : a + b, 0, seq)

\* AllocPage fails: "failed to allocate memory".
NoMemory ==
    /\ stage = "memory" /\ stage' = "fatal"
    /\ UNCHANGED <<text, size, mapped, released, pool, rooms>>

\* The share is rounded up.
ShareUp(i) == (pool.min * NumBlocks[i]) \div Total(NumBlocks) + 1
\* A subheap's share of the segments at the start, by the blocks of its segments.
Share(i) == (pool.min * NumBlocks[i]) \div Total(NumBlocks)

init_subheap_count_init ==
    /\ stage = "counts" /\ stage' = "done"
    /\ rooms' = [i \in DOMAIN NumBlocks |->
                    LET room == IF Share(i) <= 0 THEN 1 ELSE Share(i)
                    IN  [extension_room |-> room, threshold |-> (room + 1) \div 2]]
    /\ UNCHANGED <<text, size, mapped, released, pool>>

Next ==
    \/ sml_init
    \/ \E page \in 1..(SEGMENT_SIZE \div PageSize) : init_segment_pool(page)
    \/ NoMemory
    \/ init_subheap_count_init

Spec == Init /\ [][Next]_vars
------------------------------------------------------------------------------
\* The sizes are numbers of the width of size_t, the maximum is not below the
\* minimum, and the memory starts with a segment.
TypeOK ==
    /\ size.min \in 0..SizeMax /\ size.max \in size.min..SizeMax
    /\ pool.begin % SEGMENT_SIZE = 0

\* What is a setting: a minimum, which may be missing, and a maximum behind a
\* colon.  A size is an integer, a fraction and a unit, any of which may be
\* missing.
Optional(K) == {<< >>} \cup {<<k>> : k \in K}
IsSize(s) ==
    /\ [i \in DOMAIN s |-> s[i].kind] \in {n \o f \o u : n \in Optional({"number"}),
                                                       f \in Optional({"frac"}), u \in Optional(Units)}
    /\ \A i \in DOMAIN s : s[i].n >= 0
HasColon(s) == \E i \in DOMAIN s : s[i].kind = "colon"
Setting(s) ==
    /\ s # << >>
    /\ \/ IsSize(s)
       \/ \E i \in DOMAIN s : /\ s[i].kind = "colon"
                              /\ IsSize(SubSeq(s, 1, i - 1)) /\ IsSize(SubSeq(s, i + 1, Len(s)))

\* parse_heapsize takes all of the text or nothing: what is no setting leaves the
\* defaults, a missing minimum is the default and a missing maximum the minimum.
OnlySettings ==
    stage # "init" =>
      /\ ~Setting(text) => size = Defaults
      /\ Setting(text) /\ text[1].kind = "colon" => size.min = DEFAULT_MIN
      /\ Setting(text) /\ ~HasColon(text) => size.min = size.max

\* Unless the rounding up to segments overflows, the pool may grow from its
\* minimum number of segments to its maximum.
MinBelowMax ==
    stage \in {"counts", "done"} /\ size.max + SEGMENT_SIZE <= 2 ^ Width =>
        pool.min <= pool.count /\ size.max <= pool.count * SEGMENT_SIZE

\* init_memory keeps an aligned part of the mapped pages with room for the
\* segments and gives all the rest back, each page once.
AlignedPart ==
    LET In(a, i) == i[1] <= a /\ a < i[2]
        kept == <<pool.begin, pool.begin + pool.count * SEGMENT_SIZE>>
    IN  \A a \in mapped[1]..(mapped[2] + SEGMENT_SIZE) :
            LET parts == {i \in released \cup {kept} : In(a, i)}
            IN  Cardinality(parts) = IF In(a, mapped) THEN 1 ELSE 0

\* If all subheaps have a share, the shares are no more than the minimum.
SharesFit ==
    stage = "done" /\ (\A i \in DOMAIN NumBlocks : rooms[i].extension_room > 1) =>
        Total([i \in DOMAIN rooms |-> rooms[i].extension_room]) <= pool.min
==============================================================================
