----------------------------- MODULE FrameTable -----------------------------
(***************************************************************************)
(* Frame layouts from the compiler to the collector: the table that         *)
(* src/llvm/main/smlsharp_gc.cpp emits for a module, what sml_gcroot of     *)
(* src/runtime/top.c reads from it, and the walk over a stack by            *)
(* frame_enum_ptr and sml_stack_enum_ptr of src/runtime/control.c.          *)
(*                                                                         *)
(* The table is a sequence of 16-bit units; a pointer takes Ptr of them.    *)
(* The stack is a sequence of words; a frame of C code is one word.         *)
(***************************************************************************)
EXTENDS Integers, Sequences, SequencesExt, FiniteSetsExt

CONSTANTS Functions,  \* what LLVM knows of a function: strategy, frame size and roots
                      \* in bytes, and how many safe points it has
          MaxFuns,    \* bound: the functions of a module
          MaxFrames,  \* bound: the ML frames of the stack
          Ptr,        \* units of a pointer, of two bytes each
          Limit       \* one more than an uint16_t can hold, scaled down

FrameTableConstants == Ptr \in Nat \ {0} /\ Limit \in Nat /\ MaxFuns < Limit

VARIABLES funs,     \* the functions of the module, in order
          emitted,  \* how many of them have been emitted
          out,      \* the table, from _SML_ftab on
          pc,       \* "emit", "load", "run", "walk", "done" or "fatal"
          t,        \* sml_gcroot: the layout it is at
          items,    \* the safe points and the layouts of the sml_gcroot
          stack,    \* user->stack: ranges of frames, the latest first, and for every
                    \* frame the safe point where its function is suspended
          null,     \* the slot that holds NULL, or 0; bound: there is one at most
          range, fp, \* sml_stack_enum_ptr: the range and the end of the frame it is at
          visited   \* the slots that were traced

vars == <<funs, emitted, out, pc, t, items, stack, null, range, fp, visited>>
walk == <<null, range, fp, visited>>

Bytes == 2 * Ptr                   \* of a pointer
PointsOf(i) == [k \in 1..funs[i].points |-> i * Limit + k]   \* code offsets, all distinct

Init ==
    /\ funs \in BoundedSeq(Functions, MaxFuns)
    /\ emitted = 0 /\ out = << >> /\ pc = "emit" /\ t = 1 /\ items = << >>
    /\ stack = << >> /\ null = 0 /\ range = 1 /\ fp = 1 /\ visited = << >>
------------------------------------------------------------------------------
(* smlsharp_gc.cpp                                                           *)

\* EmitUInt16 and its error, "EmitUInt16: out of range".
InRange(v, unit) == v % unit = 0 /\ v \div unit < Limit
Pad(n) == [k \in 1..((Ptr - (n % Ptr)) % Ptr) |-> 0]   \* EmitAlignPtrSize

\* Functions without a safe point are emitted too.
EmitAll(f) == f.strategy = "smlsharp"
\* Functions of other strategies and those without a safe point are left out.
Emitted(f) == f.strategy = "smlsharp" /\ f.points # 0

Descriptor(i) ==
    LET f == funs[i]
        head == <<f.points, f.frame \div Bytes, Len(f.roots)>>
                \o [k \in DOMAIN f.roots |-> f.roots[k] \div Bytes]
        Pointer(v) == [k \in 1..Ptr |-> IF k = 1 THEN v ELSE 0]
    IN  head \o Pad(Len(head)) \o FlattenSeq([k \in 1..f.points |-> Pointer(PointsOf(i)[k])])

\* EmitFunctionInfo of the next function.
EmitFunctionInfo ==
    LET i == emitted + 1
        f == funs[i]
    IN  /\ pc = "emit" /\ emitted < Len(funs)
        /\ emitted' = i
        /\ IF ~Emitted(f) THEN UNCHANGED <<out, pc>>
           ELSE IF /\ InRange(f.points, 1) /\ InRange(f.frame, Bytes) /\ InRange(Len(f.roots), 1)
                   /\ \A k \in DOMAIN f.roots : InRange(f.roots[k], Bytes)
             THEN out' = out \o Descriptor(i) /\ UNCHANGED pc
           ELSE pc' = "fatal" /\ UNCHANGED out
        /\ UNCHANGED <<funs, t, items, stack, walk>>

\* The end of finishAssembly.
FinishAssembly ==
    /\ pc = "emit" /\ emitted = Len(funs)
    /\ out' = Append(out, 0)
    /\ pc' = "load"
    /\ UNCHANGED <<funs, emitted, t, items, stack, walk>>
------------------------------------------------------------------------------
(* top.c                                                                     *)

num_safe_points(l)  == out[l]
frame_size(l)       == out[l + 1]
num_roots(l)        == out[l + 2]
root_offsets(l, k)  == out[l + 2 + k]

LAYOUT_SIZE(l) == 3 + num_roots(l)
SAFE_POINTS_OFFSET(l) == ((LAYOUT_SIZE(l) + Ptr - 1) \div Ptr) * Ptr
SAFE_POINTS(l, k) == out[l + SAFE_POINTS_OFFSET(l) + (k - 1) * Ptr]
NEXT_LAYOUT(l) == l + SAFE_POINTS_OFFSET(l) + num_safe_points(l) * Ptr

\* sml_gcroot: the safe points of one layout.
LoadLayout ==
    /\ pc = "load" /\ num_safe_points(t) > 0
    /\ items' = items \o [k \in 1..num_safe_points(t) |-> [addr |-> SAFE_POINTS(t, k), layout |-> t]]
    /\ t' = NEXT_LAYOUT(t)
    /\ UNCHANGED <<funs, emitted, out, pc, stack, walk>>

LoadDone ==
    /\ pc = "load" /\ num_safe_points(t) = 0
    /\ pc' = "run"
    /\ UNCHANGED <<funs, emitted, out, t, items, stack, walk>>
------------------------------------------------------------------------------
(* control.c                                                                 *)

Callable == {<<i, k>> \in (1..Len(funs)) \X (1..Limit) : Emitted(funs[i]) /\ k <= funs[i].points}

\* The program calls functions, until it waits for the collector; the top of the
\* stack comes first.  The first function and those that C code calls back start
\* a range, whose bottom is their frame (sml_start).
Call ==
    /\ pc = "run" /\ Len(FlattenSeq(stack)) < MaxFrames
    /\ \E c \in Callable :
          \/ stack' = << <<c>> >> \o stack
          \/ stack # << >> /\ stack' = << <<c>> \o Head(stack) >> \o Tail(stack)
    /\ UNCHANGED <<funs, emitted, out, pc, t, items, walk>>

\* The stack as it lies in memory: the end of the n-th frame of the r-th range,
\* above the word with the return address into its function; C code lies between
\* two ranges.
Above(r, n) == FlattenSeq(SubSeq(stack, 1, r - 1)) \o SubSeq(stack[r], 1, n - 1)
EndOf(r, n) == FoldLeft(LAMBDA e, c : e + funs[c[1]].frame \div Bytes + 1, r, Above(r, n))
Frames == {<<r, n>> \in (1..Len(stack)) \X (1..MaxFrames) : n <= Len(stack[r])}
FrameAt(e) == CHOOSE f \in Frames : EndOf(f[1], f[2]) = e
SlotsOf(r, n) == LET f == funs[stack[r][n][1]]
                 IN  [k \in DOMAIN f.roots |-> EndOf(r, n) + f.roots[k] \div Bytes]

Collect ==
    /\ pc = "run" /\ stack # << >>
    /\ null' \in {0} \cup UNION {ToSet(SlotsOf(f[1], f[2])) : f \in Frames}
    /\ pc' = "walk"
    /\ UNCHANGED <<funs, emitted, out, t, items, stack, range, fp, visited>>

FRAME_CODE_ADDRESS(e) == LET f == FrameAt(e)
                             c == stack[f[1]][f[2]] IN PointsOf(c[1])[c[2]]
sml_lookup_frametable(a) == (CHOOSE i \in ToSet(items) : i.addr = a).layout
Bottom(r) == EndOf(r, Len(stack[r]))

\* The return address is forgotten.
NextAtBegin(begin) == begin
NEXT_FRAME(begin) == begin + 1

\* Offsets are counted downwards from the beginning of the frame.
SlotsFromBegin(l) == [k \in 1..num_roots(l) |-> fp + frame_size(l) - root_offsets(l, k)]
\* The slots of the frame that ends at fp.
RootSlots(l) == [k \in 1..num_roots(l) |-> fp + root_offsets(l, k)]

\* frame_enum_ptr, and in sml_stack_enum_ptr the next frame up to the bottom of
\* the range, then the top of the next range.
frame_enum_ptr ==
    LET l == sml_lookup_frametable(FRAME_CODE_ADDRESS(fp))
        next == NEXT_FRAME(fp + frame_size(l))
    IN  /\ pc = "walk"
        /\ visited' = visited \o SelectSeq(RootSlots(l), LAMBDA slot : slot # null)
        /\ \/ fp # Bottom(range) /\ fp' = next /\ UNCHANGED <<pc, range>>
           \/ /\ fp = Bottom(range) /\ range < Len(stack)
              /\ range' = range + 1 /\ fp' = EndOf(range + 1, 1) /\ UNCHANGED pc
           \/ fp = Bottom(range) /\ range = Len(stack) /\ pc' = "done" /\ UNCHANGED <<range, fp>>
        /\ UNCHANGED <<funs, emitted, out, t, items, stack, null>>

Next == EmitFunctionInfo \/ FinishAssembly \/ LoadLayout \/ LoadDone \/ Call \/ Collect \/ frame_enum_ptr
Spec == Init /\ [][Next]_vars
------------------------------------------------------------------------------
\* What is read of the table lies in it, and layouts lie at addresses aligned
\* for pointers.
TypeOK ==
    /\ pc = "load" => t <= Len(out)
    /\ \A i \in ToSet(items) : i.layout \in 1..Len(out) /\ (i.layout - 1) % Ptr = 0
    /\ pc = "walk" => fp \in {EndOf(range, n) : n \in DOMAIN stack[range]}

\* The runtime reads what the compiler knew: the safe points of the functions
\* with safe points, in order, each with the layout of its function.
ReadAsEmitted ==
    pc \notin {"emit", "load", "fatal"} =>
        LET mine == SelectSeq([i \in DOMAIN funs |-> i], LAMBDA i : Emitted(funs[i]))
            Known(i) == [k \in 1..funs[i].points |->
                           <<PointsOf(i)[k], funs[i].frame \div Bytes, [r \in DOMAIN funs[i].roots |->
                                                                          funs[i].roots[r] \div Bytes]>>]
            Read(x) == <<x.addr, frame_size(x.layout),
                         [r \in 1..num_roots(x.layout) |-> root_offsets(x.layout, r)]>>
        IN  [n \in DOMAIN items |-> Read(items[n])] = FlattenSeq([j \in DOMAIN mine |-> Known(mine[j])])

\* The walk traces the root slots of every frame of every range of the stack that
\* are not NULL, once, and no other word.
AllRootsTraced ==
    pc = "done" =>
        visited = FlattenSeq([r \in DOMAIN stack |-> FlattenSeq([n \in DOMAIN stack[r] |->
                     SelectSeq(SlotsOf(r, n), LAMBDA slot : slot # null)])])
==============================================================================
