----------------------------- MODULE Exceptions ------------------------------
(* Raising an ML exception through ML and C++ frames: sml_raise and the      *)
(* personality function of src/runtime/exn.c, and sml_save_exn,              *)
(* sml_unsave_exn, sml_save and sml_unsave of control.c as the landing pads  *)
(* the compiler generates call them.                                         *)
(*                                                                           *)
(* One user's stack, the bottom frame first.  Unwinding has two phases: the  *)
(* search, which runs no code of the frames and is one step, and the         *)
(* cleanup, one step per frame.  A C++ frame may run code of its own during  *)
(* the cleanup phase (a destructor) or catch the exception, and in both it   *)
(* may call ML functions back, which may raise again.                        *)
EXTENDS Integers, Sequences, FiniteSets, SequencesExt, FiniteSetsExt

CONSTANTS Functions,   \* the ML functions of the program
          Code,        \* Code[f]: its exception table and its call sites in the order of their addresses
          MaxDepth,    \* bound: frames on the stack
          MaxExns      \* bound: exceptions raised

ExceptionConstants == MaxDepth \in Nat \ {0} /\ MaxExns \in Nat

VARIABLES stack,       \* the frames
          exn,         \* the exceptions raised so far
          unwinding,   \* the exception whose frames are being removed, or None
          active,      \* the user is in ML code, for the collector
          closed,      \* the user's stack range is closed: stack->top is set
          exn_object,  \* user->exn_object
          freed,       \* exceptions the function "cleanup" has freed
          outcome      \* running, or how the process ended

vars == <<stack, exn, unwinding, active, closed, exn_object, freed, outcome>>

None == 0
Top == Len(stack)
TopFrame == stack[Top]
------------------------------------------------------------------------------
(* The exception table of a function                                         *)

CATCH   == "catch"
CLEANUP == "cleanup"

\* The call-site table LLVM writes: one entry per site, sorted by address; a
\* site without landing pad has address 0; the action tells a cleanup from a
\* catch, and a second action that the pad is both.
StartOf(sites, k) == FoldLeftDomain(LAMBDA sum, i : IF i < k THEN sum + sites[i].len ELSE sum, 0, sites)
CallSites(f) ==
    LET sites == Code[f].sites IN
    [k \in 1..Len(sites) |->
        [start |-> StartOf(sites, k), len |-> sites[k].len,
         lpad |-> IF sites[k].type = {} THEN 0 ELSE k,
         action |-> IF CATCH \in sites[k].type THEN 1 ELSE 0,
         more |-> sites[k].type = {CATCH, CLEANUP}]]

\* _Unwind_GetIP: the address behind the call instruction of a site.
RetAddr(f, k) == LET e == CallSites(f)[k] IN e.start + e.len

\* The type an entry encodes.
TypeOf(entry) == IF entry.lpad = 0 THEN {}
                 ELSE IF entry.action = 0 THEN {CLEANUP}
                 ELSE IF ~entry.more THEN {CATCH}
                 ELSE {CATCH, CLEANUP}

\* Looking for the return address itself.
NotDecremented(ip) == ip
\* Each entry is a range of call instructions; ip is behind one.
InCall(ip) == ip - 1

\* search_lpad: no table and an empty table have no landing pad; an address
\* in no entry is to terminate the program.
search_lpad(f, ip) ==
    LET at   == InCall(ip)
        hits == {k \in DOMAIN CallSites(f) :
                    CallSites(f)[k].start <= at /\ at < CallSites(f)[k].start + CallSites(f)[k].len}
    IN  IF Code[f].table \in {"no LSDA", "empty"} THEN [type |-> {}, addr |-> None]
        ELSE IF hits = {} THEN [type |-> {CATCH}, addr |-> None]
        ELSE [type |-> TypeOf(CallSites(f)[Min(hits)]), addr |-> Min(hits)]

\* What the search tells of a frame's call; the frame keeps it.
Pad(frame) == frame.lpad
Site(frame) == Code[frame.fun].sites[frame.site]
------------------------------------------------------------------------------
(* The frames                                                                *)

NoPad == [type |-> {}, addr |-> None]
MLFrame(f)  == [kind |-> "ml", fun |-> f, site |-> None, lpad |-> NoPad]
\* pad: what the C++ function has around its calls; exc: the exception whose
\* destructor or catch block it is in.
CxxFrame(p) == [kind |-> "cxx", pad |-> p, exc |-> None, in |-> "body"]

IsML(i)  == stack[i].kind = "ml"
IsCxx(i) == stack[i].kind = "cxx"
Running == outcome = "running" /\ unwinding = None
RunningML  == Running /\ IsML(Top)
RunningCxx == Running /\ IsCxx(Top)

\* main calls sml_main, which starts ML.
Init ==
    /\ stack = <<MLFrame("main")>>
    /\ exn = << >>
    /\ unwinding = None
    /\ active = TRUE /\ closed = FALSE
    /\ exn_object = None
    /\ freed = {}
    /\ outcome = "running"

AtSite(k) == [stack EXCEPT ![Top].site = k,
                           ![Top].lpad = search_lpad(TopFrame.fun, RetAddr(TopFrame.fun, k))]
Back(frame) == IF frame.kind = "ml" THEN [frame EXCEPT !.site = None, !.lpad = NoPad] ELSE frame

\* A call of an ML function.
CallML(k, f) ==
    /\ RunningML /\ Top < MaxDepth
    /\ k \in DOMAIN Code[TopFrame.fun].sites
    /\ Code[TopFrame.fun].sites[k].callee = "ml"
    /\ f # "callback" /\ f # "main"
    /\ stack' = Append(AtSite(k), MLFrame(f))
    /\ UNCHANGED <<exn, unwinding, active, closed, exn_object, freed, outcome>>

\* A call of a C function: sml_leave before it, or sml_save when the function
\* is declared fast and may allocate.
CallC(k, p) ==
    /\ RunningML /\ Top < MaxDepth
    /\ k \in DOMAIN Code[TopFrame.fun].sites
    /\ Code[TopFrame.fun].sites[k].callee \in {"leave", "save"}
    /\ stack' = Append(AtSite(k), CxxFrame(p))
    /\ active' = (Code[TopFrame.fun].sites[k].callee = "save")
    /\ closed' = TRUE
    /\ UNCHANGED <<exn, unwinding, exn_object, freed, outcome>>

\* C code that has left ML calls an ML function back: sml_start.
Callback ==
    /\ RunningCxx /\ Top < MaxDepth /\ ~active
    /\ stack' = Append(stack, MLFrame("callback"))
    /\ active' = TRUE
    /\ closed' = FALSE
    /\ UNCHANGED <<exn, unwinding, exn_object, freed, outcome>>

\* A return: sml_end when a callback returns to C, sml_enter or sml_unsave
\* when C returns to ML.
Return ==
    /\ Running /\ Top > 1
    /\ IsCxx(Top) => TopFrame.in = "body"
    /\ stack' = [Front(stack) EXCEPT ![Top - 1] = Back(@)]
    /\ active' = IsML(Top - 1)
    /\ closed' = IsCxx(Top - 1)
    /\ UNCHANGED <<exn, unwinding, exn_object, freed, outcome>>
------------------------------------------------------------------------------
(* The search phase                                                          *)

\* The frames that stop the search: an ML handler, a C++ catch clause, and a
\* destructor, out of which nothing may be thrown.
Stops(i) ==
    \/ IsML(i) /\ CATCH \in Pad(stack[i]).type
    \/ IsCxx(i) /\ stack[i].pad = "catch" /\ stack[i].in = "body"
    \/ IsCxx(i) /\ stack[i].in = "dtor"

\* The frames the search asks, from the top down to where it stops.
HandlerIn(frames) == IF \E i \in frames : Stops(i) THEN Max({i \in frames : Stops(i)}) ELSE None
Asked(frames) == {i \in frames : i > HandlerIn(frames)}

\* sml_personality in the search phase counts the cleanups on the way.
Counted(i) == IsML(i) /\ CLEANUP \in Pad(stack[i]).type

\* sml_raise, from any call site of the function on top.
sml_raise(k) ==
    /\ RunningML /\ Len(exn) < MaxExns
    /\ k \in DOMAIN Code[TopFrame.fun].sites
    /\ Code[TopFrame.fun].sites[k].callee = "ml"
    /\ stack' = AtSite(k)
    /\ exn' = Append(exn, [class |-> "sml", num_cleanup |-> 0, handler |-> None])
    /\ unwinding' = Len(exn) + 1
    /\ UNCHANGED <<active, closed, exn_object, freed, outcome>>

\* _Unwind_RaiseException: the search over the frames; without a handler the
\* program reports the uncaught exception and ends.
SearchPhase ==
    LET e == unwinding
        frames == 1..Top
        h == HandlerIn(frames)
        n == Cardinality({i \in Asked(frames) : Counted(i)})
    IN  /\ outcome = "running" /\ e # None
        /\ exn[e].handler = None
        /\ IF h = None
             THEN outcome' = "uncaught" /\ UNCHANGED exn
             ELSE /\ exn' = [exn EXCEPT ![e].handler = h,
                                        ![e].num_cleanup = IF exn[e].class = "sml" THEN @ + n ELSE @]
                  /\ UNCHANGED outcome
        /\ UNCHANGED <<stack, unwinding, active, closed, exn_object, freed>>

\* A C++ throw; out of a catch block the exception caught there is deleted on
\* the way out, when its frame is removed.
Throw ==
    /\ RunningCxx /\ Len(exn) < MaxExns
    /\ exn' = Append(exn, [class |-> "foreign", num_cleanup |-> 0, handler |-> None])
    /\ unwinding' = Len(exn) + 1
    /\ UNCHANGED <<stack, active, closed, exn_object, freed, outcome>>

\* "throw;" in a catch block: _Unwind_Resume_or_Rethrow searches anew, and
\* num_cleanup goes on from what the first unwinding left.
Rethrow ==
    /\ RunningCxx /\ TopFrame.in = "catch"
    /\ unwinding' = TopFrame.exc
    /\ exn' = [exn EXCEPT ![TopFrame.exc].handler = None]
    /\ stack' = [stack EXCEPT ![Top].in = "left", ![Top].exc = None]
    /\ UNCHANGED <<active, closed, exn_object, freed, outcome>>
------------------------------------------------------------------------------
(* The cleanup phase                                                         *)

InCleanupPhase == outcome = "running" /\ unwinding # None /\ exn[unwinding].handler # None
AtHandler == exn[unwinding].handler = Top
IsSML(e) == exn[e].class = "sml"
ExnArg(e) == IF IsSML(e) THEN e ELSE None      \* ret2, the pointer a landing pad gets

\* The exception is not kept.
SaveNothing(arg) == None
SavedExn(arg) == arg

\* sml_save_exn
sml_save_exn(arg) ==
    IF exn_object # None
      THEN outcome' = "nested" /\ UNCHANGED exn_object
      ELSE exn_object' = SavedExn(arg) /\ UNCHANGED outcome

\* sml_unsave_exn does nothing for a foreign exception.
sml_unsave_exn(arg) == IF arg = None THEN exn_object ELSE None

\* The last cleanup passed over.
OneCleanupLeft(e) == IsSML(e) /\ exn[e].num_cleanup <= 1

\* Without cleanups counted, a frame is passed over without a look.
NoCleanupLeft(e) == IsSML(e) /\ exn[e].num_cleanup = 0
HasCleanup(e) == ~NoCleanupLeft(e) /\ CLEANUP \in Pad(TopFrame).type

\* A frame without a cleanup is removed.
PassFrame ==
    /\ InCleanupPhase /\ ~AtHandler /\ IsML(Top)
    /\ ~HasCleanup(unwinding)
    /\ stack' = Front(stack)
    /\ UNCHANGED <<exn, unwinding, active, closed, exn_object, freed, outcome>>

\* Counting down by two, or not at all.
CountDownTwice(e) == IF IsSML(e) THEN [exn EXCEPT ![e].num_cleanup = @ - 2] ELSE exn
CountStays(e) == exn

\* One cleanup fewer is left.
CountDown(e) == IF IsSML(e) THEN [exn EXCEPT ![e].num_cleanup = @ - 1] ELSE exn

\* The landing pad at the top level of a callback: sml_save_exn, sml_end, and
\* the unwinding resumes in C.
CleanupCallback ==
    /\ InCleanupPhase /\ ~AtHandler /\ IsML(Top)
    /\ HasCleanup(unwinding) /\ Site(TopFrame).callee = "ml"
    /\ exn' = CountDown(unwinding)
    /\ sml_save_exn(ExnArg(unwinding))
    /\ active' = FALSE
    /\ closed' = TRUE
    /\ stack' = Front(stack)
    /\ UNCHANGED <<unwinding, freed>>

\* The landing pad of a call of a C function: sml_enter or sml_unsave, then
\* sml_unsave_exn, and the unwinding resumes in ML.
CleanupCall ==
    /\ InCleanupPhase /\ ~AtHandler /\ IsML(Top)
    /\ HasCleanup(unwinding) /\ Site(TopFrame).callee # "ml"
    /\ exn' = CountDown(unwinding)
    /\ active' = TRUE
    /\ closed' = FALSE
    /\ exn_object' = sml_unsave_exn(ExnArg(unwinding))
    /\ stack' = Front(stack)
    /\ UNCHANGED <<unwinding, freed, outcome>>

\* The handler frame: control goes to the landing pad, which enters ML first
\* when the call was one of a C function; a foreign exception is deleted.  A
\* landing pad without address terminates the program.
Handle ==
    /\ InCleanupPhase /\ AtHandler /\ IsML(Top)
    /\ IF Pad(TopFrame).addr = None
         THEN /\ outcome' = "not in table"
              /\ UNCHANGED <<stack, unwinding, active, closed, exn_object>>
         ELSE /\ stack' = [stack EXCEPT ![Top] = Back(@)]
              /\ unwinding' = None
              /\ active' = TRUE
              /\ closed' = FALSE
              /\ exn_object' = IF Site(TopFrame).callee = "ml" THEN exn_object
                                                               ELSE sml_unsave_exn(ExnArg(unwinding))
              /\ UNCHANGED outcome
    /\ UNCHANGED <<exn, freed>>

\* A C++ frame: its destructors run, its catch clause is entered, or it is
\* removed, deleting what its catch block held.
RunDestructor ==
    /\ InCleanupPhase /\ ~AtHandler /\ IsCxx(Top)
    /\ TopFrame.pad = "dtor" /\ TopFrame.in = "body"
    /\ stack' = [stack EXCEPT ![Top].in = "dtor", ![Top].exc = unwinding]
    /\ unwinding' = None
    /\ UNCHANGED <<exn, active, closed, exn_object, freed, outcome>>

EnterCatch ==
    /\ InCleanupPhase /\ AtHandler /\ IsCxx(Top)
    /\ IF TopFrame.in = "dtor"
         THEN outcome' = "std::terminate" /\ UNCHANGED <<stack, unwinding>>
         ELSE /\ stack' = [stack EXCEPT ![Top].in = "catch", ![Top].exc = unwinding]
              /\ unwinding' = None
              /\ UNCHANGED outcome
    /\ UNCHANGED <<exn, active, closed, exn_object, freed>>

\* _Unwind_DeleteException: an ML exception's "cleanup" calls free on it; the
\* C library may stop the program for that.
Delete(e) ==
    IF IsSML(e) THEN freed' = freed \cup {e} /\ outcome' \in {"running", "invalid free"}
                ELSE UNCHANGED <<freed, outcome>>

LeaveCxx ==
    /\ InCleanupPhase /\ ~AtHandler /\ IsCxx(Top)
    /\ ~(TopFrame.pad = "dtor" /\ TopFrame.in = "body")
    /\ IF TopFrame.in = "catch" THEN Delete(TopFrame.exc) ELSE UNCHANGED <<freed, outcome>>
    /\ stack' = Front(stack)
    /\ UNCHANGED <<exn, unwinding, active, closed, exn_object>>

\* The destructors are done: _Unwind_Resume.
Resume ==
    /\ RunningCxx /\ TopFrame.in = "dtor"
    /\ unwinding' = TopFrame.exc
    /\ stack' = [stack EXCEPT ![Top].in = "left", ![Top].exc = None]
    /\ UNCHANGED <<exn, active, closed, exn_object, freed, outcome>>

\* The end of a catch block.
EndCatch ==
    /\ RunningCxx /\ TopFrame.in = "catch"
    /\ Delete(TopFrame.exc)
    /\ stack' = [stack EXCEPT ![Top].in = "body", ![Top].exc = None]
    /\ UNCHANGED <<exn, unwinding, active, closed, exn_object>>

Next ==
    \/ \E k \in 1..3 : \/ \E f \in Functions : CallML(k, f)
                       \/ \E p \in {"none", "dtor", "catch"} : CallC(k, p)
                       \/ sml_raise(k)
    \/ Callback \/ Return \/ SearchPhase \/ Throw \/ Rethrow
    \/ PassFrame \/ CleanupCallback \/ CleanupCall \/ Handle
    \/ RunDestructor \/ EnterCatch \/ LeaveCxx \/ Resume \/ EndCatch

Spec == Init /\ [][Next]_vars
------------------------------------------------------------------------------
TypeOK ==
    /\ Top \in 1..MaxDepth
    /\ unwinding \in 0..Len(exn) /\ exn_object \in 0..Len(exn)
    /\ \A e \in 1..Len(exn) : exn[e].num_cleanup \in 0..MaxDepth /\ exn[e].handler \in 0..MaxDepth
    /\ freed \subseteq 1..Len(exn)

\* The landing pad the table search finds for a return address is that of the
\* call, also when the call is the last instruction before another range.
PadOfCall ==
    \A i \in 1..Top : IsML(i) /\ stack[i].site # None => Pad(stack[i]).type = Site(stack[i]).type

\* num_cleanup is what is left to run: the frames between the top and the
\* handler with a cleanup, through destructors, nested exceptions and rethrows.
\* As long as one is left, no frame is passed over.
CleanupsCounted ==
    \A e \in 1..Len(exn) :
        unwinding = e /\ IsSML(e) /\ exn[e].handler # None /\ outcome = "running" =>
            exn[e].num_cleanup =
                Cardinality({i \in exn[e].handler + 1 .. Top : Counted(i)})

\* The collector's view of the user fits the code that runs: while ML code
\* runs or ML frames are unwound the user is active with an open stack, while
\* C code runs its stack is closed; however control got there.
ContextMatches ==
    outcome = "running" =>
        IF IsCxx(Top)
          THEN closed /\ (active <=> Site(stack[Top - 1]).callee = "save")
        ELSE IF unwinding # None /\ Site(TopFrame).callee # "ml"
          THEN closed /\ (active <=> Site(TopFrame).callee = "save")
        ELSE active /\ ~closed

\* An ML exception on its way through C code is in exn_object, where the
\* collector finds it, until the landing pad that enters ML takes it back.
InFlightKept ==
    outcome = "running" =>
        /\ unwinding # None /\ IsSML(unwinding) /\ closed => exn_object = unwinding
        /\ \A i \in 1..Top : IsCxx(i) /\ stack[i].exc # None /\ IsSML(stack[i].exc) =>
                exn_object = stack[i].exc

\* The program stops for an exception raised while another was being handled
\* only when a cleanup handler of C++ is running.
NestedMeansCleanup == outcome = "nested" => \E i \in 1..Top : IsCxx(i) /\ stack[i].in = "dtor"

\* An exception lives in the ML heap: it is not for free to give back.
FreesNoHeapObject == freed = {}
==============================================================================
