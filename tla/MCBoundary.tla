----------------------------- MODULE MCBoundary ------------------------------
(* Where ML code meets the rest of the process: user threads that start,     *)
(* leave, enter, call back and move to another worker, exceptions that pass   *)
(* C and C++ frames, and ML functions handed to C.  The three components      *)
(* share no state; a behaviour is one of one of them, users with or without   *)
(* callbacks (component).                                                     *)
EXTENDS UserMigration, TLC

CONSTANTS w1, w2,
          Functions, MaxDepth, MaxExns,   \* Exceptions
          Codes, Envs, PerPage, MaxExports  \* Callbacks

VARIABLES component,
          calls, exn, unwinding, active, closed, exn_object, freed, outcome,
          items, base, end, ready, pc, call, got, met

One == {w1}

\* The contexts that are made or will be by a thread being moved.
Needed == Cardinality(made)
          + Cardinality({t \in Threads : at[t] \in {"plain", "lock", "lock2", "spin", "enum", "move"}})
Symmetry == Permutations(Threads) \cup Permutations(Codes)

\* A function of each shape the compiler produces: without a handler, with
\* one, calling C functions of the three kinds, and the top of a callback.
Site(type, callee, len) == [type |-> type, callee |-> callee, len |-> len]
Code ==
  [plain    |-> [table |-> "no LSDA", sites |-> <<Site({}, "ml", 1)>>],
   main     |-> [table |-> "empty",   sites |-> <<Site({}, "ml", 1)>>],
   handler  |-> [table |-> "table",   sites |-> <<Site({}, "ml", 2), Site({"catch"}, "ml", 1)>>],
   foreign  |-> [table |-> "table",   sites |-> <<Site({"cleanup"}, "leave", 1),
                                                  Site({"catch", "cleanup"}, "leave", 2),
                                                  Site({"cleanup"}, "save", 1)>>],
   callback |-> [table |-> "table",   sites |-> <<Site({"cleanup"}, "ml", 1)>>]]
X == INSTANCE Exceptions WITH stack <- calls

\* Environments 1 and 2 are two objects with the same content.
Contents == [e \in Envs |-> IF e = 2 THEN 1 ELSE e]
C == INSTANCE Callbacks WITH Content <- Contents, seen <- met

ASSUME X!ExceptionConstants /\ C!CallbackConstants

xVars == <<calls, exn, unwinding, active, closed, exn_object, freed, outcome>>
cVars == <<items, base, end, ready, pc, call, got, met>>

MCInit ==
  /\ component \in {"users", "callers", "exceptions", "callbacks"}
  /\ Init  /\ X!Init /\ C!Init

MCNext ==
  /\ \/ /\ component = "users" /\ Next /\ \A t \in Threads : ranges'[t] <= 1
        /\ UNCHANGED <<xVars, cVars>>
     \/ component = "callers"    /\ Next   /\ Needed' <= 3 /\ UNCHANGED <<xVars, cVars>>
     \/ component = "exceptions" /\ X!Next /\ UNCHANGED <<vars, cVars>>
     \/ component = "callbacks"  /\ C!Next /\ UNCHANGED <<vars, xVars>>
  /\ UNCHANGED component

MCSpec == MCInit /\ [][MCNext]_<<vars, xVars, cVars, component>>

-----------------------------------------------------------------------------
\* Unwinding: the landing pad found for a return address is that of the call;
\* num_cleanup is what is left to run, and no frame with a cleanup is passed
\* over, through destructors, nested exceptions and rethrows; the collector's
\* view of the user fits the code that runs; and an ML exception on its way
\* through C code is in exn_object.
UnwindingSound == component = "exceptions" =>
  /\ X!TypeOK /\ X!PadOfCall
  /\ X!CleanupsCounted /\ X!ContextMatches
  /\ X!InFlightKept

\* The callback table: a callback is in it once, whatever is exported at the
\* same time; the search that follows "next" meets all items of a code; and no
\* trampoline is handed out twice.
CallbacksSound == component = "callbacks" => C!TypeOK /\ C!OneItem /\ C!ChainWhole /\ C!OwnTrampoline

\* The collector meets the environment of every callback that C code can call.
EnvironmentsSeen == C!EnvironmentsSeen
==============================================================================
