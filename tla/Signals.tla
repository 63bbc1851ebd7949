------------------------------ MODULE Signals ------------------------------
(***************************************************************************)
(* Unix signals (signal.c) and the one-shot check hook of a worker         *)
(* (control.c): a handler notes the signal, sets the hook of the thread it *)
(* interrupts and starts a collection, so that the thread polls and calls  *)
(* the hook, which takes the signals and raises an exception.              *)
(*                                                                         *)
(* A handler may interrupt its thread between any two steps, and a handler *)
(* of another signal may interrupt that one.  The rounds are those of      *)
(* GCPhases; a worker is a thread, and a thread with no worker is not      *)
(* interrupted here (sml_set_check_hook would follow a null pointer).      *)
(***************************************************************************)
EXTENDS GCPhases, Sequences, FiniteSets, Integers

CONSTANTS Sigs,      \* the signals sml_signal_sigaction is for, in any order
          Foreign,   \* those that had a handler before
          Receivers  \* the threads the kernel chooses from

VARIABLES
  todo,       \* sml_signal_sigaction: the signals still to do
  ours,       \* signals whose handler is signal_handler
  hookset,    \* signal_hook is not NULL
  signals,    \* signals
  hook,       \* worker->check_hook is set
  at,         \* where each thread is
  frames,     \* the handlers on its stack, the innermost first
  caught      \* history: handlers called, and their signals not yet taken

rounds == <<members, round, waiting>>
setup  == <<todo, ours, hookset>>
vars == <<members, round, waiting, todo, ours, hookset, signals, hook, at,
          frames, caught>>

Init ==
  /\ members = Workers /\ round = 1 /\ waiting = {}
  /\ todo = Sigs /\ ours = {} /\ hookset = FALSE /\ signals = {}
  /\ hook = [t \in Workers |-> FALSE] /\ at = [t \in Workers |-> "ml"]
  /\ frames = [t \in Workers |-> <<>>] /\ caught = {}

Goto(t, label) == at' = [at EXCEPT ![t] = label]
Base(t, label) == at[t] = label /\ frames[t] = <<>>

-----------------------------------------------------------------------------
(* sml_signal_sigaction.                                                    *)

StoreHook ==
  /\ ~hookset
  /\ hookset' = TRUE
  /\ UNCHANGED <<rounds, todo, ours, signals, hook, at, frames, caught>>

\* Mutant: handlers are installed before the hook is stored.
InstallsAnyway == TRUE

\* The hook is stored before any handler is installed.
MayInstall == hookset

Sigaction(s) ==
  /\ MayInstall
  /\ s \in todo \ ours
  /\ ours' = ours \cup {s}
  /\ todo' = IF s \in Foreign THEN todo ELSE todo \ {s}
  /\ UNCHANGED <<rounds, hookset, signals, hook, at, frames, caught>>

\* do_sigaction gives back a handler that was there before.
Restore(s) ==
  /\ s \in todo \cap ours
  /\ ours' = ours \ {s} /\ todo' = todo \ {s}
  /\ UNCHANGED <<rounds, hookset, signals, hook, at, frames, caught>>

-----------------------------------------------------------------------------
(* signal_handler.                                                          *)

\* sa_mask is empty: a handler blocks its own signal only.
Unblocked(t, s) == \A i \in DOMAIN frames[t] : frames[t][i].sig # s

Interrupt(t, s) ==
  /\ t \in Receivers /\ s \in ours /\ at[t] # "ended" /\ Unblocked(t, s)
  /\ caught' = caught \cup {s}
  /\ frames' = IF hookset
               THEN [frames EXCEPT ![t] = <<[sig |-> s, pc |-> "or"]>> \o @]
               ELSE frames
  /\ UNCHANGED <<rounds, setup, signals, hook, at>>

In(t, pc) == frames[t] # <<>> /\ Head(frames[t]).pc = pc

Advance(t, pc) == frames' = [frames EXCEPT ![t][1].pc = pc]

\* fetch_or.
HandlerOr(t) ==
  /\ In(t, "or")
  /\ signals' = signals \cup {Head(frames[t]).sig}
  /\ Advance(t, "hook")
  /\ UNCHANGED <<rounds, setup, hook, at, caught>>

\* sml_set_check_hook.
HandlerHook(t) ==
  /\ In(t, "hook")
  /\ hook' = [hook EXCEPT ![t] = TRUE]
  /\ Advance(t, "gc")
  /\ UNCHANGED <<rounds, setup, signals, at, caught>>

\* sml_gc(0): nothing if a collection is under way.
HandlerGC(t) ==
  /\ In(t, "gc")
  /\ IF round = 1 /\ waiting = {} THEN Begin(3) ELSE UNCHANGED rounds
  /\ frames' = [frames EXCEPT ![t] = Tail(@)]
  /\ UNCHANGED <<setup, signals, hook, at, caught>>

-----------------------------------------------------------------------------
(* The threads.                                                             *)

Outside(u) == at[u] \in {"c", "call", "swap", "ended"}

\* Mutant: a thread that answers returns at once.
OnlyHelpers(t) == IF t \in waiting THEN "ml" ELSE "test"

\* Whatever the poll did, it ends with a look at the hook.
AfterPoll(t) == "test"

\* sml_check_internal: sml_check_flag is not 0.  The thread answers, or helps
\* the workers that are outside ML code.
Poll(t) ==
  /\ Base(t, "ml") /\ waiting # {}
  /\ waiting' = IF t \in waiting THEN waiting \ {t}
                ELSE {u \in waiting : ~Outside(u)}
  /\ Goto(t, AfterPoll(t))
  /\ UNCHANGED <<members, round, setup, signals, hook, frames, caught>>

TestHook(t) ==
  /\ Base(t, "test")
  /\ Goto(t, IF hook[t] THEN "clear" ELSE "ml")
  /\ UNCHANGED <<rounds, setup, signals, hook, frames, caught>>

\* The check hook is one-shot: it is cleared before it is called.
Clears(t, label) == label = "clear"

\* ... and the thread leaves ML code, which answers for it.
ClearHook(t) ==
  /\ Base(t, "clear")
  /\ hook' = IF Clears(t, "clear") THEN [hook EXCEPT ![t] = FALSE] ELSE hook
  /\ waiting' = waiting \ {t}
  /\ Goto(t, "call")
  /\ UNCHANGED <<members, round, setup, signals, frames, caught>>

\* sml_signal_check, called by the hook: the word is looked at ...
LookSignals(t) ==
  /\ Base(t, "call")
  /\ Goto(t, IF signals = {} THEN "return" ELSE "swap")
  /\ UNCHANGED <<rounds, setup, signals, hook, frames, caught>>

\* ... and taken.
TakeSignals(t) ==
  /\ Base(t, "swap")
  /\ signals' = {} /\ caught' = caught \ signals
  /\ Goto(t, "return")
  /\ UNCHANGED <<rounds, setup, hook, frames>>

\* The exception is raised; check_hook_cleanup enters ML code.
HookReturn(t) ==
  /\ Base(t, "return")
  /\ hook' = IF Clears(t, "return") THEN [hook EXCEPT ![t] = FALSE] ELSE hook
  /\ Goto(t, "ml")
  /\ UNCHANGED <<rounds, setup, signals, frames, caught>>

\* sml_leave answers a signal that is pending.
Leave(t) ==
  /\ Base(t, "ml")
  /\ waiting' = waiting \ {t}
  /\ Goto(t, "c")
  /\ UNCHANGED <<members, round, setup, signals, hook, frames, caught>>

Enter(t) ==
  /\ Base(t, "c")
  /\ Goto(t, "ml")
  /\ UNCHANGED <<rounds, setup, signals, hook, frames, caught>>

\* The thread ends; cancel_worker leaves its worker to the collector.
End(t) ==
  /\ Base(t, "c")
  /\ Goto(t, "ended")
  /\ UNCHANGED <<rounds, setup, signals, hook, frames, caught>>

\* A thread that allocates may start a collection; the last to answer a round
\* announces the next one.
Round(r) == /\ Begin(r)
            /\ UNCHANGED <<setup, signals, hook, at, frames, caught>>

RetireEnded(t) == /\ at[t] = "ended" /\ Retire(t)
                  /\ UNCHANGED <<setup, signals, hook, at, frames, caught>>

Handler(t) == HandlerOr(t) \/ HandlerHook(t) \/ HandlerGC(t)

Runs(t) == TestHook(t) \/ ClearHook(t) \/ LookSignals(t) \/ TakeSignals(t)
           \/ HookReturn(t)

Next ==
  \/ StoreHook
  \/ \E s \in Sigs : Sigaction(s) \/ Restore(s)
  \/ \E t \in Workers : \/ \E s \in Sigs : Interrupt(t, s)
                        \/ Handler(t) \/ Poll(t) \/ Runs(t)
                        \/ Leave(t) \/ Enter(t) \/ End(t) \/ RetireEnded(t)
  \/ \E r \in {1, 3, 5, 7} : Round(r)

Spec == Init /\ [][Next]_vars

-----------------------------------------------------------------------------
\* Every variable has the type of the word it stands for, and no signal has
\* two handlers on one stack.
TypeOK ==
  /\ todo \subseteq Sigs /\ ours \subseteq Sigs /\ signals \subseteq Sigs
  /\ hook \in [Workers -> BOOLEAN] /\ waiting \subseteq members
  /\ \A t \in Workers : \A i, j \in DOMAIN frames[t] :
        frames[t][i].sig = frames[t][j].sig => i = j

\* A signal whose handler has run is not forgotten: it is in the word, or its
\* handler is about to put it there, and some hook is set, about to be set or
\* about to look at the word.  The window in which the poll clears a hook the
\* handler has just set loses nothing.
SignalHasHook ==
  \A s \in caught \cup signals :
    /\ s \in signals
       \/ \E t \in Workers : \E i \in DOMAIN frames[t] : frames[t][i] = [sig |-> s, pc |-> "or"]
    /\ \E t \in Workers :
         \/ hook[t] \/ at[t] \in {"call", "swap"}
         \/ \E i \in DOMAIN frames[t] : frames[t][i].pc \in {"or", "hook"}

-----------------------------------------------------------------------------
(* Progress: compiled code polls, and a collection that has begun goes from  *)
(* round to round.  Nothing is assumed about the start of another one.       *)

Fairness ==
  /\ \A t \in Workers : /\ WF_vars(Handler(t)) /\ SF_vars(Runs(t))
                        /\ SF_vars(Poll(t)) /\ WF_vars(RetireEnded(t))
  /\ \A r \in {5, 7, 1} : WF_vars(Round(r))

\* t has still to answer a signal of the collection under way.
PollDue(t) == t \in waiting \/ round # 1

\* A hook that is set while its thread has still to poll in the collection
\* under way, be it one that sml_gc(0) found, is called in this collection,
\* unless the thread stays outside ML code.  If the thread has answered ASYNC
\* the hook waits for the next collection, which nobody need start.
HookRuns ==
  \A t \in Workers :
     hook[t] /\ at[t] = "ml" /\ PollDue(t) ~> ~hook[t] \/ at[t] = "c"
=============================================================================
