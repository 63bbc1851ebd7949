--------------------------- MODULE HandshakeExit ---------------------------
(***************************************************************************)
(* The end of the program beside the handshake: sml_exit (control.c) bars  *)
(* new registrations, tries to lock every other worker, and tears the      *)
(* runtime down with sml_finish if it got them all.  It is called outside  *)
(* ML code, from main or from OS.Process.exit.                             *)
(***************************************************************************)
EXTENDS Handshake

VARIABLES xpc,      \* "no", then "lock", then "finish" or "quit"
          xleft     \* the workers whose lock is still to be taken

xvars == <<vars, xpc, xleft>>

XInit == Init /\ xpc = "no" /\ xleft = {}

\* Clear the low bits of workers_available.
ExitBegin(t) ==
  /\ xpc = "no" /\ pc[t] = "out"
  /\ newphase' = 0
  /\ xpc' = "lock" /\ xleft' = available \ {t}
  /\ Goto(t, "exit")
  /\ UNCHANGED <<stateword, flags, userlist, available, handshake, counters,
                 round, frame, scanning, wait>>

\* Take the lock of w; if somebody has it, exit at once without cleaning up.
ExitLock(w) ==
  /\ xpc = "lock" /\ w \in xleft
  /\ inactive' = inactive \ {w}
  /\ xleft' = xleft \ {w}
  /\ xpc' = IF w \in inactive THEN "lock" ELSE "quit"
  /\ UNCHANGED <<phase, helper, flags, userlist, registry, handshake,
                 counters, round, pc, frame, scanning, wait>>

\* All locks are taken: sml_finish destroys the callback table and the heap.
ExitFinish ==
  /\ xpc = "lock" /\ xleft = {}
  /\ xpc' = "finish"
  /\ UNCHANGED <<vars, xleft>>

XNext == \/ xpc # "quit" /\ Next /\ UNCHANGED <<xpc, xleft>>
         \/ \E t \in Workers : ExitBegin(t) \/ ExitLock(t)
         \/ ExitFinish

XSpec == XInit /\ [][XNext]_xvars

\* While sml_finish runs, no other thread runs ML code or works in the runtime
\* (comment in sml_exit: "only this thread is running, so every global
\* resource of the ML runtime can be accessed safely").
ExitAlone ==
  xpc = "finish" => \A t \in Workers : pc[t] \in {"out", "dead", "exit"}

\* While sml_finish runs, no thread executes ML code (comment in sml_exit: "now
\* all other workers are in a state of not executing ML code").
ExitOutsideML == xpc = "finish" => \A t \in Workers : ~Owns(t)
=============================================================================
