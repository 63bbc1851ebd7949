----------------------------- MODULE SyncPhases -----------------------------
(***************************************************************************)
(* enum sml_sync_phase of smlsharp.h, as the heap reads it: a worker's     *)
(* phase is even while a signal is pending for it and odd once it has      *)
(* accepted the signal.                                                    *)
(***************************************************************************)
EXTENDS Integers

PREASYNC == 0
ASYNC    == 1
PRESYNC1 == 2
SYNC1    == 3
PRESYNC2 == 4
SYNC2    == 5
PREMARK  == 6
MARK     == 7
Phases   == 0..7

\* The pending form of the signal r.
Pre(r) == r - 1

\* The worker has not yet taken the snapshot of its allocation pointers.
BeforeSnapshot(p) == ASYNC <= p /\ p <= PRESYNC2
=============================================================================
