---------------------------- MODULE SignalsProofs ----------------------------
(***************************************************************************)
(* Proof that no signal is forgotten, for any number of threads and        *)
(* signals and any nesting of their handlers.                              *)
(***************************************************************************)
EXTENDS Signals, TLAPS

Labels == {"ml", "test", "clear", "call", "swap", "return", "c", "ended"}
Frame == [sig : Sigs, pc : {"or", "hook", "gc"}]

\* The words and the stacks hold what the code puts there.
Shape ==
  /\ todo \subseteq Sigs /\ ours \subseteq Sigs /\ hookset \in BOOLEAN
  /\ signals \subseteq Sigs /\ caught \subseteq Sigs
  /\ hook \in [Workers -> BOOLEAN] /\ at \in [Workers -> Labels]
  /\ frames \in [Workers -> Seq(Frame)] /\ waiting \subseteq members

\* A handler's own signal is blocked.
Distinct(q) == \A i, j \in DOMAIN q : q[i].sig = q[j].sig => i = j
OneHandler == \A t \in Workers : Distinct(frames[t])

\* A handler finds the hook: it was stored before the handler was installed.
Installed == ours # {} => hookset

\* Some frame of the stack q is about to do one of the steps in P.
About(q, P) == \E i \in DOMAIN q : q[i].pc \in P
AboutToNote(q, s) == \E i \in DOMAIN q : q[i] = [sig |-> s, pc |-> "or"]

\* A signal that was caught and not taken is in the word or about to be.
Noted == \A s \in caught \cup signals :
           s \in signals \/ \E t \in Workers : AboutToNote(frames[t], s)

\* A thread that will look at the word.
WillLook(t) == hook[t] \/ at[t] \in {"call", "swap"} \/ About(frames[t], {"or", "hook"})
Watched == caught \cup signals # {} => \E t \in Workers : WillLook(t)

SInv == Shape /\ OneHandler /\ Installed /\ Noted /\ Watched

LEMMA SInvImplies == SInv => TypeOK /\ SignalHasHook
<1> SUFFICES ASSUME SInv PROVE TypeOK /\ SignalHasHook
  OBVIOUS
<1>1. TypeOK
  BY DEF SInv, Shape, OneHandler, Distinct, TypeOK
<1>2. SignalHasHook
  BY DEF SInv, Noted, Watched, WillLook, About, AboutToNote, SignalHasHook
<1> QED BY <1>1, <1>2

------------------------------------------------------------------------------
(* Handlers on a stack.                                                      *)

\* Interrupt puts a frame on top.
LEMMA Pushed ==
  ASSUME NEW q \in Seq(Frame), NEW f \in Frame
  PROVE  /\ <<f>> \o q \in Seq(Frame)
         /\ 1 \in DOMAIN (<<f>> \o q) /\ (<<f>> \o q)[1] = f
         /\ \A i \in DOMAIN q : i + 1 \in DOMAIN (<<f>> \o q) /\ (<<f>> \o q)[i + 1] = q[i]
         /\ \A k \in DOMAIN (<<f>> \o q) : k # 1 => k - 1 \in DOMAIN q /\ (<<f>> \o q)[k] = q[k - 1]
OBVIOUS

\* A step of the innermost handler changes the top frame only.
StepTop(q, p) == [q EXCEPT ![1].pc = p]

LEMMA Stepped ==
  ASSUME NEW q \in Seq(Frame), q # << >>, NEW p \in {"or", "hook", "gc"}
  PROVE  /\ StepTop(q, p) \in Seq(Frame) /\ Head(q) \in Frame
         /\ About(StepTop(q, p), {p}) /\ (Distinct(q) => Distinct(StepTop(q, p)))
         /\ \A u \in Sigs : AboutToNote(q, u) =>
               AboutToNote(StepTop(q, p), u) \/ Head(q) = [sig |-> u, pc |-> "or"]
<1> DEFINE f == [q[1] EXCEPT !.pc = p]
           r == StepTop(q, p)
<1>1. 1 \in DOMAIN q /\ Head(q) = q[1] /\ q[1] \in Frame
  OBVIOUS
<1>2. f \in Frame /\ f.pc = p /\ f.sig = q[1].sig
  BY <1>1 DEF Frame
<1>3. r = [i \in 1..Len(q) |-> IF i = 1 THEN f ELSE q[i]]
  BY <1>1 DEF StepTop
<1> HIDE DEF f, r
<1>4. r \in Seq(Frame) /\ DOMAIN r = DOMAIN q /\ r[1] = f /\ \A i \in DOMAIN q : i # 1 => r[i] = q[i]
  BY <1>1, <1>2, <1>3
<1>5. About(r, {p})
  BY <1>1, <1>2, <1>4 DEF About
<1>6. \A u \in Sigs : AboutToNote(q, u) => AboutToNote(r, u) \/ Head(q) = [sig |-> u, pc |-> "or"]
  BY <1>1, <1>4 DEF AboutToNote
<1>7. Distinct(q) => Distinct(r)
  BY <1>2, <1>4 DEF Distinct
<1> QED BY <1>1, <1>4, <1>5, <1>6, <1>7 DEF r

\* When it returns, the others are one place up.
LEMMA Popped ==
  ASSUME NEW q \in Seq(Frame), q # << >>
  PROVE  /\ Tail(q) \in Seq(Frame) /\ Head(q) = q[1]
         /\ \A i \in DOMAIN q : i # 1 => i - 1 \in DOMAIN Tail(q) /\ Tail(q)[i - 1] = q[i]
         /\ \A k \in DOMAIN Tail(q) : k \in Int /\ k + 1 \in DOMAIN q /\ Tail(q)[k] = q[k + 1]
OBVIOUS
------------------------------------------------------------------------------
(* The steps of handlers.                                                    *)

LEMMA InterruptInv ==
  ASSUME SInv, NEW t \in Workers, NEW s \in Sigs, Interrupt(t, s)
  PROVE  SInv'
<1> DEFINE f == [sig |-> s, pc |-> "or"]
           r == <<f>> \o frames[t]
<1>1. frames[t] \in Seq(Frame) /\ f \in Frame
  BY DEF SInv, Shape, Frame
<1> HIDE DEF f
<1>0. /\ r \in Seq(Frame) /\ 1 \in DOMAIN r /\ r[1] = f
      /\ \A i \in DOMAIN frames[t] : i + 1 \in DOMAIN r /\ r[i + 1] = frames[t][i]
      /\ \A k \in DOMAIN r : k # 1 => k - 1 \in DOMAIN frames[t] /\ r[k] = frames[t][k - 1]
  BY <1>1, Pushed
<1>3. frames' = [frames EXCEPT ![t] = r] /\ caught' = caught \cup {s}
  BY DEF Interrupt, SInv, Installed, f
<1> HIDE DEF r
<1>2. /\ r \in Seq(Frame) /\ AboutToNote(r, s) /\ About(r, {"or", "hook"})
      /\ \A u \in Sigs : AboutToNote(frames[t], u) => AboutToNote(r, u)
  BY <1>0 DEF AboutToNote, About, f
<1>4. Shape'
  BY <1>2, <1>3 DEF SInv, Shape, Interrupt, rounds, setup
<1>5. Installed'
  BY DEF SInv, Installed, Interrupt, setup
<1>6. Noted'
  BY <1>2, <1>3 DEF SInv, Shape, Noted, Interrupt
<1>7. Watched'
  BY <1>2, <1>3 DEF SInv, Shape, Watched, WillLook
<1>8. Distinct(r)
  <2>1. \A i \in DOMAIN frames[t] : frames[t][i].sig # f.sig
    BY DEF Interrupt, Unblocked, f
  <2>2. DOMAIN r \subseteq Int
    BY <1>0
  <2> QED BY <1>0, <2>1, <2>2 DEF SInv, OneHandler, Distinct
<1>9. OneHandler'
  BY <1>3, <1>8 DEF SInv, Shape, OneHandler
<1> QED BY <1>4, <1>5, <1>6, <1>7, <1>9 DEF SInv

LEMMA HandlerOrInv ==
  ASSUME SInv, NEW t \in Workers, HandlerOr(t)
  PROVE  SInv'
<1> DEFINE r == StepTop(frames[t], "hook")
<1>1. /\ frames[t] \in Seq(Frame) /\ frames[t] # << >>
      /\ frames' = [frames EXCEPT ![t] = r] /\ signals' = signals \cup {Head(frames[t]).sig}
  BY DEF HandlerOr, In, Advance, StepTop, SInv, Shape
<1>2. /\ r \in Seq(Frame) /\ Head(frames[t]) \in Frame /\ About(r, {"hook"})
      /\ Distinct(frames[t]) => Distinct(r)
      /\ \A u \in Sigs : AboutToNote(frames[t], u) => AboutToNote(r, u) \/ u = Head(frames[t]).sig
  BY <1>1, Stepped
<1> HIDE DEF r
<1>3. Shape'
  BY <1>1, <1>2 DEF SInv, Shape, HandlerOr, rounds, setup, Frame
<1>4. Installed'
  BY DEF SInv, Installed, HandlerOr, setup
<1>5. Noted'
  BY <1>1, <1>2 DEF SInv, Shape, Noted, HandlerOr
<1>6. WillLook(t)'
  BY <1>1, <1>2 DEF SInv, Shape, WillLook, About
<1>7. OneHandler'
  BY <1>1, <1>2 DEF SInv, Shape, OneHandler
<1> QED BY <1>3, <1>4, <1>5, <1>6, <1>7 DEF SInv, Watched

LEMMA HandlerHookInv ==
  ASSUME SInv, NEW t \in Workers, HandlerHook(t)
  PROVE  SInv'
<1> DEFINE r == StepTop(frames[t], "gc")
<1>1. /\ frames[t] \in Seq(Frame) /\ frames[t] # << >> /\ Head(frames[t]).pc = "hook"
      /\ frames' = [frames EXCEPT ![t] = r]
  BY DEF HandlerHook, In, Advance, StepTop, SInv, Shape
<1>2. /\ r \in Seq(Frame) /\ (Distinct(frames[t]) => Distinct(r))
      /\ \A u \in Sigs : AboutToNote(frames[t], u) => AboutToNote(r, u)
  BY <1>1, Stepped
<1> HIDE DEF r
<1>3. Shape'
  BY <1>1, <1>2 DEF SInv, Shape, HandlerHook, rounds, setup
<1>4. Installed'
  BY DEF SInv, Installed, HandlerHook, setup
<1>5. Noted'
  BY <1>1, <1>2 DEF SInv, Shape, Noted, HandlerHook
<1>6. WillLook(t)'
  BY DEF WillLook, HandlerHook, SInv, Shape
<1>7. OneHandler'
  BY <1>1, <1>2 DEF SInv, Shape, OneHandler
<1> QED BY <1>3, <1>4, <1>5, <1>6, <1>7 DEF SInv, Watched

LEMMA HandlerGCInv ==
  ASSUME SInv, NEW t \in Workers, HandlerGC(t)
  PROVE  SInv'
<1> DEFINE r == Tail(frames[t])
<1>1. frames[t] \in Seq(Frame) /\ frames[t] # << >> /\ Head(frames[t]).pc = "gc"
  BY DEF HandlerGC, In, SInv, Shape
<1>2. r \in Seq(Frame) /\ Head(frames[t]) = frames[t][1]
      /\ \A i \in DOMAIN frames[t] : i # 1 => i - 1 \in DOMAIN r /\ r[i - 1] = frames[t][i]
  BY <1>1, Popped
<1>3. frames' = [frames EXCEPT ![t] = r]
  BY DEF HandlerGC
<1>10. \A k \in DOMAIN r : k \in Int /\ k + 1 \in DOMAIN frames[t] /\ r[k] = frames[t][k + 1]
  BY <1>1, Popped
<1> HIDE DEF r
<1>4. \A u \in Sigs : AboutToNote(frames[t], u) => AboutToNote(r, u)
  BY <1>1, <1>2 DEF AboutToNote
<1>5. About(frames[t], {"or", "hook"}) => About(r, {"or", "hook"})
  BY <1>1, <1>2 DEF About
<1>6. Shape'
  BY <1>2, <1>3 DEF SInv, Shape, HandlerGC, Begin, rounds, setup
<1>7. Installed'
  BY DEF SInv, Installed, HandlerGC, setup
<1>8. Noted'
  BY <1>3, <1>4 DEF SInv, Shape, Noted, HandlerGC
<1>9. Watched'
  BY <1>3, <1>5 DEF SInv, Shape, Watched, WillLook, HandlerGC
<1>11. OneHandler'
  <2>1. ASSUME NEW i \in DOMAIN r, NEW j \in DOMAIN r, r[i].sig = r[j].sig PROVE i = j
    <3>1. i + 1 = j + 1
      BY <1>10, <2>1 DEF SInv, OneHandler, Distinct
    <3> QED BY <1>10, <3>1
  <2> QED BY <1>3, <2>1 DEF SInv, Shape, OneHandler, Distinct
<1> QED BY <1>6, <1>7, <1>8, <1>9, <1>11 DEF SInv

------------------------------------------------------------------------------
(* The steps of sml_signal_sigaction and of the threads.                     *)

LEMMA SetupInv ==
  ASSUME SInv, StoreHook \/ \E s \in Sigs : Sigaction(s) \/ Restore(s)
  PROVE  SInv'
<1>1. Shape'
  BY DEF SInv, Shape, StoreHook, Sigaction, Restore, rounds
<1>2. OneHandler' /\ Installed'
  BY DEF SInv, OneHandler, Installed, StoreHook, Sigaction, MayInstall, Restore
<1>3. Noted'
  BY DEF SInv, Noted, StoreHook, Sigaction, Restore
<1>4. Watched'
  BY DEF SInv, Watched, WillLook, StoreHook, Sigaction, Restore
<1> QED BY <1>1, <1>2, <1>3, <1>4 DEF SInv

\* A handler that is about to note a signal is about to set a hook.
LEMMA NotedMeansAbout ==
  ASSUME NEW q, NEW s, AboutToNote(q, s)
  PROVE  About(q, {"or", "hook"})
BY DEF AboutToNote, About

\* Steps of a thread that leave the word, the hooks and the stacks alone.
LEMMA PollInv ==
  ASSUME SInv, NEW t \in Workers, Poll(t)
  PROVE  SInv'
<1>1. Shape'
  BY DEF SInv, Shape, Poll, AfterPoll, setup, Goto, Labels
<1>2. OneHandler' /\ Installed'
  BY DEF SInv, OneHandler, Installed, Poll, AfterPoll, setup
<1>3. Noted'
  BY DEF SInv, Noted, Poll, AfterPoll, setup
<1>4. Watched'
  BY DEF SInv, Shape, Watched, WillLook, Poll, AfterPoll, setup, Base, Goto
<1> QED BY <1>1, <1>2, <1>3, <1>4 DEF SInv

LEMMA TestHookInv ==
  ASSUME SInv, NEW t \in Workers, TestHook(t)
  PROVE  SInv'
<1>1. Shape'
  BY DEF SInv, Shape, TestHook, rounds, setup, Goto, Labels
<1>2. OneHandler' /\ Installed'
  BY DEF SInv, OneHandler, Installed, TestHook, setup
<1>3. Noted'
  BY DEF SInv, Noted, TestHook, setup
<1>4. Watched'
  BY DEF SInv, Shape, Watched, WillLook, TestHook, setup, Base, Goto
<1> QED BY <1>1, <1>2, <1>3, <1>4 DEF SInv

LEMMA HookReturnInv ==
  ASSUME SInv, NEW t \in Workers, HookReturn(t)
  PROVE  SInv'
<1>1. Shape'
  BY DEF SInv, Shape, HookReturn, Clears, rounds, setup, Goto, Labels
<1>2. OneHandler' /\ Installed'
  BY DEF SInv, OneHandler, Installed, HookReturn, Clears, setup
<1>3. Noted'
  BY DEF SInv, Noted, HookReturn, Clears, setup
<1>4. Watched'
  BY DEF SInv, Shape, Watched, WillLook, HookReturn, Clears, setup, Base, Goto
<1> QED BY <1>1, <1>2, <1>3, <1>4 DEF SInv

LEMMA LeaveInv ==
  ASSUME SInv, NEW t \in Workers, Leave(t)
  PROVE  SInv'
<1>1. Shape'
  BY DEF SInv, Shape, Leave, setup, Goto, Labels
<1>2. OneHandler' /\ Installed'
  BY DEF SInv, OneHandler, Installed, Leave, setup
<1>3. Noted'
  BY DEF SInv, Noted, Leave, setup
<1>4. Watched'
  BY DEF SInv, Shape, Watched, WillLook, Leave, setup, Base, Goto
<1> QED BY <1>1, <1>2, <1>3, <1>4 DEF SInv

LEMMA EnterInv ==
  ASSUME SInv, NEW t \in Workers, Enter(t)
  PROVE  SInv'
<1>1. Shape'
  BY DEF SInv, Shape, Enter, rounds, setup, Goto, Labels
<1>2. OneHandler' /\ Installed'
  BY DEF SInv, OneHandler, Installed, Enter, setup
<1>3. Noted'
  BY DEF SInv, Noted, Enter, setup
<1>4. Watched'
  BY DEF SInv, Shape, Watched, WillLook, Enter, setup, Base, Goto
<1> QED BY <1>1, <1>2, <1>3, <1>4 DEF SInv

LEMMA EndInv ==
  ASSUME SInv, NEW t \in Workers, End(t)
  PROVE  SInv'
<1>1. Shape'
  BY DEF SInv, Shape, End, rounds, setup, Goto, Labels
<1>2. OneHandler' /\ Installed'
  BY DEF SInv, OneHandler, Installed, End, setup
<1>3. Noted'
  BY DEF SInv, Noted, End, setup
<1>4. Watched'
  BY DEF SInv, Shape, Watched, WillLook, End, setup, Base, Goto
<1> QED BY <1>1, <1>2, <1>3, <1>4 DEF SInv

LEMMA RetireEndedInv ==
  ASSUME SInv, NEW t \in Workers, RetireEnded(t)
  PROVE  SInv'
<1>1. Shape'
  BY DEF SInv, Shape, RetireEnded, Retire, setup, Labels
<1>2. OneHandler' /\ Installed'
  BY DEF SInv, OneHandler, Installed, RetireEnded, setup
<1>3. Noted'
  BY DEF SInv, Noted, RetireEnded, setup
<1>4. Watched'
  BY DEF SInv, Shape, Watched, WillLook, RetireEnded, setup
<1> QED BY <1>1, <1>2, <1>3, <1>4 DEF SInv

\* The hook is cleared before the word is looked at.
LEMMA ClearHookInv ==
  ASSUME SInv, NEW t \in Workers, ClearHook(t)
  PROVE  SInv'
<1>1. Shape'
  BY DEF SInv, Shape, ClearHook, Clears, setup, Goto, Labels
<1>2. OneHandler' /\ Installed'
  BY DEF SInv, OneHandler, Installed, ClearHook, Clears, setup
<1>3. Noted'
  BY DEF SInv, Noted, ClearHook, Clears, setup
<1>4. WillLook(t)'
  BY DEF SInv, Shape, WillLook, ClearHook, Goto
<1> QED BY <1>1, <1>2, <1>3, <1>4 DEF SInv, Watched

\* If the word is empty, the signals that are caught have handlers under way.
LEMMA LookSignalsInv ==
  ASSUME SInv, NEW t \in Workers, LookSignals(t)
  PROVE  SInv'
<1>1. Shape'
  BY DEF SInv, Shape, LookSignals, rounds, setup, Goto, Labels
<1>2. OneHandler' /\ Installed'
  BY DEF SInv, OneHandler, Installed, LookSignals, setup
<1>3. Noted'
  BY DEF SInv, Noted, LookSignals, setup
<1>4. ASSUME signals # {} PROVE WillLook(t)'
  BY <1>4 DEF SInv, Shape, WillLook, LookSignals, Goto
<1>5. ASSUME signals = {}, caught # {} PROVE \E u \in Workers : About(frames[u], {"or", "hook"})
  BY <1>5, NotedMeansAbout DEF SInv, Noted
<1>6. Watched'
  BY <1>4, <1>5 DEF Watched, WillLook, LookSignals
<1> QED BY <1>1, <1>2, <1>3, <1>6 DEF SInv

\* So have those that are not in the word when it is taken.
LEMMA TakeSignalsInv ==
  ASSUME SInv, NEW t \in Workers, TakeSignals(t)
  PROVE  SInv'
<1>1. Shape'
  BY DEF SInv, Shape, TakeSignals, rounds, setup, Goto, Labels
<1>2. OneHandler' /\ Installed'
  BY DEF SInv, OneHandler, Installed, TakeSignals, setup
<1>3. Noted'
  BY DEF SInv, Noted, TakeSignals, setup
<1>4. ASSUME caught \ signals # {} PROVE \E u \in Workers : About(frames[u], {"or", "hook"})
  BY <1>4, NotedMeansAbout DEF SInv, Noted
<1>5. Watched'
  BY <1>4 DEF Watched, WillLook, TakeSignals
<1> QED BY <1>1, <1>2, <1>3, <1>5 DEF SInv

------------------------------------------------------------------------------
LEMMA InitInv == Init => SInv
<1> SUFFICES ASSUME Init PROVE SInv
  OBVIOUS
<1>1. << >> \in Seq(Frame)
  OBVIOUS
<1>2. Shape
  BY <1>1 DEF Init, Shape, Labels
<1> QED BY <1>2 DEF Init, SInv, OneHandler, Distinct, Installed, Noted, Watched

LEMMA NextInv == SInv /\ [Next]_vars => SInv'
<1> SUFFICES ASSUME SInv, [Next]_vars PROVE SInv'
  OBVIOUS
<1>1. CASE UNCHANGED vars
  BY <1>1 DEF vars, SInv, Shape, OneHandler, Installed, Noted, Watched, WillLook
<1>2. CASE StoreHook \/ \E s \in Sigs : Sigaction(s) \/ Restore(s)
  BY <1>2, SetupInv
<1>3. ASSUME NEW t \in Workers, NEW s \in Sigs, Interrupt(t, s) PROVE SInv'
  BY <1>3, InterruptInv
<1>4. ASSUME NEW t \in Workers, Handler(t) PROVE SInv'
  BY <1>4, HandlerOrInv, HandlerHookInv, HandlerGCInv DEF Handler
<1>5. ASSUME NEW t \in Workers, Poll(t) \/ Leave(t) \/ Enter(t) \/ End(t) \/ RetireEnded(t) PROVE SInv'
  BY <1>5, PollInv, LeaveInv, EnterInv, EndInv, RetireEndedInv
<1>6. ASSUME NEW t \in Workers, Runs(t) PROVE SInv'
  BY <1>6, TestHookInv, HookReturnInv, ClearHookInv, LookSignalsInv, TakeSignalsInv DEF Runs
<1>7. ASSUME NEW r \in {1, 3, 5, 7}, Round(r) PROVE SInv'
  BY <1>7 DEF Round, Begin, setup, SInv, Shape, OneHandler, Installed, Noted, Watched, WillLook
<1> QED BY <1>1, <1>2, <1>3, <1>4, <1>5, <1>6, <1>7 DEF Next

\* The invariant behind both: signal_hook is stored before a handler of
\* sml_signal_sigaction can run, and every caught signal is noted and watched.
THEOREM SignalInvariance == Spec => []SInv
<1> QED BY InitInv, NextInv, PTL DEF Spec

\* The words have their types, a worker that is waited for is a member, and a
\* handler never interrupts itself: no signal has two handlers on one stack.
THEOREM SignalTypes == Spec => []TypeOK
<1> QED BY SignalInvariance, SInvImplies, PTL

\* The signal handler, the check hook and sml_signal_check together lose no
\* signal, however handlers nest and wherever they interrupt a poll that clears
\* the hook: what was caught is in the word or about to be, and a thread has its
\* hook set, is about to set it or is about to look at the word.
THEOREM SignalHasHookHolds == Spec => []SignalHasHook
<1> QED BY SignalInvariance, SInvImplies, PTL
==============================================================================
