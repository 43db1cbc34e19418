---------------------------- MODULE IdleWaitProofs ----------------------------
(* The deadline of a wait for an idle connection, for every Timeout and    *)
(* any number of stale entries.                                            *)
EXTENDS IdleWait, TLAPS

(* What the timer's length is made of: nothing was subtracted before the   *)
(* first stale entry, the time of that entry after it, and at least the    *)
(* time of the last entry after any.                                       *)
Length ==
  pc = "wait" =>
    /\ stale = 0 => timeout = Timeout /\ armed = 0
    /\ stale = 1 => timeout = Timeout - armed
    /\ timeout <= Timeout - armed

IInv == TypeOK /\ elapsed <= Timeout /\ Length /\ FullWait

(* It holds when the call begins ...                                       *)
LEMMA InitIInv == Init => IInv
  BY WaitAssumption DEF Init, IInv, TypeOK, Length, FullWait

(* ... and every step keeps it, for any length of the timeout.             *)
LEMMA StepIInv == IInv /\ [Next]_vars => IInv'
<1> SUFFICES ASSUME IInv, [Next]_vars PROVE IInv'
  OBVIOUS
<1> USE WaitAssumption DEF IInv, TypeOK, Length, FullWait
<1>1. CASE Begin
  BY <1>1 DEF Begin
<1>2. CASE Tick
  BY <1>2 DEF Tick, Due
<1>3. CASE Receive
  BY <1>3 DEF Receive
<1>4. CASE ReceiveStale
  BY <1>4 DEF ReceiveStale
<1>5. CASE TimerFires
  <2>1. elapsed >= armed + timeout
    BY <1>5 DEF TimerFires, Due
  <2>2. stale <= 1 => elapsed = Timeout
    BY <1>5, <2>1 DEF TimerFires
  <2>3. QED
    BY <1>5, <2>2 DEF TimerFires
<1>6. CASE UNCHANGED vars
  BY <1>6 DEF vars
<1>7. QED
  BY <1>1, <1>2, <1>3, <1>4, <1>5, <1>6 DEF Next

(* Hence it holds in every reachable state.                                *)
LEMMA Invariance == Spec => []IInv
  BY InitIInv, StepIInv, PTL DEF Spec

(* The variables keep their types.                                         *)
THEOREM WaitTypes == Spec => []TypeOK
<1>1. IInv => TypeOK
  BY DEF IInv
<1>2. QED
  BY <1>1, Invariance, PTL

(* However many stale entries it receives, a call waits for Timeout at     *)
(* most.                                                                   *)
THEOREM DeadlineKept == Spec => []Deadline
<1>1. IInv => Deadline
  BY WaitAssumption DEF IInv, TypeOK, Length, Deadline
<1>2. QED
  BY <1>1, Invariance, PTL

(* A call that fails after one stale entry or none has waited for Timeout. *)
THEOREM WaitIsFull == Spec => []FullWait
<1>1. IInv => FullWait
  BY DEF IInv
<1>2. QED
  BY <1>1, Invariance, PTL
=============================================================================
