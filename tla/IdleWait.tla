------------------------------- MODULE IdleWait -------------------------------
(***************************************************************************)
(* The time a request waits for an idle connection (GetValueWithTimeout):  *)
(* it receives from pool.idle until it gets a connection that is still     *)
(* IDLE or a timer ends the wait.  An entry whose connection was closed    *)
(* starts a new timer, whose length is the last one less the time since    *)
(* the start of the call.                                                  *)
(*                                                                         *)
(* Time is counted from the start of the call, in units of any length; a   *)
(* timer that is due fires before time goes on.                            *)
(***************************************************************************)
EXTENDS Integers

CONSTANTS
  Timeout,  \* Config.GetTimeout()
  MaxStale  \* bound on the stale entries one call receives

ASSUME WaitAssumption == Timeout \in Nat /\ MaxStale \in Nat

VARIABLES
  pc,       \* "ready", "wait", "got" a connection, or "failed" after a timeout
  elapsed,  \* time.Since(startTime)
  armed,    \* the value of elapsed when the timer in use was started
  timeout,  \* its length; a timer of no length, or less, is due at once
  stale     \* the stale entries received

vars == <<pc, elapsed, armed, timeout, stale>>

Init == pc = "ready" /\ elapsed = 0 /\ armed = 0 /\ timeout = 0 /\ stale = 0

Due == elapsed >= armed + timeout

(* Mutant of Begin: the timer counts from the call before.                 *)
BeginArmed ==
  /\ pc # "wait" /\ pc' = "wait"
  /\ elapsed' = 0 /\ timeout' = Timeout /\ stale' = 0
  /\ UNCHANGED armed

Begin ==
  /\ pc # "wait" /\ pc' = "wait"
  /\ elapsed' = 0 /\ armed' = 0 /\ timeout' = Timeout /\ stale' = 0

Tick ==
  /\ pc = "wait" /\ ~Due
  /\ elapsed' = elapsed + 1
  /\ UNCHANGED <<pc, armed, timeout, stale>>

(* An entry may be received even when the timer is due: select chooses.    *)
Receive ==
  /\ pc = "wait" /\ pc' = "got"
  /\ UNCHANGED <<elapsed, armed, timeout, stale>>

(* Mutants of ReceiveStale: the same timeout again, and none at all.       *)
ReceiveStaleAgain ==
  /\ pc = "wait" /\ stale < MaxStale
  /\ armed' = elapsed /\ stale' = stale + 1
  /\ UNCHANGED <<pc, elapsed, timeout>>

ReceiveStaleFail ==
  /\ pc = "wait" /\ stale < MaxStale
  /\ pc' = "failed" /\ stale' = stale + 1
  /\ UNCHANGED <<elapsed, armed, timeout>>

ReceiveStale ==
  /\ pc = "wait" /\ stale < MaxStale
  /\ timeout' = timeout - elapsed
  /\ armed' = elapsed
  /\ stale' = stale + 1
  /\ UNCHANGED <<pc, elapsed>>

TimerFires ==
  /\ pc = "wait" /\ Due /\ pc' = "failed"
  /\ UNCHANGED <<elapsed, armed, timeout, stale>>

Next == Begin \/ Tick \/ Receive \/ ReceiveStale \/ TimerFires

Spec == Init /\ [][Next]_vars

-----------------------------------------------------------------------------
(* Types; a timer was started in the past of the call.                     *)
TypeOK ==
  /\ pc \in {"ready", "wait", "got", "failed"}
  /\ elapsed \in Nat /\ armed \in 0..elapsed
  /\ timeout \in Int /\ stale \in 0..MaxStale

(* Stale entries never make a request wait longer than Timeout: neither    *)
(* has it waited longer nor will its timer let it.                         *)
Deadline ==
  /\ elapsed <= Timeout
  /\ pc = "wait" => armed + timeout <= Timeout

(* A request that fails for lack of a connection has waited the whole      *)
(* Timeout, unless it received two stale entries or more: from the second  *)
(* on, time that has passed is subtracted again.                           *)
FullWait == pc = "failed" /\ stale <= 1 => elapsed = Timeout
=============================================================================
