----------------------------- MODULE RequestReply -----------------------------
(***************************************************************************)
(* What a proxied request is promised, whatever websockets, goroutines and *)
(* messages carry it: it is executed at most once, and it ends once, either *)
(* with the reply that the other side made for this very request or as     *)
(* failed.  A request that failed may have been executed all the same.     *)
(***************************************************************************)
EXTENDS Sequences

CONSTANT Requests

VARIABLES
  result,  \* per request "new", "asked", "failed" or "answered"
  done     \* the <<head, body>> executed, in order

replyVars == <<result, done>>

Init ==
  /\ result = [n \in Requests |-> "new"]
  /\ done = <<>>

Ask(n) ==
  /\ result[n] = "new"
  /\ result' = [result EXCEPT ![n] = "asked"]
  /\ UNCHANGED done

(* With the body it was asked with, once, and not after its success.       *)
Execute(n) ==
  /\ result[n] \in {"asked", "failed"}
  /\ \A i \in DOMAIN done : done[i][1] # n
  /\ done' = Append(done, <<n, n>>)
  /\ UNCHANGED result

(* The answer may also say that the request could not be executed.         *)
Succeed(n) ==
  /\ result[n] = "asked"
  /\ result' = [result EXCEPT ![n] = "answered"]
  /\ UNCHANGED done

Fail(n) ==
  /\ result[n] = "asked"
  /\ result' = [result EXCEPT ![n] = "failed"]
  /\ UNCHANGED done

Next == \E n \in Requests : Ask(n) \/ Execute(n) \/ Succeed(n) \/ Fail(n)

Spec == Init /\ [][Next]_replyVars
=============================================================================
