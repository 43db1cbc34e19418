------------------------------- MODULE Exchange -------------------------------
(***************************************************************************)
(* Requests over websockets: handlers send them on WriteConnections, the   *)
(* ReadConnections at the other ends execute and answer them.  Both ends   *)
(* are registered with their pools; either end, or the network, may end a  *)
(* connection at any time, and the other end learns of it later.           *)
(*                                                                         *)
(* The steps of the sending side are those of WriteConnection, with what   *)
(* they write to and read from the wire.                                   *)
(***************************************************************************)
EXTENDS WriteConnection, ReadConnection

CONSTANT MaxRequests  \* bound on the requests asked

ASSUME ExchangeAssumption ==
  /\ Links = Conns
  /\ MaxRequests \in Nat
  /\ Requests = 1..MaxRequests
  /\ Pingers = {} /\ Closers = {}

VARIABLES
  asks,   \* the request each handler carries, 0 when it has none
  got,    \* whose answer the head a handler read last was
  result  \* per request "new", "asked", "failed", "answered", or "mixed" when
          \* the head or the body it ended with was of another request

exchangeVars == <<asks, got, result>>
vars == <<connVars, execVars, exchangeVars>>

(* AddConnection has started the goroutines of both ends.                  *)
Init ==
  /\ status = [c \in Conns |-> "IDLE"]
  /\ ws = [c \in Conns |-> "open"]
  /\ connLock = [c \in Conns |-> None]
  /\ idle = <<>>
  /\ writeConnections = Conns
  /\ poolLock = None
  /\ pc = [g \in Goroutines |-> IF g \in Conns THEN "release" ELSE "ready"]
  /\ on = [g \in Goroutines |-> IF g \in Conns THEN g ELSE None]
  /\ outcome = [g \in Callers |-> "none"]
  /\ ExecInit
  /\ asks = [h \in Handlers |-> 0]
  /\ got = [h \in Handlers |-> 0]
  /\ result = [n \in Requests |-> "new"]

-----------------------------------------------------------------------------
(* The wire.                                                               *)

Wire(n, part) == [of |-> n, part |-> part]

(* When this end leaves "open" what is on the wire is lost, except for a   *)
(* message that NextReader has begun to return.                            *)
Leave(c) ==
  down' = [down EXCEPT ![c] =
    IF @ # <<>> /\ pc[c] \in {"check", "await", "serve"} THEN <<Head(@)>> ELSE <<>>]

execRest == <<execStatus, execWs, execLock, listed, execPc, alivePc, poolPc, task, executed>>

(* The request of h ends.                                                  *)
Ends(h, how) == result' = [result EXCEPT ![asks[h]] = how]

Judge(h, body) == IF {got[h], body.of} = {asks[h]} THEN "answered" ELSE "mixed"

-----------------------------------------------------------------------------
(* The handlers.                                                           *)

Ask(h) ==
  /\ pc[h] = "ready"
  /\ \E n \in Requests :
       /\ result[n] = "new" /\ \A m \in 1..(n - 1) : result[m] # "new"
       /\ asks' = [asks EXCEPT ![h] = n]
       /\ result' = [result EXCEPT ![n] = "asked"]
  /\ Goto(h, "pop")
  /\ outcome' = [outcome EXCEPT ![h] = "error"]
  /\ UNCHANGED <<status, ws, connLock, idle, writeConnections, poolLock, on, execVars, got>>

(* GetIdleWriteConnection returns nil, by a timeout or because Take fails. *)
NoConnection(h) ==
  /\ (PopTimeout(h) \/ Take(h)) /\ UNCHANGED poolLock
  /\ IF on'[h] = None THEN Ends(h, "failed") ELSE UNCHANGED result
  /\ UNCHANGED <<execVars, asks, got>>

(* The two messages are written, or an error leaves some prefix of them.   *)
SendRequest(h) ==
  LET c == on[h]  n == asks[h] IN
  /\ WriteRequest(h)
  /\ \E sent \in {<<>>, <<Wire(n, "head")>>, <<Wire(n, "head"), Wire(n, "cut")>>,
                  <<Wire(n, "head"), Wire(n, "body")>>} :
       /\ IF ws[c] = "open" /\ execWs[c] = "open"
            THEN pc'[h] = "sendHeader" <=> Len(sent) = 2 /\ sent[2].part = "body"
            ELSE sent = <<>>
       /\ up' = [up EXCEPT ![c] = @ \o sent]
  /\ IF pc'[h] = "close" THEN Ends(h, "failed") ELSE UNCHANGED result
  /\ UNCHANGED <<execRest, down, asks, got>>

(* A panic on the closed nextResponse ends the handler without an answer.  *)
PassChannel(h) ==
  /\ SendHeaderChannel(h) \/ SendBodyChannel(h)
  /\ IF pc'[h] = "ready" THEN Ends(h, "failed") ELSE UNCHANGED result
  /\ UNCHANGED <<execVars, asks, got>>

(* The head is read and decoded: a body in its place is an error, and one  *)
(* with a status that WriteHeader refuses aborts the request.              *)
ReadHead(h) ==
  LET c == on[h] IN
  /\ ReadHeader(h)
  /\ \/ /\ pc'[h] = "sendBody"
        /\ down[c] # <<>> /\ Head(down[c]).part = "head"
        /\ got' = [got EXCEPT ![h] = Head(down[c]).of]
        /\ UNCHANGED result
     \/ /\ pc'[h] = "close"
        /\ ws[c] # "open" \/ Head(down[c]).part # "head"
        /\ Ends(h, "failed")
        /\ UNCHANGED got
     \/ /\ pc'[h] = "aborted"
        /\ down[c] # <<>> /\ Head(down[c]).part = "head"
        /\ Ends(h, "failed")
        /\ UNCHANGED got
  /\ down' = [down EXCEPT ![c] = IF @ = <<>> THEN @ ELSE Tail(@)]
  /\ UNCHANGED <<execRest, up, asks>>

(* The body is passed on; that fails when the websocket breaks, which is   *)
(* the end of a cut body, or when the asker has gone.  Fairness leaves the *)
(* latter open: io.Copy waits for the rest of a body that was cut.         *)
ReadAnswer(h) ==
  LET c == on[h] IN
  /\ ReadBody(h)
  /\ \/ /\ pc'[h] = "release"
        /\ down[c] # <<>> /\ Head(down[c]).part # "cut"
        /\ Ends(h, Judge(h, Head(down[c])))
     \/ /\ pc'[h] = "close"
        /\ Ends(h, "failed")
  /\ down' = [down EXCEPT ![c] = IF @ = <<>> THEN @ ELSE Tail(@)]
  /\ UNCHANGED <<execRest, up, asks, got>>

(* Close, by a handler after an error or by the reader at its end.         *)
CloseWire(g) ==
  /\ Close(g)
  /\ IF ws' = ws THEN UNCHANGED down ELSE Leave(on[g])
  /\ UNCHANGED <<execRest, up, exchangeVars>>

(* The steps of a handler that do not touch the wire.                      *)
HandlerRest(h) ==
  /\ Pop(h) \/ Inspect(h) \/ Release(h) \/ Offer(h) \/ Closed(h) \/ Remove(h)
  /\ UNCHANGED <<execVars, exchangeVars>>

HandlerStep(h) ==
  \/ NoConnection(h) \/ SendRequest(h) \/ PassChannel(h) \/ ReadHead(h) \/ ReadAnswer(h)
  \/ CloseWire(h) \/ HandlerRest(h)

-----------------------------------------------------------------------------
(* The reader of the WriteConnection, and what one end learns of the other. *)

ReceiveMessage(c) ==
  /\ down[c] # <<>>
  /\ Receive(c)
  /\ UNCHANGED <<execVars, exchangeVars>>

ReaderRest(c) ==
  /\ \/ Release(c) \/ Offer(c) \/ Loop(c) \/ ReadError(c) \/ Check(c) \/ AwaitNil(c)
     \/ Remove(c) \/ Closed(c)
  /\ UNCHANGED <<execVars, exchangeVars>>

SenderStep(c) == ReceiveMessage(c) \/ ReaderRest(c) \/ CloseWire(c)

(* The network, or the end of the other side, breaks the websocket here.   *)
BreakWire(c) ==
  /\ Break(c)
  /\ Leave(c)
  /\ UNCHANGED <<execRest, up, exchangeVars>>

HearsOfEnd(c) == execWs[c] # "open" /\ BreakWire(c)

ExecHearsOfEnd(c) ==
  /\ ws[c] # "open"
  /\ ExecBreak(c)
  /\ UNCHANGED <<connVars, exchangeVars>>

Executor(c) == ExecStep(c, ws[c]) /\ UNCHANGED <<connVars, exchangeVars>>
KeepAlive(c) == AliveStep(c) /\ UNCHANGED <<connVars, exchangeVars>>
ExecPool(c) == PoolStep(c) /\ UNCHANGED <<connVars, exchangeVars>>

Next ==
  \/ \E h \in Handlers : Ask(h) \/ HandlerStep(h)
  \/ \E c \in Conns :
       \/ SenderStep(c) \/ BreakWire(c)
       \/ Executor(c) \/ KeepAlive(c) \/ ExecPool(c)
       \/ ExecBreak(c) /\ UNCHANGED <<connVars, exchangeVars>>

Spec == Init /\ [][Next]_vars

-----------------------------------------------------------------------------
(* Fairness.  Every goroutine that can go on does.  The assumptions on the *)
(* world are that an asker sends its request and takes its answer as long  *)
(* as it stays, which it need not leave, and that a backend answers, but   *)
(* for one that was sent a cut body, which may wait until the websocket    *)
(* ends; the code sets no deadline for either.  When one end is gone the   *)
(* other hears of it, and a write of an answer is never so slow for ever   *)
(* that pings fail for ever.                                               *)

(* The handler does not go on because its asker has gone.                  *)
AskerStays(h) ==
  pc[h] = "body" /\ pc'[h] = "close" => ws[on[h]] # "open"

BackendAnswers(c) ==
  execPc[c] = "do" => task[c][2].part # "cut" \/ execWs[c] # "open"

Fairness ==
  /\ \A h \in Handlers : SF_vars(HandlerStep(h) /\ AskerStays(h))
  /\ \A c \in Conns :
       /\ SF_vars(SenderStep(c))
       /\ WF_vars(Executor(c) /\ BackendAnswers(c))
       /\ WF_vars(KeepAlive(c))
       /\ WF_vars(PoolClosed(c) /\ UNCHANGED <<connVars, exchangeVars>>)
       /\ WF_vars(HearsOfEnd(c)) /\ WF_vars(ExecHearsOfEnd(c))

FairSpec == Spec /\ Fairness

-----------------------------------------------------------------------------
(* The state has the types of the declarations.                            *)
TypeOK ==
  /\ ExecTypeOK
  /\ status \in [Conns -> Statuses]
  /\ ws \in [Conns -> {"open", "broken", "closed"}]
  /\ idle \in Seq(Conns) /\ Len(idle) <= PoolMaxSize
  /\ pc \in [Goroutines -> ReaderPc \cup CallerPc]
  /\ asks \in [Handlers -> Requests \cup {0}]
  /\ got \in [Handlers -> Requests \cup {0}]
  /\ result \in [Requests -> {"new", "asked", "failed", "answered", "mixed"}]

(* A connection that waits for its next user is clean: no answer is under  *)
(* way on it, and the other end either waits for a request with nothing    *)
(* left of the last one to read, or is about to hang up.                   *)
CleanWire ==
  \A c \in Conns : status[c] = "IDLE" /\ ws[c] = "open" =>
    /\ down[c] = <<>>
    /\ execWs[c] = "open" =>
         \/ execPc[c] \in {"idle", "read"} /\ up[c] = <<>>
         \/ execPc[c] \in {"remove", "close"}

(* A request that was sent ends, in an answer, an error or the panic of    *)
(* WriteHeader, although its asker stays and its websocket may stay open:  *)
(* the other end always answers or hangs up, also after half an answer.    *)
RequestEnds == \A h \in Handlers : on[h] # None ~> on[h] = None \/ pc[h] = "aborted"

(* When the sending end is gone the executing end goes too: its reader and *)
(* its keep-alive goroutine return and its pool forgets it.                *)
ExecutorEnds ==
  \A c \in Conns :
    ws[c] # "open" ~> execPc[c] = "end" /\ alivePc[c] = "end" /\ ~listed[c]

(* Every behaviour of the two ends is one of the promise: a request is     *)
(* executed once at most, with its own body and never after it succeeded,  *)
(* and the head and the body its handler reads are of the answer to it.    *)
Promise == INSTANCE RequestReply WITH done <- executed

KeepsPromise == Promise!Spec
=============================================================================
