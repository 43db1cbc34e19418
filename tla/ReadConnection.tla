---------------------------- MODULE ReadConnection ----------------------------
(***************************************************************************)
(* A ReadConnection of package common: the end of a websocket that reads   *)
(* HTTP requests, executes them and writes the answers.  It has a reader   *)
(* goroutine (Start) and one that keeps the connection alive; its pool     *)
(* closes it from a third.                                                 *)
(*                                                                         *)
(* A request and an answer are two messages each, a head and a body.  A    *)
(* message names the request it belongs to; a body whose writer gave up    *)
(* half-way is "cut" and never ends for the one who reads it.              *)
(*                                                                         *)
(* Like WriteConnection the module is a library of actions, and Exchange   *)
(* composes the two.                                                       *)
(***************************************************************************)
EXTENDS Naturals, Sequences

CONSTANTS
  Links,     \* the websockets, each with a ReadConnection at this end
  Requests   \* the requests that can be asked

VARIABLES
  execStatus,  \* connection.Status
  execWs,      \* this end of the websocket: "open", "broken" or "closed"
  execLock,    \* who holds connection.lock: "reader", "alive", "pool", "none"
  listed,      \* the connection is in pool.readConnections
  execPc,      \* where the reader is
  alivePc,     \* where the keep-alive goroutine is
  poolPc,      \* where the pool's Clean or Shutdown is; it holds pool.lock
               \* whenever it is not "ready"
  task,        \* the messages of the request in hand, its head and its body
  up,          \* messages on the way to this end
  down,        \* messages on the way from it
  executed     \* the <<head, body>> handed to httpClient.Do, in order

execVars == <<execStatus, execWs, execLock, listed, execPc, alivePc, poolPc, task,
              up, down, executed>>

Message == [of : Requests, part : {"head", "body", "cut"}]

ExecPc == {"idle", "read", "got", "decode", "body", "do", "answer", "copy",
           "refuseHead", "refuseBody", "failHead", "failBody",
           "remove", "close", "closing", "end"}

(* NewReadConnection and Start, for a connection just added to its pool.   *)
ExecInit ==
  /\ execStatus = [c \in Links |-> "IDLE"]
  /\ execWs = [c \in Links |-> "open"]
  /\ execLock = [c \in Links |-> "none"]
  /\ listed = [c \in Links |-> TRUE]
  /\ execPc = [c \in Links |-> "idle"]
  /\ alivePc = [c \in Links |-> "sleep"]
  /\ poolPc = [c \in Links |-> "ready"]
  /\ task = [c \in Links |-> <<>>]
  /\ up = [c \in Links |-> <<>>]
  /\ down = [c \in Links |-> <<>>]
  /\ executed = <<>>

-----------------------------------------------------------------------------
(* Small steps the actions share.  "far" is the other end of the websocket. *)

ExecGoto(c, label) == execPc' = [execPc EXCEPT ![c] = label]

(* What is written is under way only while both ends are up.               *)
Answer(c, far, part) ==
  down' = IF execWs[c] = "open" /\ far = "open"
            THEN [down EXCEPT ![c] = Append(@, [of |-> task[c][1].of, part |-> part])]
            ELSE down

(* This end leaves "open", and reads nothing more.                         *)
ExecLeave(c, how) ==
  /\ execWs' = [execWs EXCEPT ![c] = how]
  /\ up' = [up EXCEPT ![c] = <<>>]

(* CloseWithOutLock: the websocket first, Status last.                     *)
ExecBeginClose(c, who) ==
  /\ ExecLeave(c, "closed")
  /\ execLock' = [execLock EXCEPT ![c] = who]

ExecEndClose(c) ==
  /\ execStatus' = [execStatus EXCEPT ![c] = "CLOSED"]
  /\ execLock' = [execLock EXCEPT ![c] = "none"]

-----------------------------------------------------------------------------
(* The reader: reading a request.                                          *)

(* Status is assigned without connection.lock, here and in MarkBusy: it    *)
(* may overwrite CLOSED.                                                   *)
MarkIdle(c) ==
  /\ execPc[c] = "idle"
  /\ execStatus' = [execStatus EXCEPT ![c] = "IDLE"]
  /\ ExecGoto(c, "read")
  /\ UNCHANGED <<execWs, execLock, listed, alivePc, poolPc, task, up, down, executed>>

(* Mutant of ReadMessage: an error of ReadMessage does not end the loop.   *)
ReadMessageRetry(c) ==
  /\ execPc[c] = "read"
  /\ \/ /\ up[c] # <<>> /\ Head(up[c]).part # "cut"
        /\ task' = [task EXCEPT ![c] = <<Head(up[c])>>]
        /\ up' = [up EXCEPT ![c] = Tail(@)]
        /\ ExecGoto(c, "got")
     \/ execWs[c] # "open" /\ ExecGoto(c, "idle") /\ UNCHANGED <<task, up>>
  /\ UNCHANGED <<execStatus, execWs, execLock, listed, alivePc, poolPc, down, executed>>

(* ReadMessage waits for a whole message; a cut one ends in an error.      *)
ReadMessage(c) ==
  /\ execPc[c] = "read"
  /\ \/ /\ up[c] # <<>> /\ Head(up[c]).part # "cut"
        /\ task' = [task EXCEPT ![c] = <<Head(up[c])>>]
        /\ up' = [up EXCEPT ![c] = Tail(@)]
        /\ ExecGoto(c, "got")
     \/ /\ execWs[c] # "open"
        /\ ExecGoto(c, "remove")
        /\ UNCHANGED <<task, up>>
  /\ UNCHANGED <<execStatus, execWs, execLock, listed, alivePc, poolPc, down, executed>>

MarkBusy(c) ==
  /\ execPc[c] = "got"
  /\ execStatus' = [execStatus EXCEPT ![c] = "BUSY"]
  /\ ExecGoto(c, "decode")
  /\ UNCHANGED <<execWs, execLock, listed, alivePc, poolPc, task, up, down, executed>>

(* Mutant of Decode: a request that cannot be decoded fails like one that  *)
(* cannot be executed, and its body is read as the next request.           *)
DecodeContinue(c) ==
  /\ execPc[c] = "decode"
  /\ ExecGoto(c, "body") \/ ExecGoto(c, "failHead")
  /\ UNCHANGED <<execStatus, execWs, execLock, listed, alivePc, poolPc, task, up, down,
                 executed>>

(* A head may be impossible to decode, and a body is no head.              *)
Decode(c) ==
  /\ execPc[c] = "decode"
  /\ \/ task[c][1].part = "head" /\ ExecGoto(c, "body")
     \/ ExecGoto(c, "refuseHead")
  /\ UNCHANGED <<execStatus, execWs, execLock, listed, alivePc, poolPc, task, up, down,
                 executed>>

(* NextReader returns at the first piece of the body.                      *)
NextBody(c) ==
  /\ execPc[c] = "body"
  /\ \/ /\ up[c] # <<>>
        /\ task' = [task EXCEPT ![c] = Append(@, Head(up[c]))]
        /\ up' = [up EXCEPT ![c] = Tail(@)]
        /\ ExecGoto(c, "do")
     \/ /\ execWs[c] # "open"
        /\ ExecGoto(c, "remove")
        /\ UNCHANGED <<task, up>>
  /\ UNCHANGED <<execStatus, execWs, execLock, listed, alivePc, poolPc, down, executed>>

-----------------------------------------------------------------------------
(* The reader: executing a request and answering it.                       *)

(* Mutant of Do: a failed call is tried once more.                         *)
DoAgain(c) ==
  /\ execPc[c] = "do"
  /\ executed' = Append(executed, <<task[c][1].of, task[c][2].of>>)
  /\ \/ ExecGoto(c, "answer")
     \/ ExecGoto(c, IF executed # <<>> /\ executed[Len(executed)][1] = task[c][1].of
                      THEN "failHead" ELSE "do")
  /\ UNCHANGED <<execStatus, execWs, execLock, listed, alivePc, poolPc, task, up, down>>

(* httpClient.Do succeeds, or it fails or its answer cannot be serialized. *)
Do(c) ==
  /\ execPc[c] = "do"
  /\ executed' = Append(executed, <<task[c][1].of, task[c][2].of>>)
  /\ ExecGoto(c, "answer") \/ ExecGoto(c, "failHead")
  /\ UNCHANGED <<execStatus, execWs, execLock, listed, alivePc, poolPc, task, up, down>>

WriteAnswer(c, far) ==
  /\ execPc[c] = "answer"
  /\ \/ execWs[c] # "closed" /\ Answer(c, far, "head") /\ ExecGoto(c, "copy")
     \/ execWs[c] # "open" /\ UNCHANGED down /\ ExecGoto(c, "remove")
  /\ UNCHANGED <<execStatus, execWs, execLock, listed, alivePc, poolPc, task, up, executed>>

(* Mutant of CopyBody: the loop goes on after an answer the backend cuts   *)
(* short, with the message left unfinished.                                *)
CopyBodyLog(c, far) ==
  /\ execPc[c] = "copy"
  /\ \/ execWs[c] # "closed" /\ Answer(c, far, "body")
     \/ execWs[c] # "open" /\ UNCHANGED down
     \/ Answer(c, far, "cut")
  /\ ExecGoto(c, "idle")
  /\ UNCHANGED <<execStatus, execWs, execLock, listed, alivePc, poolPc, task, up, executed>>

(* The body is copied as it comes from the backend, which may fail before  *)
(* the end; an error of the last write, bodyWriter.Close, is only logged.  *)
CopyBody(c, far) ==
  /\ execPc[c] = "copy"
  /\ \/ execWs[c] # "closed" /\ Answer(c, far, "body") /\ ExecGoto(c, "idle")
     \/ execWs[c] # "open" /\ UNCHANGED down /\ ExecGoto(c, "idle")
     \/ (Answer(c, far, "cut") \/ UNCHANGED down) /\ ExecGoto(c, "remove")
  /\ UNCHANGED <<execStatus, execWs, execLock, listed, alivePc, poolPc, task, up, executed>>

(* error(): the head of a 527 answer ...                                   *)
ErrorHead(c, far) ==
  /\ execPc[c] \in {"refuseHead", "failHead"}
  /\ \/ /\ execWs[c] # "closed"
        /\ Answer(c, far, "head")
        /\ ExecGoto(c, IF execPc[c] = "failHead" THEN "failBody" ELSE "refuseBody")
     \/ execWs[c] # "open" /\ UNCHANGED down /\ ExecGoto(c, "remove")
  /\ UNCHANGED <<execStatus, execWs, execLock, listed, alivePc, poolPc, task, up, executed>>

(* Mutant of ErrorBody: without the continue after a failed execution.     *)
ErrorFallThrough(c, far) ==
  /\ execPc[c] \in {"refuseBody", "failBody"}
  /\ Answer(c, far, "body")
  /\ ExecGoto(c, IF execPc[c] = "failBody" THEN "answer" ELSE "remove")
  /\ UNCHANGED <<execStatus, execWs, execLock, listed, alivePc, poolPc, task, up, executed>>

(* ... and its body.  The loop goes on only after a failed execution.      *)
ErrorBody(c, far) ==
  /\ execPc[c] \in {"refuseBody", "failBody"}
  /\ \/ /\ execWs[c] # "closed"
        /\ Answer(c, far, "body")
        /\ ExecGoto(c, IF execPc[c] = "failBody" THEN "idle" ELSE "remove")
     \/ execWs[c] # "open" /\ UNCHANGED down /\ ExecGoto(c, "remove")
  /\ UNCHANGED <<execStatus, execWs, execLock, listed, alivePc, poolPc, task, up, executed>>

-----------------------------------------------------------------------------
(* The end of the reader: Remove under pool.lock, then Close.              *)

ExecRemove(c) ==
  /\ execPc[c] = "remove" /\ poolPc[c] = "ready"
  /\ listed' = [listed EXCEPT ![c] = FALSE]
  /\ ExecGoto(c, "close")
  /\ UNCHANGED <<execStatus, execWs, execLock, alivePc, poolPc, task, up, down, executed>>

(* Mutant of ExecClose: a websocket that is closed already is left alone,  *)
(* and Status with it.                                                     *)
ExecCloseOnce(c) ==
  /\ execPc[c] = "close" /\ execLock[c] = "none"
  /\ \/ execWs[c] = "closed" /\ ExecGoto(c, "end") /\ UNCHANGED <<execWs, execLock, up>>
     \/ execWs[c] # "closed" /\ ExecBeginClose(c, "reader") /\ ExecGoto(c, "closing")
  /\ UNCHANGED <<execStatus, listed, alivePc, poolPc, task, down, executed>>

ExecClose(c) ==
  /\ execPc[c] = "close" /\ execLock[c] = "none"
  /\ \/ /\ execStatus[c] = "CLOSED"
        /\ ExecGoto(c, "end")
        /\ UNCHANGED <<execWs, execLock, up>>
     \/ /\ execStatus[c] # "CLOSED"
        /\ ExecBeginClose(c, "reader")
        /\ ExecGoto(c, "closing")
  /\ UNCHANGED <<execStatus, listed, alivePc, poolPc, task, down, executed>>

ExecClosed(c) ==
  /\ execPc[c] = "closing"
  /\ ExecEndClose(c)
  /\ ExecGoto(c, "end")
  /\ UNCHANGED <<execWs, listed, alivePc, poolPc, task, up, down, executed>>

-----------------------------------------------------------------------------
(* The keep-alive goroutine pings every 30 seconds; a ping that succeeds   *)
(* changes nothing.                                                        *)

AliveGoto(c, label) == alivePc' = [alivePc EXCEPT ![c] = label]

Writing(c) ==
  execPc[c] \in {"answer", "copy", "refuseHead", "refuseBody", "failHead", "failBody"}

(* WriteControl fails when this end is not open, and also when the reader's *)
(* write of an answer takes more than a second.                            *)
PingFails(c) ==
  /\ alivePc[c] = "sleep"
  /\ execWs[c] # "open" \/ Writing(c)
  /\ AliveGoto(c, "close")
  /\ UNCHANGED <<execStatus, execWs, execLock, listed, execPc, poolPc, task, up, down,
                 executed>>

AliveClose(c) ==
  /\ alivePc[c] = "close" /\ execLock[c] = "none"
  /\ \/ /\ execStatus[c] = "CLOSED"
        /\ AliveGoto(c, "remove")
        /\ UNCHANGED <<execWs, execLock, up>>
     \/ /\ execStatus[c] # "CLOSED"
        /\ ExecBeginClose(c, "alive")
        /\ AliveGoto(c, "closing")
  /\ UNCHANGED <<execStatus, listed, execPc, poolPc, task, down, executed>>

AliveClosed(c) ==
  /\ alivePc[c] = "closing"
  /\ ExecEndClose(c)
  /\ AliveGoto(c, "remove")
  /\ UNCHANGED <<execWs, listed, execPc, poolPc, task, up, down, executed>>

AliveRemove(c) ==
  /\ alivePc[c] = "remove" /\ poolPc[c] = "ready"
  /\ listed' = [listed EXCEPT ![c] = FALSE]
  /\ AliveGoto(c, "end")
  /\ UNCHANGED <<execStatus, execWs, execLock, execPc, poolPc, task, up, down, executed>>

-----------------------------------------------------------------------------
(* The pool's Clean closes a connection that is IDLE, its Shutdown any,    *)
(* both under pool.lock and connection.lock.  idleSince of a ReadConnection *)
(* is never set, so that Clean finds it idle for longer than IdleTimeout.  *)

PoolClose(c) ==
  /\ poolPc[c] = "ready" /\ listed[c]
  /\ execLock[c] = "none" /\ execStatus[c] # "CLOSED"
  /\ ExecBeginClose(c, "pool")
  /\ poolPc' = [poolPc EXCEPT ![c] = "closing"]
  /\ UNCHANGED <<execStatus, listed, execPc, alivePc, task, down, executed>>

PoolClosed(c) ==
  /\ poolPc[c] = "closing"
  /\ ExecEndClose(c)
  /\ listed' = [listed EXCEPT ![c] = FALSE]
  /\ poolPc' = [poolPc EXCEPT ![c] = "ready"]
  /\ UNCHANGED <<execWs, execPc, alivePc, task, up, down, executed>>

(* The network breaks this end, at any time.                               *)
ExecBreak(c) ==
  /\ execWs[c] = "open"
  /\ ExecLeave(c, "broken")
  /\ UNCHANGED <<execStatus, execLock, listed, execPc, alivePc, poolPc, task, down, executed>>

-----------------------------------------------------------------------------
ExecStep(c, far) ==
  \/ MarkIdle(c) \/ ReadMessage(c) \/ MarkBusy(c) \/ Decode(c) \/ NextBody(c) \/ Do(c)
  \/ WriteAnswer(c, far) \/ CopyBody(c, far) \/ ErrorHead(c, far) \/ ErrorBody(c, far)
  \/ ExecRemove(c) \/ ExecClose(c) \/ ExecClosed(c)

AliveStep(c) == PingFails(c) \/ AliveClose(c) \/ AliveClosed(c) \/ AliveRemove(c)

PoolStep(c) == PoolClose(c) \/ PoolClosed(c)

-----------------------------------------------------------------------------
(* The types of the state.  At most one answer, a head and a body, is      *)
(* under way, and one request, before it perhaps the body of a refused one. *)
ExecTypeOK ==
  /\ execStatus \in [Links -> {"IDLE", "BUSY", "CLOSED"}]
  /\ execWs \in [Links -> {"open", "broken", "closed"}]
  /\ execLock \in [Links -> {"none", "reader", "alive", "pool"}]
  /\ listed \in [Links -> BOOLEAN]
  /\ execPc \in [Links -> ExecPc]
  /\ alivePc \in [Links -> {"sleep", "close", "closing", "remove", "end"}]
  /\ poolPc \in [Links -> {"ready", "closing"}]
  /\ task \in [Links -> Seq(Message)]
  /\ up \in [Links -> Seq(Message)] /\ \A c \in Links : Len(up[c]) <= 3
  /\ down \in [Links -> Seq(Message)] /\ \A c \in Links : Len(down[c]) <= 2
  /\ executed \in Seq(Requests \X Requests)

(* Once the reader has returned its websocket is closed, Status is CLOSED  *)
(* and the pool has forgotten the connection, although the reader assigns  *)
(* IDLE and BUSY without the lock and three goroutines close it.           *)
EndedIsClosed ==
  \A c \in Links : execPc[c] = "end" =>
    execStatus[c] = "CLOSED" /\ execWs[c] = "closed" /\ ~listed[c]
=============================================================================
