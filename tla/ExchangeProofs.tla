---------------------------- MODULE ExchangeProofs ----------------------------
(***************************************************************************)
(* Proofs about Exchange, for every set of connections and handlers, every *)
(* capacity of pool.idle and any number of requests: the executing end of  *)
(* a websocket comes to its end closed; a connection that waits for its    *)
(* next user is clean; and the exchange keeps the promise of RequestReply. *)
(* What the goroutines of the sending end do to its own state is proved in *)
(* ConnectionProofs; here is what they do to the wire.                     *)
(***************************************************************************)
EXTENDS Exchange, ConnectionProofs

USE ConnAssumption, ExchangeAssumption DEF ConnAssumption, ExchangeAssumption

-----------------------------------------------------------------------------
(* How the executing end ends.                                             *)

ExecTypes ==
  /\ execStatus \in [Links -> {"IDLE", "BUSY", "CLOSED"}]
  /\ execWs \in [Links -> {"open", "broken", "closed"}]
  /\ execLock \in [Links -> {"none", "reader", "alive", "pool"}]
  /\ listed \in [Links -> BOOLEAN]
  /\ execPc \in [Links -> ExecPc]
  /\ alivePc \in [Links -> {"sleep", "close", "closing", "remove", "end"}]
  /\ poolPc \in [Links -> {"ready", "closing"}]

(* Whoever is about to set CLOSED has closed the websocket, also when      *)
(* several close it at once, because Status was assigned in between.       *)
ClosesFirst(c) ==
  execStatus[c] = "CLOSED" \/ execPc[c] = "closing" \/ alivePc[c] = "closing"
  \/ poolPc[c] = "closing" => execWs[c] = "closed"

(* The reader leaves its pool, then it closes.                             *)
LeavesFirst(c) == execPc[c] \in {"close", "closing", "end"} => ~listed[c]

ExecInv ==
  /\ ExecTypes
  /\ \A c \in Links :
       /\ ClosesFirst(c) /\ LeavesFirst(c)
       /\ execPc[c] = "end" => execStatus[c] = "CLOSED"

(* The steps of the reader that only move it on, or assign Status.         *)
LEMMA ReadingStep ==
  ASSUME ExecInv, NEW c \in Links, NEW far,
         \/ MarkIdle(c) \/ ReadMessage(c) \/ MarkBusy(c) \/ Decode(c) \/ NextBody(c) \/ Do(c)
         \/ WriteAnswer(c, far) \/ CopyBody(c, far) \/ ErrorHead(c, far) \/ ErrorBody(c, far)
  PROVE  ExecInv'
<1> USE DEF ExecInv, ExecTypes, ClosesFirst, LeavesFirst, ExecPc, ExecGoto
<1>1. CASE MarkIdle(c)
  BY <1>1 DEF MarkIdle
<1>2. CASE MarkBusy(c)
  BY <1>2 DEF MarkBusy
<1>3. CASE ReadMessage(c) \/ Decode(c) \/ NextBody(c) \/ Do(c)
  BY <1>3 DEF ReadMessage, Decode, NextBody, Do
<1>4. CASE WriteAnswer(c, far) \/ CopyBody(c, far)
  BY <1>4 DEF WriteAnswer, CopyBody
<1>5. CASE ErrorHead(c, far) \/ ErrorBody(c, far)
  BY <1>5 DEF ErrorHead, ErrorBody
<1> QED BY <1>1, <1>2, <1>3, <1>4, <1>5

(* The steps that close or forget a connection, by any of the three, and   *)
(* the network that breaks it.                                             *)
LEMMA EndingStep ==
  ASSUME ExecInv, NEW c \in Links,
         \/ ExecRemove(c) \/ ExecClose(c) \/ ExecClosed(c)
         \/ AliveStep(c) \/ PoolStep(c) \/ ExecBreak(c)
  PROVE  ExecInv'
<1> USE DEF ExecInv, ExecTypes, ClosesFirst, LeavesFirst, ExecPc, ExecGoto, AliveGoto,
            ExecBeginClose, ExecEndClose, ExecLeave
<1>1. CASE ExecRemove(c)
  BY <1>1 DEF ExecRemove
<1>2. CASE ExecClose(c)
  BY <1>2 DEF ExecClose
<1>3. CASE ExecClosed(c)
  BY <1>3 DEF ExecClosed
<1>4. CASE PingFails(c)
  BY <1>4 DEF PingFails
<1>5. CASE AliveRemove(c)
  BY <1>5 DEF AliveRemove
<1>6. CASE AliveClose(c)
  BY <1>6 DEF AliveClose
<1>7. CASE AliveClosed(c)
  BY <1>7 DEF AliveClosed
<1>8. CASE PoolClose(c)
  BY <1>8 DEF PoolClose
<1>9. CASE PoolClosed(c)
  BY <1>9 DEF PoolClosed
<1>10. CASE ExecBreak(c)
  BY <1>10 DEF ExecBreak
<1> QED BY <1>1, <1>2, <1>3, <1>4, <1>5, <1>6, <1>7, <1>8, <1>9, <1>10
        DEF AliveStep, PoolStep

(* The sending end writes to the wire and reads from it, nothing else.     *)
LEMMA SendingStep ==
  ASSUME NEW h \in Handlers, HandlerStep(h) \/ Ask(h)
  PROVE  UNCHANGED <<execStatus, execWs, execLock, listed, execPc, alivePc, poolPc>>
BY DEF HandlerStep, Ask, NoConnection, SendRequest, PassChannel, ReadHead, ReadAnswer,
       CloseWire, HandlerRest, execRest, execVars

(* The same of its reader and of the network there.                        *)
LEMMA ListeningStep ==
  ASSUME NEW c \in Conns, SenderStep(c) \/ BreakWire(c)
  PROVE  UNCHANGED <<execStatus, execWs, execLock, listed, execPc, alivePc, poolPc>>
BY DEF SenderStep, ReceiveMessage, ReaderRest, CloseWire, BreakWire, execRest, execVars

(* Only steps of the executing end can disturb the invariant.              *)
LEMMA ExecIsInvariant == Spec => []ExecInv
<1> USE DEF ExecInv, ExecTypes, ClosesFirst, LeavesFirst
<1>1. Init => ExecInv
  BY DEF Init, ExecInit, ExecPc
<1>2. ExecInv /\ [Next]_vars => ExecInv'
  <2> SUFFICES ASSUME ExecInv, [Next]_vars PROVE ExecInv'
    OBVIOUS
  <2>1. CASE UNCHANGED <<execStatus, execWs, execLock, listed, execPc, alivePc, poolPc>>
    BY <2>1
  <2>2. ASSUME NEW h \in Handlers, Ask(h) \/ HandlerStep(h) PROVE ExecInv'
    BY <2>1, <2>2, SendingStep
  <2>3. ASSUME NEW c \in Conns, SenderStep(c) \/ BreakWire(c) PROVE ExecInv'
    BY <2>1, <2>3, ListeningStep
  <2>4. ASSUME NEW c \in Conns, Executor(c) PROVE ExecInv'
    BY <2>4, ReadingStep, EndingStep DEF Executor, ExecStep
  <2>5. ASSUME NEW c \in Conns, KeepAlive(c) \/ ExecPool(c) \/ ExecBreak(c) PROVE ExecInv'
    BY <2>5, EndingStep DEF KeepAlive, ExecPool
  <2>6. CASE UNCHANGED vars
    BY <2>1, <2>6 DEF vars, execVars
  <2> QED BY <2>2, <2>3, <2>4, <2>5, <2>6 DEF Next
<1> QED BY <1>1, <1>2, PTL DEF Spec

(* Once the reader has returned its websocket is closed, Status is CLOSED  *)
(* and the pool has forgotten the connection.                              *)
THEOREM EndIsClosed == Spec => []EndedIsClosed
<1>1. ExecInv => EndedIsClosed
  BY DEF ExecInv, ClosesFirst, LeavesFirst, EndedIsClosed
<1> QED BY <1>1, ExecIsInvariant, PTL

-----------------------------------------------------------------------------
(* The wire.                                                               *)

(* Where the executing end is: it waits for a request, has read its head,  *)
(* has it whole, has answered with a head, or is about to leave.           *)
Waiting == {"idle", "read"}
Taken   == {"got", "decode", "body"}
Late    == {"copy", "failBody", "refuseBody"}
Gone    == {"remove", "close"}

(* Where a handler is: its request is not sent yet, or its answer is due.  *)
Unsent    == {"pop", "inspect", "take", "write"}
Expecting == {"sendHeader", "header", "sendBody", "body"}

Open(c) == ws[c] = "open" /\ execWs[c] = "open"

(* The executing end has a request, or is about to read one, which it has  *)
(* not handed to the backend; and whose.                                   *)
HasRequest(c) ==
  \/ execPc[c] \in Waiting /\ Len(up[c]) > 0
  \/ execPc[c] \in Taken \cup {"do"}

Hand(c) == IF execPc[c] \in Waiting THEN up[c][1].of ELSE task[c][1].of

Pending(c, n) == HasRequest(c) /\ Hand(c) = n

(* Nothing of the answer is written yet.                                   *)
Early(c) == HasRequest(c) \/ execPc[c] \in {"answer", "failHead", "refuseHead"}

WireTypes ==
  /\ task \in [Conns -> Seq(Message)]
  /\ up \in [Conns -> Seq(Message)]
  /\ down \in [Conns -> Seq(Message)]
  /\ executed \in Seq(Requests \X Requests)
  /\ asks \in [Handlers -> Requests \cup {0}]
  /\ got \in [Handlers -> Requests \cup {0}]
  /\ result \in [Requests -> {"new", "asked", "failed", "answered"}]

(* A request is a head and one more message, which belongs to it.          *)
Request(s) ==
  /\ Len(s) <= 2
  /\ Len(s) > 0 => s[1].part = "head"
  /\ Len(s) = 2 => s[2].of = s[1].of /\ s[2].part # "head"

(* What the executing end has read and has still to read.                  *)
UpShape(c) ==
  /\ Len(up[c]) <= 3
  /\ execWs[c] # "open" => Len(up[c]) = 0
  /\ execPc[c] \in Waiting => Request(up[c])
  /\ execPc[c] \in Taken =>
       /\ Len(task[c]) = 1 /\ task[c][1].part = "head" /\ Len(up[c]) <= 1
       /\ Len(up[c]) = 1 => up[c][1].of = task[c][1].of /\ up[c][1].part # "head"
  /\ execPc[c] = "do" => Len(task[c]) = 2 /\ task[c][2].of = task[c][1].of
  /\ execPc[c] \in {"do", "answer", "copy", "failHead", "failBody"} => Len(up[c]) = 0
  /\ execPc[c] \in {"answer", "copy", "failHead", "failBody", "refuseHead", "refuseBody"} =>
       Len(task[c]) > 0
  /\ execPc[c] \in {"refuseHead", "refuseBody"} => Len(up[c]) <= 1

(* At most one answer is on its way, and none while a request is.          *)
DownShape(c) ==
  /\ Len(down[c]) <= 2
  /\ Open(c) /\ Early(c) => Len(down[c]) = 0
  /\ Open(c) /\ execPc[c] \in Late => Len(down[c]) <= 1

(* Somebody uses the wire and will not leave it as it is.                  *)
Busy(c) == \E h \in Handlers : on[h] = c /\ pc[h] \in Expecting \cup {"close", "aborted"}

(* The wire nobody uses is clean, unless its end has come.                 *)
Clean(c) ==
  ws[c] # "closed" /\ ~Busy(c) =>
    /\ Len(down[c]) = 0
    /\ Open(c) => \/ execPc[c] \in Waiting /\ Len(up[c]) = 0
                  \/ execPc[c] \in Gone /\ Len(up[c]) <= 1

(* The head of an answer to n and perhaps its body; or only the latter.    *)
AnswerOf(s, n) ==
  /\ Len(s) > 0 => s[1].of = n /\ s[1].part = "head"
  /\ Len(s) > 1 => s[2].of = n /\ s[2].part # "head"

BodyOf(s, n) == Len(s) <= 1 /\ (Len(s) = 1 => s[1].of = n /\ s[1].part # "head")

(* h has read the head of its answer; all the rest has come.               *)
HeadRead(h) == pc[h] \in {"sendBody", "body"}

Whole(h) ==
  LET s == down[on[h]] IN
  IF HeadRead(h) THEN Len(s) = 1 /\ s[1].part = "body" ELSE Len(s) = 2 /\ s[2].part = "body"

(* What h has read and has still to read is the answer to its request, and *)
(* the other end is as far with it.                                        *)
InStep(h) ==
  pc[h] \in Expecting =>
    LET c == on[h]  n == asks[h] IN
    /\ IF HeadRead(h) THEN got[h] = n /\ BodyOf(down[c], n) ELSE AnswerOf(down[c], n)
    /\ HeadRead(h) \/ Len(down[c]) > 0 => ~HasRequest(c)
    /\ Open(c) =>
         /\ Early(c) => ~HeadRead(h) /\ Hand(c) = n
         /\ execPc[c] \in Late => task[c][1].of = n /\ (HeadRead(h) <=> Len(down[c]) = 0)
         /\ execPc[c] \in Waiting /\ Len(up[c]) = 0 => Whole(h)
         /\ execPc[c] \in Gone /\ Whole(h) => Len(up[c]) <= 1

-----------------------------------------------------------------------------
(* The requests.                                                           *)

(* A handler carries a request of its own, which has no answer yet.        *)
Asks(h) ==
  pc[h] \in Unsent \cup Expecting =>
    /\ asks[h] \in Requests /\ result[asks[h]] = "asked"
    /\ \A g \in Handlers : g # h /\ pc[g] \in Unsent \cup Expecting => asks[g] # asks[h]

NotYet(n) == result[n] = "new" \/ \E h \in Handlers : pc[h] \in Unsent /\ asks[h] = n

Done(n) == \E i \in DOMAIN executed : executed[i][1] = n

(* A request waits to be executed at one place at most, after it was sent  *)
(* and before it is executed or answered.                                  *)
Once ==
  /\ \A n \in Requests : NotYet(n) => ~Done(n) /\ \A c \in Conns : ~Pending(c, n)
  /\ \A c \in Conns, n \in Requests : Pending(c, n) =>
       /\ ~Done(n) /\ result[n] \in {"asked", "failed"}
       /\ \A d \in Conns : Pending(d, n) => d = c
  /\ \A h \in Handlers, d \in Conns, n \in Requests :
       pc[h] \in Expecting /\ asks[h] = n /\ Pending(d, n) => d = on[h]

WireInv ==
  /\ WireTypes
  /\ \A c \in Conns : UpShape(c) /\ DownShape(c) /\ Clean(c)
  /\ \A h \in Handlers : InStep(h) /\ Asks(h)
  /\ Once

-----------------------------------------------------------------------------
(* Sequences.                                                              *)

(* The empty sequence is the one of length 0.                              *)
LEMMA EmptySeq ==
  ASSUME NEW S, NEW s \in Seq(S)
  PROVE  (s = <<>> <=> Len(s) = 0) /\ Len(s) \in Nat
OBVIOUS

(* Reading the first message ...                                           *)
LEMMA FirstOf ==
  ASSUME NEW S, NEW s \in Seq(S), s # <<>>
  PROVE  /\ Len(s) > 0 /\ Head(s) = s[1] /\ s[1] \in S /\ Tail(s) \in Seq(S)
         /\ Len(Tail(s)) = Len(s) - 1
         /\ \A i \in 1..(Len(s) - 1) : Tail(s)[i] = s[i + 1]
OBVIOUS

(* ... and writing one, or several.                                        *)
LEMMA LastOf ==
  ASSUME NEW S, NEW s \in Seq(S), NEW m \in S
  PROVE  /\ Append(s, m) \in Seq(S) /\ Len(Append(s, m)) = Len(s) + 1
         /\ Append(s, m)[Len(s) + 1] = m
         /\ \A i \in 1..Len(s) : Append(s, m)[i] = s[i]
OBVIOUS

(* What was there comes first, and then what is written.                   *)
LEMMA BothOf ==
  ASSUME NEW S, NEW s \in Seq(S), NEW t \in Seq(S)
  PROVE  /\ s \o t \in Seq(S) /\ Len(s \o t) = Len(s) + Len(t)
         /\ \A i \in 1..Len(s) : (s \o t)[i] = s[i]
         /\ \A i \in 1..Len(t) : (s \o t)[Len(s) + i] = t[i]
OBVIOUS

(* One message alone.                                                      *)
LEMMA OneOf ==
  ASSUME NEW S, NEW m \in S
  PROVE  <<m>> \in Seq(S) /\ Len(<<m>>) = 1 /\ <<m>>[1] = m
OBVIOUS

(* A message that belongs to the request of another.                       *)
LEMMA AnswerIs ==
  ASSUME NEW m \in Message, NEW part \in {"head", "body", "cut"}
  PROVE  [of |-> m.of, part |-> part] \in Message
BY DEF Message

-----------------------------------------------------------------------------
(* A step of the executing end of c.                                       *)

(* It disturbs no other connection.                                        *)
Elsewhere(c) ==
  \A d \in Conns : d # c =>
    /\ execWs'[d] = execWs[d] /\ execPc'[d] = execPc[d] /\ task'[d] = task[d]
    /\ up'[d] = up[d] /\ down'[d] = down[d]

(* What it has to show about its own.                                      *)
Local(c) ==
  /\ UpShape(c)' /\ DownShape(c)' /\ Clean(c)'
  /\ \A h \in Handlers : on[h] = c => InStep(h)'
  /\ HasRequest(c)' => HasRequest(c) /\ Hand(c)' = Hand(c)

(* It hands the request it has to the backend.                             *)
Executes(c) ==
  /\ HasRequest(c) /\ ~HasRequest(c)'
  /\ executed' = Append(executed, <<Hand(c), Hand(c)>>)

(* A handler that expects an answer has a connection.                      *)
Placed == \A h \in Handlers : pc[h] \in Expecting => on[h] \in Conns

(* The request in hand is one of those that can be asked.                  *)
LEMMA HandIs ==
  ASSUME WireInv, NEW c \in Conns, HasRequest(c)
  PROVE  Hand(c) \in Requests
<1>1. task[c] \in Seq(Message) /\ up[c] \in Seq(Message)
  BY DEF WireInv, WireTypes
<1>2. CASE execPc[c] \in Waiting
  <2>1. up[c] # <<>>
    BY <1>1, <1>2 DEF HasRequest, Waiting, Taken
  <2>2. up[c][1] \in Message
    BY <1>1, <2>1, FirstOf
  <2> QED BY <1>2, <2>2 DEF Hand, Message
<1>3. CASE execPc[c] \notin Waiting
  <2>1. Len(task[c]) > 0
    BY <1>3 DEF WireInv, HasRequest, UpShape
  <2>2. task[c][1] \in Message
    BY <1>1, <2>1, FirstOf, EmptySeq
  <2> QED BY <1>3, <2>2 DEF Hand, Message
<1> QED BY <1>2, <1>3

(* That is enough.                                                         *)
LEMMA ExecSuffices ==
  ASSUME WireInv, Placed, NEW c \in Conns, UNCHANGED <<connVars, exchangeVars>>,
         Elsewhere(c), WireTypes', Local(c), executed' = executed \/ Executes(c)
  PROVE  WireInv'
<1> USE DEF WireInv, connVars, exchangeVars
<1>1. ASSUME NEW d \in Conns PROVE UpShape(d)' /\ DownShape(d)' /\ Clean(d)'
  <2>1. CASE d = c
    BY <2>1 DEF Local
  <2>2. CASE d # c
    <3>1. /\ execWs'[d] = execWs[d] /\ execPc'[d] = execPc[d] /\ task'[d] = task[d]
          /\ up'[d] = up[d] /\ down'[d] = down[d]
      BY <2>2 DEF Elsewhere
    <3>2. UpShape(d)' /\ DownShape(d)'
      BY <3>1 DEF UpShape, Request, DownShape, Open, Early, HasRequest
    <3>3. Clean(d)'
      BY <3>1 DEF Clean, Busy, Open
    <3> QED BY <3>2, <3>3
  <2> QED BY <2>1, <2>2
<1>2. ASSUME NEW h \in Handlers PROVE InStep(h)' /\ Asks(h)'
  <2>1. Asks(h)'
    BY DEF Asks
  <2>2. CASE on[h] = c
    BY <2>1, <2>2 DEF Local
  <2>3. CASE on[h] # c /\ pc[h] \in Expecting
    <3>1. on[h] \in Conns
      BY <2>3 DEF Placed
    <3>2. /\ execWs'[on[h]] = execWs[on[h]] /\ execPc'[on[h]] = execPc[on[h]]
          /\ task'[on[h]] = task[on[h]] /\ up'[on[h]] = up[on[h]] /\ down'[on[h]] = down[on[h]]
      BY <2>3, <3>1 DEF Elsewhere
    <3>3. InStep(h)
      OBVIOUS
    <3>4. InStep(h)'
      BY <2>3, <3>2, <3>3 DEF InStep, HeadRead, Whole, BodyOf, AnswerOf, Open, Early, HasRequest,
         Hand
    <3> QED BY <2>1, <3>4
  <2>4. CASE pc[h] \notin Expecting
    BY <2>1, <2>4 DEF InStep
  <2> QED BY <2>2, <2>3, <2>4
<1>3. \A d \in Conns, n \in Requests : Pending(d, n)' => Pending(d, n)
  <2>1. ASSUME NEW d \in Conns, NEW n \in Requests, Pending(d, n)', d = c PROVE Pending(d, n)
    BY <2>1 DEF Pending, Local
  <2>2. ASSUME NEW d \in Conns, NEW n \in Requests, Pending(d, n)', d # c PROVE Pending(d, n)
    BY <2>2 DEF Pending, Elsewhere, HasRequest, Hand
  <2> QED BY <2>1, <2>2
<1>4. \A n \in Requests : NotYet(n)' <=> NotYet(n)
  BY DEF NotYet
<1>5. CASE executed' = executed
  <2>1. \A n \in Requests : Done(n)' <=> Done(n)
    BY <1>5 DEF Done
  <2>2. Once'
    BY <1>3, <1>4, <2>1 DEF Once
  <2> QED BY <1>1, <1>2, <2>2
<1>6. CASE Executes(c)
  <2>0. Hand(c) \in Requests
    BY <1>6, HandIs DEF Executes
  <2>1. ASSUME NEW n \in Requests, Done(n)', n # Hand(c) PROVE Done(n)
    <3>1. PICK i \in DOMAIN executed' : executed'[i][1] = n
      BY <2>1 DEF Done
    <3>2. executed \in Seq(Requests \X Requests) /\ <<Hand(c), Hand(c)>> \in Requests \X Requests
      BY <2>0 DEF WireTypes
    <3>3. /\ executed' = Append(executed, <<Hand(c), Hand(c)>>)
          /\ executed' \in Seq(Requests \X Requests)
          /\ Len(executed') = Len(executed) + 1 /\ Len(executed) \in Nat
          /\ executed'[Len(executed) + 1] = <<Hand(c), Hand(c)>>
          /\ \A j \in 1..Len(executed) : executed'[j] = executed[j]
      BY <1>6, <3>2, LastOf DEF Executes
    <3>4. i \in 1..Len(executed) /\ i \in DOMAIN executed
      BY <2>1, <3>1, <3>2, <3>3
    <3> QED BY <3>1, <3>3, <3>4 DEF Done
  <2>2. \A n \in Requests : Pending(c, Hand(c)) /\ ~Pending(c, n)'
    BY <1>6 DEF Executes, Pending
  <2>3. ASSUME NEW n \in Requests, NotYet(n) PROVE n # Hand(c)
    BY <2>2, <2>3 DEF Once
  <2>4. ASSUME NEW d \in Conns, NEW n \in Requests, Pending(d, n)' PROVE n # Hand(c)
    BY <1>3, <2>0, <2>2, <2>4 DEF Once
  <2>5. Once'
    <3>1. \A n \in Requests : NotYet(n)' => ~Done(n)' /\ \A d \in Conns : ~Pending(d, n)'
      BY <1>3, <1>4, <2>1, <2>3 DEF Once
    <3>2. \A d \in Conns, n \in Requests : Pending(d, n)' =>
            /\ ~Done(n)' /\ result'[n] \in {"asked", "failed"}
            /\ \A e \in Conns : Pending(e, n)' => e = d
      BY <1>3, <2>1, <2>4 DEF Once
    <3>3. \A h \in Handlers, d \in Conns, n \in Requests :
            pc'[h] \in Expecting /\ asks'[h] = n /\ Pending(d, n)' => d = on'[h]
      BY <1>3 DEF Once
    <3> QED BY <3>1, <3>2, <3>3 DEF Once
  <2> QED BY <1>1, <1>2, <2>5
<1> QED BY <1>5, <1>6

(* The wire is dead: no message will reach anybody any more.               *)
LEMMA DeadWire ==
  ASSUME WireInv, NEW c \in Conns, UNCHANGED <<connVars, exchangeVars>>,
         ~Open(c)', down'[c] = down[c], UpShape(c)',
         HasRequest(c)' => HasRequest(c) /\ Hand(c)' = Hand(c)
  PROVE  Local(c)
<1> USE DEF connVars, exchangeVars
<1>1. DownShape(c)'
  BY DEF WireInv, DownShape
<1>2. Clean(c)'
  BY DEF WireInv, Clean, Busy
<1>3. ASSUME NEW h \in Handlers, on[h] = c PROVE InStep(h)'
  <2>1. InStep(h)
    BY DEF WireInv
  <2> QED BY <1>3, <2>1 DEF InStep, HeadRead, AnswerOf, BodyOf
<1> QED BY <1>1, <1>2, <1>3 DEF Local

(* The request is read and executed, piece by piece.                       *)
LEMMA LiveEarly ==
  ASSUME WireInv, NEW c \in Conns, UNCHANGED <<connVars, exchangeVars>>,
         Open(c)', execWs'[c] = execWs[c], down'[c] = down[c], UpShape(c)',
         Early(c), Early(c)', Hand(c)' = Hand(c), HasRequest(c)' => HasRequest(c)
  PROVE  Local(c)
<1> USE DEF connVars, exchangeVars
<1>0. Open(c)
  BY DEF Open
<1>1. DownShape(c)'
  BY <1>0 DEF WireInv, DownShape
<1>2. Clean(c)'
  <2>1. ~(execPc[c] \in Waiting /\ Len(up[c]) = 0) /\ execPc[c] \notin Gone
    BY DEF WireInv, WireTypes, Early, HasRequest, Waiting, Taken, Gone
  <2>2. Clean(c)
    BY DEF WireInv
  <2> QED BY <1>0, <2>1, <2>2 DEF Clean, Busy, Open
<1>3. ASSUME NEW h \in Handlers, on[h] = c PROVE InStep(h)'
  <2>1. InStep(h)
    BY DEF WireInv
  <2>2. /\ execPc'[c] \notin Late \cup Gone
        /\ ~(execPc'[c] \in Waiting /\ Len(up'[c]) = 0)
    BY DEF WireInv, WireTypes, Early, HasRequest, Waiting, Taken, Gone, Late
  <2> QED BY <1>0, <1>3, <2>1, <2>2 DEF InStep, HeadRead, AnswerOf, BodyOf
<1> QED BY <1>1, <1>2, <1>3 DEF Local

(* The head of an answer is written ...                                    *)
LEMMA LiveHead ==
  ASSUME WireInv, NEW c \in Conns, UNCHANGED <<connVars, exchangeVars>>,
         Open(c), execWs'[c] = execWs[c], task'[c] = task[c], up'[c] = up[c], UpShape(c)',
         execPc[c] \in {"answer", "failHead", "refuseHead"}, execPc'[c] \in Late,
         down'[c] = Append(down[c], [of |-> task[c][1].of, part |-> "head"])
  PROVE  Local(c)
<1> USE DEF connVars, exchangeVars
<1>0. /\ Open(c)' /\ Early(c) /\ ~Early(c)' /\ ~HasRequest(c)' /\ Len(down[c]) = 0
      /\ Hand(c) = task[c][1].of
  BY DEF WireInv, DownShape, Open, Early, HasRequest, Hand, Waiting, Taken, Late
<1>1. Len(down'[c]) = 1 /\ down'[c][1] = [of |-> task[c][1].of, part |-> "head"]
  <2>1. down[c] \in Seq(Message) /\ task[c] \in Seq(Message) /\ task[c] # <<>>
    BY DEF WireInv, WireTypes, UpShape
  <2>2. [of |-> task[c][1].of, part |-> "head"] \in Message
    BY <2>1, FirstOf, AnswerIs
  <2> QED BY <1>0, <2>1, <2>2, LastOf
<1>2. DownShape(c)'
  BY <1>0, <1>1 DEF DownShape
<1>3. Clean(c)'
  <2>1. Clean(c) /\ execPc[c] \notin Waiting \cup Gone
    BY DEF WireInv, Waiting, Gone
  <2> QED BY <1>0, <2>1 DEF Clean, Busy, Open
<1>4. ASSUME NEW h \in Handlers, on[h] = c PROVE InStep(h)'
  <2>1. InStep(h) /\ execPc'[c] \notin Waiting \cup Gone
    BY DEF WireInv, Waiting, Gone, Late
  <2> QED BY <1>0, <1>1, <1>4, <2>1 DEF InStep, HeadRead, AnswerOf
<1> QED BY <1>0, <1>2, <1>3, <1>4 DEF Local

(* ... and its body, the whole of it, or what there is.                    *)
LEMMA LiveBody ==
  ASSUME WireInv, NEW c \in Conns, UNCHANGED <<connVars, exchangeVars>>,
         Open(c), execWs'[c] = execWs[c], task'[c] = task[c], up'[c] = up[c], UpShape(c)',
         execPc[c] \in Late, execPc'[c] \in {"idle", "remove"},
         execPc'[c] = "idle" => Len(up[c]) = 0, Len(up[c]) <= 1,
         NEW part \in {"body", "cut"}, execPc'[c] = "idle" => part = "body",
         down'[c] = Append(down[c], [of |-> task[c][1].of, part |-> part])
  PROVE  Local(c)
<1> USE DEF connVars, exchangeVars
<1>0. Open(c)' /\ ~Early(c)' /\ ~HasRequest(c)' /\ Len(down[c]) <= 1
  BY DEF WireInv, DownShape, Open, Early, HasRequest, Waiting, Taken, Late
<1>1. /\ Len(down'[c]) = Len(down[c]) + 1 /\ Len(down[c]) \in Nat
      /\ down'[c][Len(down[c]) + 1] = [of |-> task[c][1].of, part |-> part]
      /\ \A i \in 1..Len(down[c]) : down'[c][i] = down[c][i]
  <2>1. down[c] \in Seq(Message) /\ task[c] \in Seq(Message) /\ task[c] # <<>>
    BY DEF WireInv, WireTypes, UpShape, Late
  <2>2. [of |-> task[c][1].of, part |-> part] \in Message
    BY <2>1, FirstOf, AnswerIs
  <2> QED BY <1>0, <2>1, <2>2, LastOf
<1>2. DownShape(c)'
  BY <1>0, <1>1 DEF DownShape, Late
<1>3. Clean(c)'
  <2>1. Clean(c) /\ execPc[c] \notin Waiting \cup Gone
    BY DEF WireInv, Waiting, Gone, Late
  <2> QED BY <1>0, <2>1 DEF Clean, Busy, Open
<1>4. ASSUME NEW h \in Handlers, on[h] = c, pc[h] \in Expecting PROVE InStep(h)'
  <2>1. InStep(h)
    BY DEF WireInv
  <2>2. task[c][1].of = asks[h] /\ (HeadRead(h) <=> Len(down[c]) = 0)
    BY <1>0, <1>4, <2>1 DEF InStep
  <2>3. CASE HeadRead(h)
    <3>1. Len(down'[c]) = 1 /\ down'[c][1].of = asks[h] /\ down'[c][1].part = part
      BY <1>1, <2>2, <2>3
    <3>2. execPc'[c] \in Waiting => part = "body"
      BY DEF Waiting
    <3>3. BodyOf(down'[c], asks[h])
      BY <3>1 DEF BodyOf
    <3>4. execPc'[c] \in Waiting => Whole(h)'
      BY <1>4, <2>3, <3>1, <3>2 DEF Whole, HeadRead
    <3> QED BY <1>0, <1>4, <2>1, <2>3, <3>3, <3>4 DEF InStep, HeadRead, Late
  <2>4. CASE ~HeadRead(h)
    <3>1. Len(down[c]) = 1
      <4>1. Len(down[c]) # 0 /\ Len(down[c]) <= 1 /\ Len(down[c]) \in Nat
        BY <1>0, <1>1, <2>2, <2>4
      <4>2. \A k \in Nat : k # 0 /\ k <= 1 => k = 1
        OBVIOUS
      <4> QED BY <4>1, <4>2, Zenon
    <3>2. /\ Len(down'[c]) = 2 /\ down'[c][2].of = asks[h] /\ down'[c][2].part = part
          /\ down'[c][1] = down[c][1]
      BY <1>1, <2>2, <3>1
    <3>3. execPc'[c] \in Waiting => part = "body"
      BY DEF Waiting
    <3>4. AnswerOf(down'[c], asks[h])
      BY <1>4, <2>1, <2>4, <3>1, <3>2 DEF AnswerOf, InStep
    <3>5. execPc'[c] \in Waiting => Whole(h)'
      BY <1>4, <2>4, <3>2, <3>3 DEF Whole, HeadRead
    <3> QED BY <1>0, <1>4, <2>1, <2>4, <3>4, <3>5 DEF InStep, HeadRead, Late
  <2> QED BY <2>3, <2>4
<1>5. ASSUME NEW h \in Handlers, on[h] = c PROVE InStep(h)'
  BY <1>4, <1>5 DEF InStep
<1> QED BY <1>0, <1>2, <1>3, <1>5 DEF Local

(* All that ExecSuffices asks for.                                         *)
Fits(c) == /\ Elsewhere(c) /\ WireTypes' /\ Local(c)
           /\ executed' = executed \/ Executes(c)

(* Where the executing end has a request before and after.                 *)
LEMMA Onward ==
  ASSUME WireInv, NEW c \in Conns, UNCHANGED <<connVars, exchangeVars>>,
         execWs'[c] = execWs[c], down'[c] = down[c], UpShape(c)',
         Early(c), Early(c)', Hand(c)' = Hand(c), HasRequest(c)' => HasRequest(c)
  PROVE  Local(c)
BY LiveEarly, DeadWire

(* The end reads the head of a request ...                                 *)
LEMMA TakesHead ==
  ASSUME WireInv, ExecInv, NEW c \in Conns, UNCHANGED <<connVars, exchangeVars>>,
         ReadMessage(c), execWs[c] = "open"
  PROVE  Fits(c)
<1>0. /\ execPc[c] = "read" /\ execPc' = [execPc EXCEPT ![c] = "got"] /\ up[c] # <<>>
      /\ task' = [task EXCEPT ![c] = <<Head(up[c])>>] /\ up' = [up EXCEPT ![c] = Tail(@)]
      /\ UNCHANGED <<execWs, down, executed>>
  BY DEF ReadMessage, ExecGoto
<1>1. /\ execPc \in [Conns -> ExecPc] /\ task \in [Conns -> Seq(Message)]
      /\ up \in [Conns -> Seq(Message)] /\ up[c] \in Seq(Message)
      /\ WireTypes /\ UpShape(c)
  BY DEF WireInv, WireTypes, ExecInv, ExecTypes
<1>2. /\ Len(up[c]) > 0 /\ Head(up[c]) = up[c][1] /\ Head(up[c]) \in Message
      /\ Tail(up[c]) \in Seq(Message) /\ Len(Tail(up[c])) = Len(up[c]) - 1 /\ Len(up[c]) \in Nat
      /\ \A i \in 1..(Len(up[c]) - 1) : Tail(up[c])[i] = up[c][i + 1]
  BY <1>0, <1>1, FirstOf, EmptySeq
<1>3. <<Head(up[c])>> \in Seq(Message) /\ Len(<<Head(up[c])>>) = 1 /\ <<Head(up[c])>>[1] = up[c][1]
  BY <1>2, OneOf
<1>4. Elsewhere(c) /\ WireTypes'
  <2>1. task' \in [Conns -> Seq(Message)] /\ up' \in [Conns -> Seq(Message)]
    BY <1>0, <1>1, <1>2, <1>3
  <2> QED BY <1>0, <1>1, <2>1 DEF Elsewhere, WireTypes, exchangeVars
<1>5. /\ execPc'[c] = "got" /\ Len(task'[c]) = 1 /\ task'[c][1] = up[c][1]
      /\ Len(up'[c]) = Len(up[c]) - 1 /\ up'[c] = Tail(up[c])
  BY <1>0, <1>1, <1>2, <1>3
<1>6. Request(up[c])
  BY <1>0, <1>1 DEF UpShape, Waiting
<1>7. Len(up[c]) = 2 => up'[c][1] = up[c][2]
  BY <1>2, <1>5
<1>8. UpShape(c)'
  BY <1>0, <1>1, <1>2, <1>5, <1>6, <1>7 DEF UpShape, Request, Waiting, Taken
<1>9. /\ HasRequest(c) /\ Early(c) /\ HasRequest(c)' /\ Early(c)' /\ Hand(c)' = Hand(c)
  BY <1>0, <1>2, <1>5 DEF HasRequest, Early, Hand, Waiting, Taken
<1> QED BY <1>0, <1>4, <1>8, <1>9, Onward DEF Fits

(* ... and its body.                                                       *)
LEMMA TakesBody ==
  ASSUME WireInv, ExecInv, NEW c \in Conns, UNCHANGED <<connVars, exchangeVars>>,
         NextBody(c), execWs[c] = "open"
  PROVE  Fits(c)
<1>0. /\ execPc[c] = "body" /\ execPc' = [execPc EXCEPT ![c] = "do"] /\ up[c] # <<>>
      /\ task' = [task EXCEPT ![c] = Append(@, Head(up[c]))] /\ up' = [up EXCEPT ![c] = Tail(@)]
      /\ UNCHANGED <<execWs, down, executed>>
  BY DEF NextBody, ExecGoto
<1>1. /\ execPc \in [Conns -> ExecPc] /\ task \in [Conns -> Seq(Message)]
      /\ up \in [Conns -> Seq(Message)] /\ up[c] \in Seq(Message) /\ task[c] \in Seq(Message)
      /\ WireTypes /\ UpShape(c)
  BY DEF WireInv, WireTypes, ExecInv, ExecTypes
<1>2. /\ Len(up[c]) > 0 /\ Head(up[c]) = up[c][1] /\ Head(up[c]) \in Message
      /\ Tail(up[c]) \in Seq(Message) /\ Len(Tail(up[c])) = Len(up[c]) - 1 /\ Len(up[c]) \in Nat
  BY <1>0, <1>1, FirstOf, EmptySeq
<1>3. /\ Len(task[c]) = 1 /\ Len(up[c]) = 1 /\ up[c][1].of = task[c][1].of
  BY <1>0, <1>1, <1>2 DEF UpShape, Taken
<1>4. /\ Append(task[c], Head(up[c])) \in Seq(Message) /\ Len(Append(task[c], Head(up[c]))) = 2
      /\ Append(task[c], Head(up[c]))[2] = up[c][1]
      /\ Append(task[c], Head(up[c]))[1] = task[c][1]
  <2>1. /\ Append(task[c], Head(up[c])) \in Seq(Message)
        /\ Len(Append(task[c], Head(up[c]))) = Len(task[c]) + 1
        /\ Append(task[c], Head(up[c]))[Len(task[c]) + 1] = Head(up[c])
        /\ \A i \in 1..Len(task[c]) : Append(task[c], Head(up[c]))[i] = task[c][i]
    BY <1>1, <1>2, LastOf
  <2>2. 1 \in 1..Len(task[c]) /\ Len(task[c]) + 1 = 2
    BY <1>3
  <2> QED BY <1>2, <2>1, <2>2
<1>5. Elsewhere(c) /\ WireTypes'
  <2>1. task' \in [Conns -> Seq(Message)] /\ up' \in [Conns -> Seq(Message)]
    BY <1>0, <1>1, <1>2, <1>4
  <2> QED BY <1>0, <1>1, <2>1 DEF Elsewhere, WireTypes, exchangeVars
<1>6. /\ execPc'[c] = "do" /\ Len(task'[c]) = 2 /\ task'[c][1] = task[c][1]
      /\ task'[c][2] = up[c][1] /\ Len(up'[c]) = 0
  BY <1>0, <1>1, <1>2, <1>3, <1>4
<1>7. UpShape(c)'
  BY <1>0, <1>1, <1>3, <1>6 DEF UpShape, Waiting, Taken
<1>8. /\ HasRequest(c) /\ Early(c) /\ HasRequest(c)' /\ Early(c)' /\ Hand(c)' = Hand(c)
  BY <1>0, <1>6 DEF HasRequest, Early, Hand, Waiting, Taken
<1> QED BY <1>0, <1>5, <1>7, <1>8, Onward DEF Fits

(* It hands a request to the backend, or finds that it cannot.             *)
LEMMA Handles ==
  ASSUME WireInv, ExecInv, NEW c \in Conns, UNCHANGED <<connVars, exchangeVars>>,
         MarkBusy(c) \/ Decode(c) \/ Do(c)
  PROVE  Fits(c)
<1>0. /\ execPc \in [Conns -> ExecPc] /\ WireTypes /\ UpShape(c)
  BY DEF WireInv, WireTypes, ExecInv, ExecTypes
<1>1. /\ \/ execPc[c] = "got" /\ execPc' = [execPc EXCEPT ![c] = "decode"] /\ executed' = executed
         \/ execPc[c] = "decode" /\ execPc' = [execPc EXCEPT ![c] = "body"] /\ executed' = executed
         \/ execPc[c] = "decode" /\ execPc' = [execPc EXCEPT ![c] = "refuseHead"]
            /\ executed' = executed
         \/ execPc[c] = "do" /\ execPc' = [execPc EXCEPT ![c] = "answer"]
            /\ executed' = Append(executed, <<task[c][1].of, task[c][2].of>>)
         \/ execPc[c] = "do" /\ execPc' = [execPc EXCEPT ![c] = "failHead"]
            /\ executed' = Append(executed, <<task[c][1].of, task[c][2].of>>)
      /\ UNCHANGED <<execWs, task, up, down>>
  BY DEF MarkBusy, Decode, Do, ExecGoto
<1>2. \/ execPc[c] = "got" /\ execPc'[c] = "decode" /\ executed' = executed
      \/ execPc[c] = "decode" /\ execPc'[c] \in {"body", "refuseHead"} /\ executed' = executed
      \/ /\ execPc[c] = "do" /\ execPc'[c] \in {"answer", "failHead"}
         /\ executed' = Append(executed, <<task[c][1].of, task[c][2].of>>)
  BY <1>0, <1>1
<1>3. Elsewhere(c)
  BY <1>0, <1>1 DEF Elsewhere
<1>4. UpShape(c)'
  BY <1>0, <1>1, <1>2 DEF UpShape, Waiting, Taken
<1>5. /\ HasRequest(c) /\ Early(c) /\ Early(c)' /\ Hand(c)' = Hand(c) /\ Hand(c) = task[c][1].of
  BY <1>1, <1>2 DEF HasRequest, Early, Hand, Waiting, Taken
<1>6. Local(c)
  BY <1>1, <1>4, <1>5, Onward
<1>7. executed' = executed \/ Executes(c)
  <2>1. execPc[c] = "do" => task[c][2].of = task[c][1].of
    BY <1>0 DEF UpShape
  <2>2. execPc'[c] \in {"answer", "failHead"} => ~HasRequest(c)'
    BY DEF HasRequest, Waiting, Taken
  <2> QED BY <1>2, <1>5, <2>1, <2>2 DEF Executes
<1>8. WireTypes'
  <2>1. executed' \in Seq(Requests \X Requests)
    <3>1. CASE executed' = executed
      BY <1>0, <3>1 DEF WireTypes
    <3>2. CASE executed' = Append(executed, <<task[c][1].of, task[c][2].of>>) /\ execPc[c] = "do"
      <4>1. Len(task[c]) = 2 /\ task[c] \in Seq(Message) /\ executed \in Seq(Requests \X Requests)
        BY <1>0, <3>2 DEF WireTypes, UpShape
      <4>2. task[c][1] \in Message /\ task[c][2] \in Message
        BY <4>1
      <4>3. <<task[c][1].of, task[c][2].of>> \in Requests \X Requests
        BY <4>2 DEF Message
      <4> QED BY <3>2, <4>1, <4>3, LastOf
    <3> QED BY <1>2, <3>1, <3>2
  <2> QED BY <1>0, <1>1, <2>1 DEF WireTypes, exchangeVars
<1> QED BY <1>3, <1>6, <1>7, <1>8 DEF Fits

(* It writes a message of the answer.                                      *)
LEMMA Answers ==
  ASSUME WireInv, ExecInv, NEW c \in Conns, UNCHANGED <<connVars, exchangeVars>>,
         NEW part \in {"head", "body", "cut"}, Answer(c, ws[c], part),
         NEW l \in ExecPc, execPc' = [execPc EXCEPT ![c] = l],
         UNCHANGED <<execWs, task, up, executed>>,
         \/ part = "head" /\ execPc[c] \in {"answer", "failHead", "refuseHead"} /\ l \in Late
            /\ (execPc[c] = "answer" => l = "copy") /\ (execPc[c] = "failHead" => l = "failBody")
            /\ (execPc[c] = "refuseHead" => l = "refuseBody")
         \/ part # "head" /\ execPc[c] \in Late /\ l \in {"idle", "remove"}
            /\ (l = "idle" => part = "body" /\ execPc[c] # "refuseBody")
  PROVE  Fits(c)
<1>0. /\ execPc \in [Conns -> ExecPc] /\ WireTypes /\ UpShape(c)
      /\ down \in [Conns -> Seq(Message)] /\ down[c] \in Seq(Message) /\ task[c] \in Seq(Message)
      /\ execPc'[c] = l
  BY DEF WireInv, WireTypes, ExecInv, ExecTypes
<1>1. Len(task[c]) > 0 /\ [of |-> task[c][1].of, part |-> part] \in Message
  <2>1. Len(task[c]) > 0
    BY <1>0 DEF UpShape, Late
  <2>2. task[c][1] \in Message
    BY <1>0, <2>1, FirstOf, EmptySeq
  <2> QED BY <2>1, <2>2, AnswerIs
<1>2. CASE Open(c)
  <2>1. down' = [down EXCEPT ![c] = Append(@, [of |-> task[c][1].of, part |-> part])]
    BY <1>2 DEF Answer, Open
  <2>2. down'[c] = Append(down[c], [of |-> task[c][1].of, part |-> part])
    BY <1>0, <2>1
  <2>3. down' \in [Conns -> Seq(Message)]
    BY <1>0, <1>1, <2>1, LastOf
  <2>4. Elsewhere(c) /\ WireTypes'
    BY <1>0, <2>1, <2>3 DEF Elsewhere, WireTypes, exchangeVars
  <2>5. UpShape(c)'
    BY <1>0 DEF UpShape, Waiting, Taken, Late, Request
  <2>6. Local(c)
    <3>1. CASE part = "head"
      BY <1>0, <1>2, <2>2, <2>5, <3>1, LiveHead
    <3>2. CASE part # "head"
      <4>1. Len(up[c]) <= 1 /\ (l = "idle" => Len(up[c]) = 0)
        BY <1>0, <3>2 DEF UpShape, Late
      <4>2. part \in {"body", "cut"}
        BY <3>2
      <4> QED BY <1>0, <1>2, <2>2, <2>5, <3>2, <4>1, <4>2, LiveBody
    <3> QED BY <3>1, <3>2
  <2> QED BY <2>4, <2>6 DEF Fits
<1>3. CASE ~Open(c)
  <2>1. down' = down /\ ~Open(c)'
    BY <1>3 DEF Answer, Open, connVars
  <2>2. Elsewhere(c) /\ WireTypes'
    BY <1>0, <2>1 DEF Elsewhere, WireTypes, exchangeVars
  <2>3. UpShape(c)' /\ ~HasRequest(c)'
    BY <1>0 DEF UpShape, HasRequest, Waiting, Taken, Late, Request
  <2>4. Local(c)
    BY <2>1, <2>3, DeadWire
  <2> QED BY <2>2, <2>4 DEF Fits
<1> QED BY <1>2, <1>3

(* It has noticed that the end has come, or does not answer to the end.    *)
LEMMA Leaves ==
  ASSUME WireInv, ExecInv, NEW c \in Conns, UNCHANGED <<connVars, exchangeVars>>,
         NEW l \in ExecPc, execPc' = [execPc EXCEPT ![c] = l],
         UNCHANGED <<task, down, executed>>,
         execWs' = [execWs EXCEPT ![c] = execWs'[c]],
         execWs'[c] # "open", up' = [up EXCEPT ![c] = <<>>],
         l = execPc[c] \/ l \in {"idle", "remove", "close", "closing", "end"}
  PROVE  Fits(c)
<1>0. /\ execPc \in [Conns -> ExecPc] /\ WireTypes /\ UpShape(c)
      /\ execWs \in [Conns -> {"open", "broken", "closed"}]
      /\ up \in [Conns -> Seq(Message)] /\ execPc'[c] = l
      /\ ~Open(c)' /\ Len(up'[c]) = 0
  BY DEF WireInv, WireTypes, ExecInv, ExecTypes, Open
<1>1. Elsewhere(c)
  BY <1>0 DEF Elsewhere
<1>2. WireTypes'
  BY <1>0 DEF WireTypes, exchangeVars
<1>3. UpShape(c)'
  BY <1>0 DEF UpShape, Request, Waiting, Taken
<1>4. HasRequest(c)' => HasRequest(c) /\ Hand(c)' = Hand(c)
  BY <1>0 DEF HasRequest, Hand, Waiting, Taken
<1>5. Local(c)
  BY <1>0, <1>3, <1>4, DeadWire
<1> QED BY <1>1, <1>2, <1>5 DEF Fits

(* Nothing that anybody else can see, while the end is up.                 *)
LEMMA Moves ==
  ASSUME WireInv, ExecInv, NEW c \in Conns, UNCHANGED <<connVars, exchangeVars>>,
         NEW l \in ExecPc, execPc' = [execPc EXCEPT ![c] = l],
         UNCHANGED <<execWs, task, up, down, executed>>,
         <<execPc[c], l>> \in {<<"idle", "read">>, <<"remove", "close">>} \/ l = execPc[c]
  PROVE  Fits(c)
<1> USE DEF connVars, exchangeVars
<1>0. /\ execPc \in [Conns -> ExecPc] /\ WireTypes /\ UpShape(c) /\ DownShape(c) /\ Clean(c)
      /\ execPc'[c] = l
  BY DEF WireInv, WireTypes, ExecInv, ExecTypes
<1>1. Elsewhere(c) /\ WireTypes'
  BY <1>0 DEF Elsewhere, WireTypes
<1>3. /\ HasRequest(c)' <=> HasRequest(c)
      /\ Hand(c)' = Hand(c)
      /\ Early(c)' <=> Early(c)
      /\ Open(c)' <=> Open(c)
      /\ l \in Waiting <=> execPc[c] \in Waiting
      /\ l \in Gone <=> execPc[c] \in Gone
      /\ l \in Late <=> execPc[c] \in Late
  BY <1>0 DEF HasRequest, Hand, Early, Open, Waiting, Taken, Late, Gone
<1>4. UpShape(c)'
  BY <1>0 DEF UpShape, Waiting, Taken
<1>5. DownShape(c)' /\ Clean(c)'
  BY <1>0, <1>3 DEF DownShape, Clean, Busy
<1>6. ASSUME NEW h \in Handlers, on[h] = c PROVE InStep(h)'
  <2>1. InStep(h)
    BY DEF WireInv
  <2> QED BY <1>0, <1>3, <1>6, <2>1 DEF InStep, HeadRead, AnswerOf, BodyOf, Whole
<1> QED BY <1>1, <1>3, <1>4, <1>5, <1>6 DEF Fits, Local

(* The backend fails, and the end gives up the answer half-way.            *)
LEMMA GivesUp ==
  ASSUME WireInv, ExecInv, NEW c \in Conns, UNCHANGED <<connVars, exchangeVars>>,
         execPc[c] = "copy", execPc' = [execPc EXCEPT ![c] = "remove"],
         UNCHANGED <<execWs, task, up, down, executed>>
  PROVE  Fits(c)
<1> USE DEF connVars, exchangeVars
<1>0. /\ execPc \in [Conns -> ExecPc] /\ WireTypes /\ UpShape(c) /\ DownShape(c) /\ Clean(c)
      /\ execPc'[c] = "remove"
  BY DEF WireInv, WireTypes, ExecInv, ExecTypes
<1>1. Elsewhere(c) /\ WireTypes'
  BY <1>0 DEF Elsewhere, WireTypes
<1>2. UpShape(c)' /\ ~HasRequest(c)' /\ ~Early(c)' /\ Len(up[c]) = 0
  BY <1>0 DEF UpShape, HasRequest, Early, Waiting, Taken
<1>3. DownShape(c)' /\ Clean(c)'
  BY <1>0, <1>2 DEF DownShape, Clean, Busy, Open, Waiting, Gone, Late
<1>4. ASSUME NEW h \in Handlers, on[h] = c PROVE InStep(h)'
  <2>1. InStep(h)
    BY DEF WireInv
  <2>2. execPc'[c] \notin Late \cup Waiting
    BY <1>0 DEF Late, Waiting
  <2> QED BY <1>0, <1>2, <1>4, <2>1, <2>2 DEF InStep, HeadRead, AnswerOf, BodyOf
<1> QED BY <1>1, <1>2, <1>3, <1>4 DEF Fits, Local

(* Every step of the executing end is one of these.                        *)
LEMMA ExecFits ==
  ASSUME WireInv, ExecInv, NEW c \in Conns, UNCHANGED <<connVars, exchangeVars>>,
         ExecStep(c, ws[c]) \/ AliveStep(c) \/ PoolStep(c) \/ ExecBreak(c)
  PROVE  Fits(c)
<1>0. /\ execPc \in [Conns -> ExecPc] /\ execPc[c] \in ExecPc
      /\ execWs \in [Conns -> {"open", "broken", "closed"}]
      /\ up \in [Conns -> Seq(Message)]
      /\ execStatus[c] = "CLOSED" \/ execPc[c] = "closing" => execWs[c] # "open"
      /\ execWs[c] # "open" => up[c] = <<>>
      /\ \A w : execWs' = [execWs EXCEPT ![c] = w] => execWs' = [execWs EXCEPT ![c] = execWs'[c]]
                                                     /\ execWs'[c] = w
  BY EmptySeq DEF WireInv, WireTypes, UpShape, ExecInv, ExecTypes, ClosesFirst
<1>1. /\ execPc = [execPc EXCEPT ![c] = execPc[c]]
      /\ execWs = [execWs EXCEPT ![c] = execWs[c]]
      /\ up[c] = <<>> => up = [up EXCEPT ![c] = <<>>]
  BY <1>0
<1>2. /\ {"idle", "read", "remove", "close", "closing", "end", "copy", "failBody", "refuseBody"}
           \subseteq ExecPc
  BY DEF ExecPc
<1>3. ASSUME NEW l \in ExecPc, execPc' = [execPc EXCEPT ![c] = l], execWs[c] # "open",
             UNCHANGED <<execWs, task, up, down, executed>>,
             l \in {"idle", "remove", "close", "closing", "end"}
      PROVE  Fits(c)
  BY <1>0, <1>1, <1>3, Leaves
<1>4. ASSUME UNCHANGED <<execPc, execWs, task, up, down, executed>> PROVE Fits(c)
  BY <1>0, <1>1, <1>4, Moves
<1>5. ASSUME ExecLeave(c, "closed") \/ ExecLeave(c, "broken"),
             UNCHANGED <<execPc, task, down, executed>>
      PROVE  Fits(c)
  BY <1>0, <1>1, <1>5, Leaves DEF ExecLeave
<1>6. CASE MarkIdle(c) \/ ExecRemove(c)
  BY <1>2, <1>6, Moves DEF MarkIdle, ExecRemove, ExecGoto
<1>7. CASE ReadMessage(c)
  <2>1. CASE execWs[c] = "open"
    BY <1>7, <2>1, TakesHead
  <2>2. CASE execWs[c] # "open"
    BY <1>0, <1>2, <1>3, <1>7, <2>2 DEF ReadMessage, ExecGoto
  <2> QED BY <2>1, <2>2
<1>8. CASE NextBody(c)
  <2>1. CASE execWs[c] = "open"
    BY <1>8, <2>1, TakesBody
  <2>2. CASE execWs[c] # "open"
    BY <1>0, <1>2, <1>3, <1>8, <2>2 DEF NextBody, ExecGoto
  <2> QED BY <2>1, <2>2
<1>9. CASE MarkBusy(c) \/ Decode(c) \/ Do(c)
  BY <1>9, Handles
<1>10. CASE WriteAnswer(c, ws[c])
  BY <1>2, <1>3, <1>10, Answers DEF WriteAnswer, ExecGoto, Late
<1>11. CASE CopyBody(c, ws[c])
  BY <1>2, <1>3, <1>11, Answers, GivesUp DEF CopyBody, ExecGoto, Late
<1>12. CASE ErrorHead(c, ws[c])
  BY <1>2, <1>3, <1>12, Answers DEF ErrorHead, ExecGoto, Late
<1>13. CASE ErrorBody(c, ws[c])
  BY <1>2, <1>3, <1>13, Answers DEF ErrorBody, ExecGoto, Late
<1>14. CASE ExecClose(c) \/ ExecClosed(c)
  BY <1>0, <1>2, <1>3, <1>14, Leaves DEF ExecClose, ExecClosed, ExecBeginClose, ExecLeave, ExecGoto
<1>15. CASE AliveStep(c)
  BY <1>4, <1>5, <1>15 DEF AliveStep, PingFails, AliveClose, AliveClosed, AliveRemove, ExecBeginClose
<1>16. CASE PoolStep(c) \/ ExecBreak(c)
  BY <1>4, <1>5, <1>16 DEF PoolStep, PoolClose, PoolClosed, ExecBreak, ExecBeginClose
<1> QED BY <1>6, <1>7, <1>8, <1>9, <1>10, <1>11, <1>12, <1>13, <1>14, <1>15, <1>16 DEF ExecStep

-----------------------------------------------------------------------------
(* A step of the sending end.                                              *)

Wires ==
  /\ \A c \in Conns : UpShape(c) /\ DownShape(c) /\ Clean(c)
  /\ \A h \in Handlers : InStep(h)

Owns == (\A h \in Handlers : Asks(h)) /\ Once

(* The other end does nothing meanwhile.                                   *)
StillExec == UNCHANGED <<execWs, execPc, task, executed>>

(* A handler stays where it is.                                            *)
Same(g) == pc'[g] = pc[g] /\ on'[g] = on[g] /\ asks'[g] = asks[g] /\ got'[g] = got[g]

(* It neither uses the wire nor leaves it in disorder.                     *)
Away(g) == pc[g] \notin Expecting \cup {"close", "aborted"}

(* Nobody touches a wire.                                                  *)
LEMMA QuietWire ==
  ASSUME WireInv, Placed, StillExec, UNCHANGED <<ws, up, down>>,
         \A g \in Handlers : Same(g) \/ (Away(g) /\ Away(g)')
  PROVE  Wires'
<1>1. ASSUME NEW c \in Conns PROVE UpShape(c)' /\ DownShape(c)' /\ Clean(c)'
  <2>1. UpShape(c)' /\ DownShape(c)'
    BY DEF WireInv, StillExec, UpShape, Request, DownShape, Open, Early, HasRequest
  <2>2. Busy(c)' <=> Busy(c)
    BY DEF Busy, Same, Away
  <2> QED BY <2>1, <2>2 DEF WireInv, StillExec, Clean, Open
<1>2. ASSUME NEW h \in Handlers PROVE InStep(h)'
  <2>1. InStep(h)
    BY DEF WireInv
  <2>2. CASE Same(h)
    BY <2>1, <2>2 DEF StillExec, Same, InStep, HeadRead, Whole, AnswerOf, BodyOf, Open, Early,
       HasRequest, Hand
  <2>3. CASE Away(h)'
    BY <2>3 DEF Away, InStep
  <2> QED BY <2>2, <2>3
<1> QED BY <1>1, <1>2 DEF Wires

(* Somebody touches the wire of c.                                         *)
LEMMA WireSuffices ==
  ASSUME WireInv, Placed, StillExec, NEW c \in Conns,
         \A d \in Conns : d # c => ws'[d] = ws[d] /\ up'[d] = up[d] /\ down'[d] = down[d],
         UpShape(c)', DownShape(c)', Clean(c)',
         \A g \in Handlers : \/ Same(g) /\ (on[g] # c \/ Away(g))
                             \/ InStep(g)' /\ (on[g] = c \/ Away(g))
  PROVE  Wires'
<1>1. ASSUME NEW d \in Conns PROVE UpShape(d)' /\ DownShape(d)' /\ Clean(d)'
  <2>1. CASE d # c
    <3>1. ws'[d] = ws[d] /\ up'[d] = up[d] /\ down'[d] = down[d]
      BY <2>1
    <3>2. UpShape(d)' /\ DownShape(d)'
      BY <3>1 DEF WireInv, StillExec, UpShape, Request, DownShape, Open, Early, HasRequest
    <3>3. Busy(d) => Busy(d)'
      BY <2>1 DEF Busy, Same, Away
    <3> QED BY <3>1, <3>2, <3>3 DEF WireInv, StillExec, Clean, Open
  <2> QED BY <2>1
<1>2. ASSUME NEW h \in Handlers PROVE InStep(h)'
  <2>1. InStep(h)
    BY DEF WireInv
  <2>2. CASE Same(h) /\ on[h] # c /\ pc[h] \in Expecting
    <3>1. on[h] \in Conns
      BY <2>2 DEF Placed
    <3>2. ws'[on[h]] = ws[on[h]] /\ up'[on[h]] = up[on[h]] /\ down'[on[h]] = down[on[h]]
      BY <2>2, <3>1
    <3> QED BY <2>1, <2>2, <3>2 DEF StillExec, Same, InStep, HeadRead, Whole, AnswerOf, BodyOf,
            Open, Early, HasRequest, Hand
  <2>3. CASE Same(h) /\ pc[h] \notin Expecting
    BY <2>3 DEF Same, InStep
  <2> QED BY <2>2, <2>3 DEF Away
<1> QED BY <1>1, <1>2 DEF Wires

(* This end of the wire leaves, and of what was under way no more than the *)
(* first message is still read.                                            *)
LEMMA CutWire ==
  ASSUME WireInv, Placed, StillExec, NEW c \in Conns,
         \A d \in Conns : d # c => ws'[d] = ws[d] /\ down'[d] = down[d],
         up' = up, ws'[c] # "open", ws[c] = "closed" => ws'[c] = "closed",
         Len(down'[c]) <= Len(down[c]), Len(down'[c]) \in Nat,
         Len(down'[c]) > 0 => down'[c][1] = down[c][1],
         Len(down'[c]) > 1 => down'[c][2] = down[c][2],
         \A g \in Handlers :
           Same(g) \/ (on[g] = c /\ ws'[c] = "closed" /\ Away(g)')
  PROVE  Wires'
<1>0. /\ UpShape(c) /\ DownShape(c) /\ Clean(c) /\ ~Open(c)'
      /\ down[c] \in Seq(Message) /\ Len(down[c]) \in Nat
  BY DEF WireInv, WireTypes, Open
<1>1. UpShape(c)'
  BY <1>0 DEF StillExec, UpShape, Request
<1>2. DownShape(c)'
  BY <1>0 DEF DownShape
<1>3. Clean(c)'
  <2>1. CASE ws'[c] # "closed"
    <3>1. Busy(c) => Busy(c)'
      BY <2>1 DEF Busy, Same
    <3> QED BY <1>0, <3>1 DEF Clean
  <2> QED BY <2>1 DEF Clean
<1>4. ASSUME NEW g \in Handlers, on[g] = c, Same(g) PROVE InStep(g)'
  <2>1. InStep(g)
    BY DEF WireInv
  <2>2. HasRequest(c)' <=> HasRequest(c)
    BY DEF StillExec, HasRequest
  <2>3. AnswerOf(down[c], asks[g]) => AnswerOf(down'[c], asks[g])
    BY <1>0 DEF AnswerOf
  <2>4. BodyOf(down[c], asks[g]) => BodyOf(down'[c], asks[g])
    BY <1>0 DEF BodyOf
  <2>5. Len(down'[c]) > 0 => Len(down[c]) > 0
    BY <1>0
  <2> QED BY <1>0, <1>4, <2>1, <2>2, <2>3, <2>4, <2>5 DEF Same, InStep, HeadRead
<1>5. ASSUME NEW g \in Handlers, Away(g)' PROVE InStep(g)'
  BY <1>5 DEF Away, InStep
<1>6. \A g \in Handlers : \/ Same(g) /\ (on[g] # c \/ Away(g))
                          \/ InStep(g)' /\ (on[g] = c \/ Away(g))
  BY <1>4, <1>5
<1>7. \A d \in Conns : d # c => ws'[d] = ws[d] /\ up'[d] = up[d] /\ down'[d] = down[d]
  OBVIOUS
<1> QED BY <1>1, <1>2, <1>3, <1>6, <1>7, WireSuffices

(* A step of the handler h moves no other handler.                         *)
LEMMA OnlyCaller ==
  ASSUME ConnInv, NEW h \in Handlers, Calling(h)
  PROVE  /\ \A g \in Handlers : g # h => pc'[g] = pc[g] /\ on'[g] = on[g]
         /\ h \in Goroutines /\ h \notin Conns /\ pc \in [Goroutines -> Points]
         /\ on \in [Goroutines -> Conns \cup {None}]
         /\ pc[h] \notin {"ready", "lock", "pop"} => on[h] \in Conns
<1>1. ConnTypes /\ h \in Callers
  BY DEF ConnInv, LeaseInv, Callers
<1>2. /\ h \in Goroutines /\ h \notin Conns /\ pc \in [Goroutines -> Points]
      /\ on \in [Goroutines -> Conns \cup {None}]
      /\ pc[h] \notin {"ready", "lock", "pop"} => on[h] \in Conns
      /\ \A g \in Handlers : g \in Goroutines /\ g \notin Conns
  BY <1>1, CallerHas DEF ConnTypes, LocalTypes, Callers, Goroutines
<1>3. \A g \in Handlers : g # h => pc'[g] = pc[g] /\ on'[g] = on[g]
  BY <1>1, <1>2, CallerMoves
<1> QED BY <1>2, <1>3

(* A step of the reader of c moves no handler.                             *)
LEMMA OnlyReader ==
  ASSUME ConnInv, NEW c \in Conns, Reading(c)
  PROVE  \A g \in Handlers : pc'[g] = pc[g] /\ on'[g] = on[g]
<1>1. ConnTypes /\ \A g \in Handlers : g \in Goroutines /\ g # c
  BY DEF ConnInv, LeaseInv, Goroutines, Callers
<1> QED BY <1>1, ReaderMoves DEF ConnTypes, LocalTypes

(* No other handler is on the connection that h leases.                    *)
LEMMA OneUser ==
  ASSUME ConnInv, NEW h \in Handlers, Leases(h)
  PROVE  \A g \in Handlers : g # h /\ on[g] = on[h] => Away(g)
<1>1. ExclusiveLease
  BY ConnSafety
<1>2. \A g \in Handlers : g \in Callers /\ (~Away(g) => Leases(g))
  BY DEF Callers, Away, Expecting, Leases
<1> QED BY <1>1, <1>2 DEF ExclusiveLease

(* A handler that expects an answer is a goroutine with a connection.      *)
LEMMA HandlersPlaced == ASSUME ConnInv PROVE Placed
BY CallerHas DEF ConnInv, LeaseInv, Placed, Expecting, Callers

(* A request is written.                                                   *)
LEMMA SendWire ==
  ASSUME WireInv, ConnInv, NEW h \in Handlers, SendRequest(h)
  PROVE  /\ WireTypes' /\ Wires'
         /\ \A d \in Conns, n \in Requests :
              Pending(d, n)' => Pending(d, n) \/ (d = on[h] /\ n = asks[h])
<1>0. /\ pc[h] = "write" /\ UNCHANGED <<ws, on>> /\ Calling(h)
      /\ \/ pc' = [pc EXCEPT ![h] = "sendHeader"] /\ ws[on[h]] # "closed"
         \/ pc' = [pc EXCEPT ![h] = "close"]
  BY DEF SendRequest, WriteRequest, Fail, Goto, Calling, CallerStep
<1>1. /\ StillExec /\ UNCHANGED <<down, asks, got>>
  BY DEF SendRequest, execRest, StillExec
<1>c. PICK c \in Conns : c = on[h]
  BY <1>0, OnlyCaller
<1>2. /\ \A g \in Handlers : g # h => Same(g) /\ (on[g] # c \/ Away(g))
      /\ Placed /\ pc'[h] \in {"sendHeader", "close"}
      /\ pc'[h] = "sendHeader" => ws[c] # "closed"
  BY <1>c, <1>0, <1>1, OnlyCaller, OneUser, HandlersPlaced DEF Same, Leases
<1>3. /\ UpShape(c) /\ DownShape(c) /\ Clean(c) /\ WireTypes /\ Asks(h)
      /\ up \in [Conns -> Seq(Message)] /\ up[c] \in Seq(Message) /\ Len(up[c]) \in Nat
  BY <1>2 DEF WireInv, WireTypes
<1>4. asks[h] \in Requests /\ result[asks[h]] = "asked"
  BY <1>0, <1>3 DEF Asks, Unsent
<1>5. ~Busy(c) /\ Busy(c)'
  BY <1>c, <1>0, <1>2 DEF Busy, Away, Expecting
<1>6. PICK sent \in Seq(Message) :
        /\ Len(sent) \in 0..2
        /\ Len(sent) > 0 => sent[1].of = asks[h] /\ sent[1].part = "head"
        /\ Len(sent) = 2 => sent[2].of = asks[h] /\ sent[2].part # "head"
        /\ Open(c) => (pc'[h] = "sendHeader" => Len(sent) = 2)
        /\ ~Open(c) => Len(sent) = 0
        /\ up' = [up EXCEPT ![c] = @ \o sent]
  <2> DEFINE head == Wire(asks[h], "head")
  <2>1. PICK s \in {<<>>, <<head>>, <<head, Wire(asks[h], "cut")>>,
                    <<head, Wire(asks[h], "body")>>} :
          /\ IF Open(c) THEN pc'[h] = "sendHeader" <=> Len(s) = 2 /\ s[2].part = "body"
                        ELSE s = <<>>
          /\ up' = [up EXCEPT ![c] = @ \o s]
    BY <1>c DEF SendRequest, Open
  <2>2. \A part \in {"head", "cut", "body"} : /\ Wire(asks[h], part) \in Message
                                              /\ Wire(asks[h], part).of = asks[h]
                                              /\ Wire(asks[h], part).part = part
    BY <1>4 DEF Wire, Message
  <2>3. /\ head \in Message /\ Wire(asks[h], "cut") \in Message /\ Wire(asks[h], "body") \in Message
        /\ head.of = asks[h] /\ head.part = "head"
    BY <2>2
  <2> DEFINE Good == /\ s \in Seq(Message) /\ Len(s) \in 0..2
                     /\ Len(s) > 0 => s[1].of = asks[h] /\ s[1].part = "head"
                     /\ Len(s) = 2 => s[2].of = asks[h] /\ s[2].part # "head"
  <2>4. CASE s = <<>>
    <3>1. Good
      BY <2>4
    <3> QED BY <2>1, <3>1
  <2>5. CASE s = <<head>>
    <3>1. Good
      BY <2>3, <2>5
    <3> QED BY <2>1, <3>1
  <2>6. CASE s = <<head, Wire(asks[h], "cut")>>
    <3>1. Good
      BY <2>2, <2>3, <2>6
    <3> QED BY <2>1, <3>1
  <2>7. CASE s = <<head, Wire(asks[h], "body")>>
    <3>1. Good
      BY <2>2, <2>3, <2>7
    <3> QED BY <2>1, <3>1
  <2> QED BY <2>1, <2>4, <2>5, <2>6, <2>7
<1>8. /\ up'[c] \in Seq(Message) /\ Len(up'[c]) = Len(up[c]) + Len(sent)
      /\ up' \in [Conns -> Seq(Message)]
      /\ \A i \in 1..Len(up[c]) : up'[c][i] = up[c][i]
      /\ \A i \in 1..Len(sent) : up'[c][Len(up[c]) + i] = sent[i]
  <2>1. up'[c] = up[c] \o sent
    BY <1>3, <1>6
  <2>2. up[c] \o sent \in Seq(Message)
    BY <1>3, <1>6, BothOf
  <2>3. up' \in [Conns -> Seq(Message)]
    BY <1>3, <1>6, <2>2
  <2> QED BY <1>3, <1>6, <2>1, <2>3, BothOf
<1>9. WireTypes'
  BY <1>1, <1>2, <1>3, <1>4, <1>8 DEF SendRequest, Ends, StillExec, WireTypes
<1>10. ws[c] # "closed" => Len(down[c]) = 0
  BY <1>3, <1>5 DEF Clean
<1>11. Open(c) => \/ execPc[c] \in Waiting /\ Len(up[c]) = 0
                  \/ execPc[c] \in Gone /\ Len(up[c]) <= 1
  BY <1>3, <1>5 DEF Clean, Open
<1>12. UpShape(c)'
  <2>1. CASE execPc[c] \in Waiting /\ Open(c)
    <3>1. Len(up[c]) = 0 /\ Len(up'[c]) = Len(sent)
      BY <1>6, <1>8, <1>11, <2>1 DEF Waiting, Gone
    <3>2. /\ Len(sent) > 0 => up'[c][1] = sent[1]
          /\ Len(sent) = 2 => up'[c][2] = sent[2]
      BY <1>6, <1>8, <3>1
    <3>3. Len(up'[c]) \in 0..2
      BY <1>6, <3>1
    <3>4. Request(up'[c])
      BY <1>6, <3>1, <3>2, <3>3 DEF Request
    <3>5. Len(up'[c]) <= 3
      <4>1. \A n \in 0..2 : n <= 3
        OBVIOUS
      <4> QED BY <3>3, <4>1, Zenon
    <3> QED BY <1>1, <2>1, <3>4, <3>5 DEF UpShape, StillExec, Open, Waiting, Taken
  <2>2. CASE execPc[c] \in Gone /\ Open(c)
    <3>1. Len(up[c]) <= 1
      BY <1>11, <2>2 DEF Waiting, Gone
    <3>2. Len(up'[c]) <= 3
      <4>1. \A m \in Nat, n \in 0..2 : m <= 1 => m + n <= 3
        OBVIOUS
      <4>2. Len(up[c]) \in Nat /\ Len(sent) \in 0..2 /\ Len(up'[c]) = Len(up[c]) + Len(sent)
        BY <1>3, <1>6, <1>8
      <4> QED BY <3>1, <4>1, <4>2, Zenon
    <3> QED BY <1>1, <2>2, <3>2 DEF UpShape, StillExec, Open, Waiting, Taken, Gone
  <2>3. CASE ~Open(c)
    <3>1. Len(sent) = 0
      BY <1>6, <2>3
    <3>2. Len(up'[c]) = Len(up[c])
      BY <1>3, <1>8, <3>1
    <3>3. /\ Len(up[c]) > 0 => up'[c][1] = up[c][1]
          /\ Len(up[c]) > 1 => up'[c][2] = up[c][2]
      BY <1>3, <1>8
    <3> QED BY <1>1, <1>3, <3>2, <3>3 DEF UpShape, StillExec, Request
  <2> QED BY <1>11, <2>1, <2>2, <2>3
<1>13. DownShape(c)' /\ Clean(c)'
  BY <1>0, <1>1, <1>3, <1>5, <1>10, <1>11 DEF DownShape, Clean, Open, StillExec
<1>14. InStep(h)'
  <2>1. CASE pc'[h] = "close"
    BY <2>1 DEF InStep, Expecting
  <2>2. CASE pc'[h] = "sendHeader"
    <3>1. Len(down'[c]) = 0 /\ on'[h] = c /\ ~HeadRead(h)' /\ asks'[h] = asks[h]
      BY <1>c, <1>0, <1>1, <1>2, <1>10, <2>2 DEF HeadRead
    <3>2. ASSUME Open(c)'
          PROVE  /\ Early(c)' => Hand(c)' = asks[h]
                 /\ execPc'[c] \notin Late
                 /\ execPc'[c] \in Waiting => Len(up'[c]) # 0
      <4>1. Open(c) /\ Len(sent) = 2
        BY <1>0, <1>1, <1>6, <2>2, <3>2 DEF Open, StillExec
      <4>2. execPc[c] \in Waiting => Len(up'[c]) = 2 /\ up'[c][1] = sent[1]
        BY <1>6, <1>8, <1>11, <4>1 DEF Waiting, Gone
      <4> QED BY <1>1, <1>6, <1>11, <4>1, <4>2
              DEF Early, HasRequest, Hand, Waiting, Gone, Late, Taken, StillExec
    <3>3. ~Whole(h)'
      BY <3>1 DEF Whole
    <3> QED BY <3>1, <3>2, <3>3 DEF InStep, AnswerOf
  <2> QED BY <1>2, <2>1, <2>2
<1>15. \A d \in Conns : d # c => ws'[d] = ws[d] /\ up'[d] = up[d] /\ down'[d] = down[d]
  BY <1>0, <1>1, <1>3, <1>6
<1>16. \A g \in Handlers : \/ Same(g) /\ (on[g] # c \/ Away(g))
                           \/ InStep(g)' /\ (on[g] = c \/ Away(g))
  BY <1>c, <1>2, <1>14
<1>17. HasRequest(c)' => (HasRequest(c) /\ Hand(c)' = Hand(c)) \/ Hand(c)' = asks[h]
  <2>1. CASE Len(sent) = 0
    <3>1. Len(up'[c]) = Len(up[c]) /\ (Len(up[c]) > 0 => up'[c][1] = up[c][1])
      BY <1>3, <1>8, <2>1
    <3>2. HasRequest(c)' => HasRequest(c)
      BY <1>1, <3>1 DEF StillExec, HasRequest
    <3>3. HasRequest(c) => Hand(c)' = Hand(c)
      BY <1>1, <3>1 DEF StillExec, HasRequest, Hand, Waiting, Taken
    <3> QED BY <3>2, <3>3
  <2>2. CASE Len(sent) # 0 /\ execPc[c] \in Waiting
    <3>1. Open(c) /\ Len(up[c]) = 0 /\ Len(sent) > 0
      BY <1>6, <1>11, <2>2 DEF Waiting, Gone
    <3>2. up'[c][1] = sent[1] /\ sent[1].of = asks[h]
      BY <1>6, <1>8, <3>1
    <3> QED BY <1>1, <2>2, <3>2 DEF StillExec, Hand
  <2>3. CASE execPc[c] \notin Waiting
    BY <1>1, <2>3 DEF StillExec, HasRequest, Hand
  <2> QED BY <2>1, <2>2, <2>3
<1>18. \A d \in Conns, n \in Requests :
         Pending(d, n)' => Pending(d, n) \/ (d = on[h] /\ n = asks[h])
  BY <1>c, <1>1, <1>15, <1>17 DEF StillExec, Pending, HasRequest, Hand
<1> QED BY <1>1, <1>2, <1>9, <1>12, <1>13, <1>15, <1>16, <1>18, WireSuffices

(* A channel is passed to the reader, or nothing more comes over the wire. *)
LEMMA PassMoves ==
  ASSUME WireInv, ConnInv, NEW h \in Handlers, PassChannel(h)
  PROVE  /\ \/ pc[h] = "sendHeader" /\ pc'[h] = "header" /\ on'[h] = on[h]
            \/ pc[h] = "sendBody" /\ pc'[h] = "body" /\ on'[h] = on[h]
            \/ pc[h] \in {"sendHeader", "sendBody"} /\ pc'[h] = "ready" /\ ws[on[h]] = "closed"
         /\ UNCHANGED <<ws, up, down, asks, got>> /\ StillExec /\ Calling(h)
         /\ pc'[h] = "ready" => Ends(h, "failed")
         /\ pc'[h] # "ready" => result' = result
<1>1. /\ UNCHANGED <<ws, up, down, asks, got>> /\ StillExec /\ Calling(h)
      /\ pc[h] \in {"sendHeader", "sendBody"}
      /\ pc'[h] = "ready" => Ends(h, "failed")
      /\ pc'[h] # "ready" => result' = result
  BY DEF PassChannel, SendHeaderChannel, SendBodyChannel, SendChannel, StillExec, execVars,
     Calling, CallerStep
<1>2. /\ h \in Goroutines /\ h \notin Conns /\ on[h] \in Conns /\ pc \in [Goroutines -> Points]
      /\ on \in [Goroutines -> Conns \cup {None}] /\ on[h] # h
  BY <1>1, OnlyCaller
<1>3. CASE ws[on[h]] = "closed" /\ pc' = [pc EXCEPT ![h] = "ready"]
  BY <1>1, <1>2, <1>3
<1>4. CASE ws[on[h]] # "closed"
  <2>1. /\ on' = on
        /\ \/ pc[h] = "sendHeader" /\ pc' = [pc EXCEPT ![h] = "header", ![on[h]] = "serve"]
           \/ pc[h] = "sendBody" /\ pc' = [pc EXCEPT ![h] = "body", ![on[h]] = "serve"]
    BY <1>4 DEF PassChannel, SendHeaderChannel, SendBodyChannel, SendChannel
  <2>2. \/ pc[h] = "sendHeader" /\ pc'[h] = "header"
        \/ pc[h] = "sendBody" /\ pc'[h] = "body"
    BY <1>2, <2>1
  <2> QED BY <1>1, <2>1, <2>2
<1>5. ws[on[h]] = "closed" => pc' = [pc EXCEPT ![h] = "ready"]
  BY <1>2 DEF PassChannel, SendHeaderChannel, SendBodyChannel, SendChannel, Return, Goto
<1> QED BY <1>1, <1>3, <1>4, <1>5

(* The handler passes its channel to the reader, or finds it gone.         *)
LEMMA PassWire ==
  ASSUME WireInv, ConnInv, NEW h \in Handlers, PassChannel(h)
  PROVE  WireTypes' /\ Wires'
<1>0. /\ \/ pc[h] = "sendHeader" /\ pc'[h] = "header" /\ on'[h] = on[h]
         \/ pc[h] = "sendBody" /\ pc'[h] = "body" /\ on'[h] = on[h]
         \/ pc[h] \in {"sendHeader", "sendBody"} /\ pc'[h] = "ready" /\ ws[on[h]] = "closed"
      /\ UNCHANGED <<ws, up, down, asks, got>> /\ StillExec /\ Calling(h)
      /\ pc'[h] = "ready" => Ends(h, "failed")
      /\ pc'[h] # "ready" => result' = result
  BY PassMoves
<1>c. PICK c \in Conns : c = on[h]
  BY <1>0, OnlyCaller
<1>2. /\ \A g \in Handlers : g # h => Same(g) /\ (on[g] # c \/ Away(g))
      /\ Placed
  BY <1>c, <1>0, OnlyCaller, OneUser, HandlersPlaced DEF Same, Leases
<1>3. UpShape(c) /\ DownShape(c) /\ Clean(c) /\ WireTypes /\ Asks(h) /\ InStep(h)
  BY <1>2 DEF WireInv
<1>4. WireTypes'
  <2>1. asks[h] \in Requests
    BY <1>0, <1>3 DEF Asks, Expecting
  <2> QED BY <1>0, <1>3, <2>1 DEF WireTypes, StillExec, Ends
<1>5. UpShape(c)' /\ DownShape(c)'
  BY <1>0, <1>3 DEF StillExec, UpShape, Request, DownShape, Open, Early, HasRequest
<1>6. Clean(c)'
  BY <1>c, <1>0, <1>3 DEF Clean, Busy, Expecting, StillExec
<1>7. InStep(h)'
  <2>1. CASE pc'[h] = "ready"
    BY <2>1 DEF InStep, Expecting
  <2>2. CASE pc'[h] # "ready"
    BY <1>0, <1>3, <2>2 DEF InStep, HeadRead, Whole, AnswerOf, BodyOf, Open, Early, HasRequest,
       Hand, StillExec, Expecting
  <2> QED BY <2>1, <2>2
<1>8. \A g \in Handlers : \/ Same(g) /\ (on[g] # c \/ Away(g))
                          \/ InStep(g)' /\ (on[g] = c \/ Away(g))
  BY <1>c, <1>2, <1>7
<1> QED BY <1>0, <1>2, <1>4, <1>5, <1>6, <1>8, WireSuffices

(* A message is read from the wire, if there is one.                       *)
LEMMA ReadWire ==
  ASSUME WireInv, ConnInv, ExecInv, NEW h \in Handlers, NEW c \in Conns, c = on[h],
         Calling(h), pc[h] \in {"header", "body"}, ws' = ws, on' = on, asks' = asks,
         UNCHANGED up, StillExec, \A g \in Handlers : g # h => got'[g] = got[g],
         down' = [down EXCEPT ![c] = IF @ = <<>> THEN @ ELSE Tail(@)],
         \/ pc'[h] \in {"close", "aborted"}
         \/ /\ pc[h] = "header" /\ pc'[h] = "sendBody" /\ down[c] # <<>>
            /\ got'[h] = Head(down[c]).of
         \/ /\ pc[h] = "body" /\ pc'[h] = "release" /\ down[c] # <<>>
            /\ Head(down[c]).part # "cut"
  PROVE  Wires'
<1>2. /\ \A g \in Handlers : g # h => Same(g) /\ (on[g] # c \/ Away(g))
      /\ Placed
  BY OnlyCaller, OneUser, HandlersPlaced DEF Same, Leases
<1>3. /\ UpShape(c) /\ DownShape(c) /\ Clean(c) /\ Asks(h) /\ InStep(h)
      /\ down \in [Conns -> Seq(Message)] /\ down[c] \in Seq(Message) /\ Len(down[c]) \in Nat
  BY <1>2 DEF WireInv, WireTypes
<1>4. /\ Len(down[c]) = 0 => Len(down'[c]) = 0
      /\ Len(down[c]) > 0 => /\ Head(down[c]) = down[c][1] /\ down[c][1] \in Message
                             /\ Len(down'[c]) = Len(down[c]) - 1
                             /\ \A i \in 1..(Len(down[c]) - 1) : down'[c][i] = down[c][i + 1]
      /\ down[c] # <<>> => Len(down[c]) > 0
      /\ Len(down'[c]) \in Nat /\ Len(down'[c]) <= Len(down[c])
  <2>1. CASE down[c] = <<>>
    BY <1>3, <2>1
  <2>2. CASE down[c] # <<>>
    <3>1. down'[c] = Tail(down[c])
      BY <1>3, <2>2
    <3> QED BY <1>3, <2>2, <3>1, FirstOf
  <2> QED BY <2>1, <2>2
<1>5. Len(down[c]) <= 2 /\ (Len(down[c]) = 2 => down'[c][1] = down[c][2])
  BY <1>3, <1>4 DEF DownShape
<1>6. UpShape(c)' /\ DownShape(c)'
  BY <1>3, <1>4 DEF StillExec, UpShape, Request, DownShape, Open, Early, HasRequest
<1>7. CASE pc'[h] \in {"close", "aborted"}
  <2>1. Busy(c)'
    BY <1>7 DEF Busy
  <2>2. Clean(c)' /\ InStep(h)'
    BY <1>7, <2>1 DEF Clean, InStep, Expecting
  <2>3. \A g \in Handlers : \/ Same(g) /\ (on[g] # c \/ Away(g))
                            \/ InStep(g)' /\ (on[g] = c \/ Away(g))
    BY <1>2, <2>2
  <2> QED BY <1>2, <1>3, <1>6, <2>2, <2>3, WireSuffices
<1>8. CASE pc'[h] = "sendBody"
  <2>0. pc[h] = "header" /\ Len(down[c]) > 0 /\ got'[h] = down[c][1].of
    BY <1>4, <1>8
  <2>1. Busy(c)'
    BY <1>8 DEF Busy, Expecting
  <2>2. /\ AnswerOf(down[c], asks[h]) /\ ~HasRequest(c)
        /\ Open(c) =>
             /\ execPc[c] \in Late => task[c][1].of = asks[h]
             /\ execPc[c] \in Waiting /\ Len(up[c]) = 0 => Whole(h)
             /\ execPc[c] \in Gone /\ Whole(h) => Len(up[c]) <= 1
    BY <1>3, <2>0 DEF InStep, HeadRead, Expecting
  <2>3. got'[h] = asks[h] /\ BodyOf(down'[c], asks[h])
    BY <1>3, <1>4, <1>5, <2>0, <2>2 DEF AnswerOf, BodyOf
  <2>4. Whole(h)' <=> Whole(h)
    BY <1>3, <1>4, <1>5, <1>8, <2>0, <2>2 DEF Whole, HeadRead
  <2>5. Open(c) => ~Early(c) /\ (execPc[c] \in Late => Len(down'[c]) = 0)
    <3>1. Open(c) => ~Early(c) /\ (execPc[c] \in Late => Len(down[c]) <= 1)
      BY <1>3, <2>0 DEF DownShape
    <3>2. Len(down[c]) <= 1 => Len(down'[c]) = 0
      <4>1. \A m, n \in Nat : m > 0 /\ n = m - 1 /\ m <= 1 => n = 0
        OBVIOUS
      <4> QED BY <1>3, <1>4, <2>0, <4>1, Zenon
    <3> QED BY <3>1, <3>2
  <2>6. InStep(h)'
    BY <1>8, <2>2, <2>3, <2>4, <2>5 DEF InStep, HeadRead, StillExec, Open, Early, HasRequest
  <2>7. \A g \in Handlers : \/ Same(g) /\ (on[g] # c \/ Away(g))
                            \/ InStep(g)' /\ (on[g] = c \/ Away(g))
    BY <1>2, <2>6
  <2>8. Clean(c)'
    BY <2>1 DEF Clean
  <2> QED BY <1>2, <1>3, <1>6, <2>7, <2>8, WireSuffices
<1>9. CASE pc'[h] = "release"
  <2>0. /\ pc[h] = "body" /\ Len(down[c]) > 0 /\ down[c][1].part # "cut" /\ down[c][1] \in Message
    BY <1>4, <1>9
  <2>1. /\ BodyOf(down[c], asks[h]) /\ ~HasRequest(c)
        /\ Open(c) =>
             /\ ~Early(c)
             /\ execPc[c] \notin Late
             /\ execPc[c] \in Gone /\ Whole(h) => Len(up[c]) <= 1
    BY <1>3, <2>0 DEF InStep, HeadRead, Expecting
  <2>2. Len(down[c]) = 1 /\ Len(down'[c]) = 0 /\ Whole(h)
    <3>1. Len(down[c]) <= 1 /\ (Len(down[c]) = 1 => down[c][1].part # "head")
      BY <2>1 DEF BodyOf
    <3>2. Len(down[c]) = 1
      <4>1. \A n \in Nat : n > 0 /\ n <= 1 => n = 1
        OBVIOUS
      <4> QED BY <1>3, <2>0, <3>1, <4>1, Zenon
    <3>3. down[c][1].part = "body"
      BY <2>0, <3>1, <3>2 DEF Message
    <3>4. Len(down'[c]) = 0
      BY <1>4, <3>2
    <3> QED BY <2>0, <3>2, <3>3, <3>4 DEF Whole, HeadRead
  <2>3. Open(c) => execPc[c] \in Waiting \cup Gone
    <3>1. execPc[c] \in ExecPc /\ (execPc[c] \in {"closing", "end"} => execWs[c] # "open")
      BY DEF ExecInv, ExecTypes, ClosesFirst
    <3> QED BY <2>1, <3>1 DEF Open, ExecPc, Early, HasRequest, Waiting, Taken, Late, Gone
  <2>4. execPc[c] \in Waiting => Len(up[c]) = 0
    <3>1. Len(up[c]) \in Nat
      BY DEF WireInv, WireTypes
    <3> QED BY <2>1, <3>1 DEF HasRequest
  <2>5. Clean(c)'
    BY <2>1, <2>2, <2>3, <2>4 DEF Clean, StillExec, Open
  <2>6. InStep(h)'
    BY <1>9 DEF InStep, Expecting
  <2>7. \A g \in Handlers : \/ Same(g) /\ (on[g] # c \/ Away(g))
                            \/ InStep(g)' /\ (on[g] = c \/ Away(g))
    BY <1>2, <2>6
  <2> QED BY <1>2, <1>3, <1>6, <2>5, <2>7, WireSuffices
<1> QED BY <1>7, <1>8, <1>9

-----------------------------------------------------------------------------
(* Whose the requests are.                                                 *)

(* Nothing was sent, asked or ended.                                       *)
LEMMA OwnFrame ==
  ASSUME WireInv, StillExec, UNCHANGED <<up, asks, result>>,
         \A g \in Handlers : /\ pc'[g] \in Unsent => pc[g] \in Unsent
                             /\ pc'[g] \in Expecting => pc[g] \in Expecting /\ on'[g] = on[g]
  PROVE  Owns'
<1>1. \A g \in Handlers : Asks(g)'
  BY DEF WireInv, Asks
<1>2. /\ \A n \in Requests : (NotYet(n)' => NotYet(n)) /\ (Done(n)' <=> Done(n))
      /\ \A d \in Conns, n \in Requests : Pending(d, n)' <=> Pending(d, n)
  BY DEF NotYet, Done, Pending, HasRequest, Hand, StillExec
<1>3. Once'
  BY <1>2 DEF WireInv, Once
<1> QED BY <1>1, <1>3 DEF Owns

(* A request is asked ...                                                  *)
LEMMA OwnAsk ==
  ASSUME WireInv, ConnInv, NEW h \in Handlers, Ask(h)
  PROVE  Owns' /\ WireTypes'
<1>0. PICK n \in Requests : /\ result[n] = "new" /\ asks' = [asks EXCEPT ![h] = n]
                            /\ result' = [result EXCEPT ![n] = "asked"]
  BY DEF Ask
<1>1. /\ WireTypes /\ asks \in [Handlers -> Requests \cup {0}]
      /\ result \in [Requests -> {"new", "asked", "failed", "answered"}]
      /\ h \in Goroutines /\ pc \in [Goroutines -> Points] /\ \A g \in Handlers : g \in Goroutines
  BY DEF WireInv, WireTypes, ConnInv, LeaseInv, ConnTypes, LocalTypes, Goroutines, Callers
<1>2. /\ StillExec /\ UNCHANGED <<on, got, up, task, down, executed>>
      /\ pc[h] = "ready" /\ pc' = [pc EXCEPT ![h] = "pop"]
  BY DEF Ask, StillExec, execVars, Goto
<1>3. /\ pc'[h] = "pop" /\ \A g \in Handlers : g # h => pc'[g] = pc[g] /\ asks'[g] = asks[g]
      /\ asks'[h] = n /\ result'[n] = "asked"
      /\ \A m \in Requests : m # n => result'[m] = result[m]
  BY <1>0, <1>1, <1>2
<1>4. \A g \in Handlers : Asks(g)'
  BY <1>0, <1>1, <1>3 DEF WireInv, Asks
<1>5. /\ \A m \in Requests : (NotYet(m)' => NotYet(m)) /\ (Done(m)' <=> Done(m))
      /\ \A d \in Conns, m \in Requests : Pending(d, m)' <=> Pending(d, m)
  BY <1>0, <1>2, <1>3 DEF NotYet, Done, Pending, HasRequest, Hand, StillExec, Unsent
<1>6. Once'
  <2>1. \A d \in Conns, m \in Requests : Pending(d, m) => m # n
    BY <1>0 DEF WireInv, Once
  <2>2. pc'[h] \notin Expecting
    BY <1>3 DEF Expecting
  <2> QED BY <1>2, <1>3, <1>5, <2>1, <2>2 DEF WireInv, Once
<1>7. WireTypes'
  BY <1>0, <1>1, <1>2 DEF WireTypes
<1> QED BY <1>4, <1>6, <1>7 DEF Owns

(* ... sent, which may fail ...                                            *)
LEMMA OwnSent ==
  ASSUME WireInv, ConnInv, NEW h \in Handlers, SendRequest(h)
  PROVE  Owns'
<1>0. /\ pc[h] = "write" /\ UNCHANGED <<on, asks>> /\ Calling(h) /\ StillExec
      /\ \/ pc'[h] = "sendHeader" /\ result' = result
         \/ pc'[h] = "close" /\ Ends(h, "failed")
  <2>1. /\ pc[h] = "write" /\ UNCHANGED <<on, asks>> /\ Calling(h) /\ StillExec
        /\ pc' = [pc EXCEPT ![h] = "sendHeader"] \/ pc' = [pc EXCEPT ![h] = "close"]
    BY DEF SendRequest, WriteRequest, Fail, Goto, execRest, StillExec, Calling, CallerStep
  <2>2. pc'[h] \in {"sendHeader", "close"}
    BY <2>1, OnlyCaller
  <2> QED BY <2>1, <2>2 DEF SendRequest
<1>1. /\ WireTypes /\ Asks(h) /\ \A g \in Handlers : g # h => pc'[g] = pc[g]
  BY <1>0, OnlyCaller DEF WireInv
<1>2. /\ asks[h] \in Requests /\ result[asks[h]] = "asked" /\ NotYet(asks[h])
      /\ \A g \in Handlers : g # h /\ pc[g] \in Unsent \cup Expecting => asks[g] # asks[h]
  BY <1>0, <1>1 DEF Asks, Unsent, NotYet
<1>3. /\ \A m \in Requests : m # asks[h] => result'[m] = result[m]
      /\ result'[asks[h]] \in {"asked", "failed"}
      /\ pc'[h] = "sendHeader" => result'[asks[h]] = "asked"
      /\ pc'[h] \notin Unsent
  BY <1>0, <1>1, <1>2 DEF WireTypes, Ends, Unsent
<1>4. \A g \in Handlers : Asks(g)'
  <2>1. ASSUME NEW g \in Handlers, g # h PROVE Asks(g)'
    <3>1. Asks(g)
      BY DEF WireInv
    <3> QED BY <1>0, <1>1, <1>2, <1>3, <2>1, <3>1 DEF Asks
  <2>2. Asks(h)'
    BY <1>0, <1>1, <1>2, <1>3 DEF Asks, Unsent, Expecting
  <2> QED BY <2>1, <2>2
<1>5. \A d \in Conns, n \in Requests :
        Pending(d, n)' => Pending(d, n) \/ (d = on[h] /\ n = asks[h])
  BY SendWire
<1>6. \A m \in Requests : /\ NotYet(m)' => NotYet(m) /\ m # asks[h]
                          /\ Done(m)' <=> Done(m)
  BY <1>0, <1>1, <1>2, <1>3 DEF NotYet, Done, StillExec
<1>7. ~Done(asks[h]) /\ \A d \in Conns : ~Pending(d, asks[h])
  BY <1>2 DEF WireInv, Once
<1>8. Once'
  <2>1. \A m \in Requests : NotYet(m)' => ~Done(m)' /\ \A d \in Conns : ~Pending(d, m)'
    BY <1>5, <1>6 DEF WireInv, Once
  <2>2. \A d \in Conns, m \in Requests : Pending(d, m)' =>
          /\ ~Done(m)' /\ result'[m] \in {"asked", "failed"}
          /\ \A e \in Conns : Pending(e, m)' => e = d
    BY <1>3, <1>5, <1>6, <1>7 DEF WireInv, Once
  <2>3. \A g \in Handlers, d \in Conns, m \in Requests :
          pc'[g] \in Expecting /\ asks'[g] = m /\ Pending(d, m)' => d = on'[g]
    BY <1>0, <1>1, <1>2, <1>5, <1>7 DEF WireInv, Once
  <2> QED BY <2>1, <2>2, <2>3 DEF Once
<1> QED BY <1>4, <1>8 DEF Owns

(* ... and ends.                                                           *)
LEMMA OwnEnds ==
  ASSUME WireInv, StillExec, UNCHANGED <<up, asks>>, NEW h \in Handlers,
         pc[h] \in Unsent \cup Expecting, pc'[h] \notin Unsent \cup Expecting,
         \A g \in Handlers : g # h => pc'[g] = pc[g] /\ on'[g] = on[g],
         NEW how \in {"failed", "answered"}, Ends(h, how),
         how = "answered" => \A d \in Conns : ~Pending(d, asks[h])
  PROVE  Owns' /\ result' \in [Requests -> {"new", "asked", "failed", "answered"}]
<1>1. /\ WireTypes /\ asks[h] \in Requests /\ result[asks[h]] = "asked"
      /\ \A g \in Handlers : g # h /\ pc[g] \in Unsent \cup Expecting => asks[g] # asks[h]
  BY DEF WireInv, Asks
<1>2. /\ \A m \in Requests : m # asks[h] => result'[m] = result[m]
      /\ result'[asks[h]] = how
      /\ result' \in [Requests -> {"new", "asked", "failed", "answered"}]
  BY <1>1 DEF WireTypes, Ends
<1>3. \A g \in Handlers : Asks(g)'
  BY <1>1, <1>2 DEF WireInv, Asks
<1>4. /\ \A m \in Requests : (NotYet(m)' => NotYet(m)) /\ (Done(m)' <=> Done(m))
      /\ \A d \in Conns, m \in Requests : Pending(d, m)' <=> Pending(d, m)
  BY <1>1, <1>2 DEF NotYet, Done, Pending, HasRequest, Hand, StillExec
<1>5. Once'
  BY <1>2, <1>4 DEF WireInv, Once
<1> QED BY <1>2, <1>3, <1>5 DEF Owns

-----------------------------------------------------------------------------
(* The steps of the sending end, one by one.                               *)

(* What Leave leaves.                                                      *)
LEMMA LeaveIs ==
  ASSUME WireTypes, NEW c \in Conns, Leave(c)
  PROVE  /\ down' \in [Conns -> Seq(Message)]
         /\ \A d \in Conns : d # c => down'[d] = down[d]
         /\ Len(down'[c]) \in Nat /\ Len(down'[c]) <= Len(down[c]) /\ Len(down'[c]) <= 1
         /\ Len(down'[c]) > 0 => down'[c][1] = down[c][1]
<1>0. down \in [Conns -> Seq(Message)] /\ down[c] \in Seq(Message) /\ Len(down[c]) \in Nat
  BY DEF WireTypes
<1>1. CASE down' = [down EXCEPT ![c] = <<>>]
  BY <1>0, <1>1
<1>2. CASE down[c] # <<>> /\ down' = [down EXCEPT ![c] = <<Head(down[c])>>]
  <2>1. Len(down[c]) > 0 /\ Head(down[c]) = down[c][1] /\ Head(down[c]) \in Message
    BY <1>0, <1>2, FirstOf
  <2>2. /\ <<Head(down[c])>> \in Seq(Message) /\ Len(<<Head(down[c])>>) = 1
        /\ <<Head(down[c])>>[1] = Head(down[c])
    BY <2>1, OneOf
  <2>3. down'[c] = <<Head(down[c])>> /\ down' \in [Conns -> Seq(Message)]
    BY <1>0, <1>2, <2>2
  <2>4. \A n \in Nat : n > 0 => 1 <= n
    OBVIOUS
  <2> QED BY <1>0, <1>2, <2>1, <2>2, <2>3, <2>4
<1> QED BY <1>1, <1>2 DEF Leave

(* The websocket is closed here ...                                        *)
LEMMA CloseStep ==
  ASSUME WireInv, ConnInv, NEW g \in Conns \cup Handlers, CloseWire(g)
  PROVE  WireInv'
<1>0. /\ pc[g] = "close" /\ StillExec /\ UNCHANGED <<up, asks, got, result>> /\ on' = on
      /\ pc' = [pc EXCEPT ![g] = "closing"]
         \/ pc' = [pc EXCEPT ![g] = IF g \in Conns THEN "end" ELSE "remove"]
      /\ \/ status[on[g]] = "CLOSED" /\ ws' = ws /\ down' = down
         \/ ws' = [ws EXCEPT ![on[g]] = "closed"] /\ (down' = down \/ Leave(on[g]))
  BY DEF CloseWire, Close, BeginClose, Goto, execRest, exchangeVars, StillExec
<1>1. /\ WireTypes /\ on[g] \in Conns /\ Placed /\ ws \in [Conns -> {"open", "broken", "closed"}]
      /\ status[on[g]] = "CLOSED" => ws[on[g]] = "closed"
      /\ pc \in [Goroutines -> Points] /\ \A h \in Handlers : h \in Goroutines
      /\ \A h \in Handlers : h \in Callers /\ h \notin Conns
  BY <1>0, CallerHas, HandlersPlaced
     DEF ConnInv, LeaseInv, ConnTypes, SharedTypes, LocalTypes, CloseInv, Follows, WireInv, Callers,
     Goroutines
<1>c. PICK c \in Conns : c = on[g]
  BY <1>1
<1>2. \A d \in Conns : d # c => ws'[d] = ws[d] /\ down'[d] = down[d]
  BY <1>c, <1>0, <1>1, LeaveIs
<1>3. /\ down' \in [Conns -> Seq(Message)]
      /\ Len(down'[c]) <= Len(down[c]) /\ Len(down'[c]) \in Nat
      /\ Len(down'[c]) > 0 => down'[c][1] = down[c][1]
      /\ Len(down'[c]) > 1 => down'[c][2] = down[c][2]
  <2>1. down \in [Conns -> Seq(Message)] /\ Len(down[c]) \in Nat
    BY <1>1 DEF WireTypes
  <2>2. CASE down' = down
    BY <2>1, <2>2
  <2>3. CASE Leave(c)
    <3>1. Len(down'[c]) \in Nat /\ Len(down'[c]) <= 1
      BY <1>1, <2>3, LeaveIs
    <3>2. ~(Len(down'[c]) > 1)
      BY <3>1
    <3> QED BY <1>1, <2>3, <3>2, LeaveIs
  <2> QED BY <1>c, <1>0, <2>2, <2>3
<1>4. ws'[c] = "closed"
  BY <1>c, <1>0, <1>1
<1>5. \A h \in Handlers : Same(h) \/ (on[h] = c /\ ws'[c] = "closed" /\ Away(h)')
  <2>1. ASSUME NEW h \in Handlers, h # g PROVE Same(h)
    BY <1>0, <1>1, <2>1 DEF Same
  <2>2. ASSUME NEW h \in Handlers, h = g PROVE pc'[h] \in {"closing", "remove"}
    BY <1>0, <1>1, <2>2
  <2> QED BY <1>c, <1>4, <2>1, <2>2 DEF Away, Expecting
<1>6. Wires'
  BY <1>0, <1>1, <1>2, <1>3, <1>4, <1>5, CutWire
<1>7. Owns'
  <2>1. \A h \in Handlers : Same(h) \/ pc'[h] \in {"closing", "remove"}
    BY <1>0, <1>1 DEF Same
  <2>2. \A h \in Handlers : /\ pc'[h] \in Unsent => pc[h] \in Unsent
                            /\ pc'[h] \in Expecting => pc[h] \in Expecting /\ on'[h] = on[h]
    BY <2>1 DEF Same, Unsent, Expecting
  <2> QED BY <1>0, <2>2, OwnFrame
<1>8. WireTypes'
  BY <1>0, <1>1, <1>3 DEF WireTypes, StillExec
<1> QED BY <1>6, <1>7, <1>8 DEF WireInv, Wires, Owns

(* ... or breaks.                                                          *)
LEMMA BreakStep ==
  ASSUME WireInv, ConnInv, NEW c \in Conns, BreakWire(c)
  PROVE  WireInv'
<1>0. /\ ws[c] = "open" /\ ws' = [ws EXCEPT ![c] = "broken"] /\ Leave(c) /\ StillExec
      /\ UNCHANGED <<up, asks, got, result, pc, on>>
  BY DEF BreakWire, Break, execRest, exchangeVars, StillExec
<1>1. WireTypes /\ Placed /\ ws \in [Conns -> {"open", "broken", "closed"}]
  BY HandlersPlaced DEF ConnInv, LeaseInv, ConnTypes, SharedTypes, WireInv
<1>2. /\ \A d \in Conns : d # c => ws'[d] = ws[d] /\ down'[d] = down[d]
      /\ ws'[c] # "open" /\ ws[c] # "closed"
  BY <1>0, <1>1, LeaveIs
<1>3. ~(Len(down'[c]) > 1)
  <2>1. Len(down'[c]) \in Nat /\ Len(down'[c]) <= 1
    BY <1>0, <1>1, LeaveIs
  <2> QED BY <2>1
<1>4. \A g \in Handlers : Same(g)
  BY <1>0 DEF Same
<1>5. Wires'
  BY <1>0, <1>1, <1>2, <1>3, <1>4, LeaveIs, CutWire
<1>6. Owns'
  BY <1>0, OwnFrame
<1>7. WireTypes'
  BY <1>0, <1>1, LeaveIs DEF WireTypes, StillExec
<1> QED BY <1>5, <1>6, <1>7 DEF WireInv, Wires, Owns

(* The reader goes on, and nobody else sees it.                            *)
LEMMA ReaderStepKeeps ==
  ASSUME WireInv, ConnInv, NEW c \in Conns, SenderStep(c) \/ BreakWire(c)
  PROVE  WireInv'
<1>1. CASE ReceiveMessage(c) \/ ReaderRest(c)
  <2>1. UNCHANGED <<ws, execVars, exchangeVars>> /\ Reading(c)
    BY <1>1 DEF ReceiveMessage, Receive, ReaderRest, Release, Offer, Loop, ReadError, Check,
       AwaitNil, Remove, Closed, EndClose, ReaderGoto, Reading, ReaderStep
  <2>2. \A g \in Handlers : Same(g)
    BY <2>1, OnlyReader DEF Same, exchangeVars
  <2>3. Wires' /\ Owns'
    BY <2>1, <2>2, QuietWire, OwnFrame, HandlersPlaced DEF Same, StillExec, execVars, exchangeVars
  <2>4. WireTypes'
    BY <2>1 DEF WireInv, WireTypes, execVars, exchangeVars
  <2> QED BY <2>3, <2>4 DEF WireInv, Wires, Owns
<1> QED BY <1>1, CloseStep, BreakStep DEF SenderStep

(* A handler that does not touch the wire.                                 *)
LEMMA AwayStep ==
  ASSUME WireInv, ConnInv, NEW h \in Handlers, Calling(h), UNCHANGED <<ws, execVars, asks, got>>,
         Away(h), Away(h)', pc'[h] \in Unsent => pc[h] \in Unsent,
         \/ result' = result
         \/ pc[h] \in Unsent /\ pc'[h] \notin Unsent /\ Ends(h, "failed")
  PROVE  WireInv'
<1>0. /\ StillExec /\ Placed /\ WireTypes
      /\ \A g \in Handlers : g # h => Same(g) /\ pc'[g] = pc[g] /\ on'[g] = on[g]
  BY OnlyCaller, HandlersPlaced DEF StillExec, execVars, Same, WireInv
<1>1. Wires'
  <2>1. \A g \in Handlers : Same(g) \/ (Away(g) /\ Away(g)')
    BY <1>0
  <2> QED BY <1>0, <2>1, QuietWire DEF execVars
<1>2. CASE result' = result
  <2>1. Owns'
    BY <1>0, <1>2, OwnFrame DEF execVars, Away
  <2>2. WireTypes'
    BY <1>0, <1>2 DEF WireTypes, execVars
  <2> QED BY <1>1, <2>1, <2>2 DEF WireInv, Wires, Owns
<1>3. CASE pc[h] \in Unsent /\ pc'[h] \notin Unsent /\ Ends(h, "failed")
  <2>1. pc[h] \in Unsent \cup Expecting /\ pc'[h] \notin Unsent \cup Expecting
    BY <1>3 DEF Away
  <2>2. Owns' /\ result' \in [Requests -> {"new", "asked", "failed", "answered"}]
    BY <1>0, <1>3, <2>1, OwnEnds DEF execVars
  <2>3. WireTypes'
    BY <1>0, <2>2 DEF WireTypes, execVars
  <2> QED BY <1>1, <2>2, <2>3 DEF WireInv, Wires, Owns
<1> QED BY <1>2, <1>3

(* GetIdleWriteConnection, and what a handler does after its answer.       *)
LEMMA IdleStep ==
  ASSUME WireInv, ConnInv, NEW h \in Handlers, NoConnection(h) \/ HandlerRest(h)
  PROVE  WireInv'
<1>0. /\ Calling(h) /\ UNCHANGED <<ws, execVars, asks, got>>
      /\ h \in Goroutines /\ h \notin Conns /\ pc \in [Goroutines -> Points]
      /\ on \in [Goroutines -> Conns \cup {None}] /\ None \notin Conns
  <2>1. Calling(h) /\ UNCHANGED <<ws, execVars, asks, got>>
    BY DEF NoConnection, PopTimeout, Take, HandlerRest, Pop, Inspect, Release, Offer, Closed, EndClose,
       Remove, exchangeVars, Calling, CallerStep
  <2> QED BY <2>1, OnlyCaller DEF Goroutines
<1>1. CASE NoConnection(h)
  <2>1. \/ pc[h] = "pop" /\ pc' = [pc EXCEPT ![h] = "ready"] /\ on' = [on EXCEPT ![h] = None]
        \/ pc[h] = "take" /\ pc' = [pc EXCEPT ![h] = "ready"] /\ on' = [on EXCEPT ![h] = None]
        \/ pc[h] = "take" /\ pc' = [pc EXCEPT ![h] = "write"] /\ on' = on
    BY <1>0, <1>1 DEF NoConnection, PopTimeout, Take, Return, Goto
  <2>2. \/ pc[h] \in {"pop", "take"} /\ pc'[h] = "ready" /\ on'[h] = None
        \/ pc[h] = "take" /\ pc'[h] = "write" /\ on'[h] # None
    BY <1>0, <2>1, OnlyCaller
  <2>3. \/ pc'[h] = "ready" /\ Ends(h, "failed")
        \/ pc'[h] = "write" /\ result' = result
    BY <1>1, <2>2 DEF NoConnection
  <2> QED BY <1>0, <2>2, <2>3, AwayStep DEF Away, Unsent, Expecting
<1>2. CASE HandlerRest(h)
  <2>1. /\ result' = result
        /\ \/ pc[h] = "pop" /\ pc' = [pc EXCEPT ![h] = "inspect"]
           \/ pc[h] = "inspect" /\ pc' = [pc EXCEPT ![h] = "take"]
           \/ pc[h] = "inspect" /\ pc' = [pc EXCEPT ![h] = "pop"]
           \/ pc[h] = "release" /\ pc' = [pc EXCEPT ![h] = "offer"]
           \/ pc[h] \in {"release", "offer", "remove"} /\ pc' = [pc EXCEPT ![h] = "ready"]
           \/ pc[h] = "closing" /\ pc' = [pc EXCEPT ![h] = "remove"]
    BY <1>0, <1>2 DEF HandlerRest, Pop, Inspect, Release, Offer, Closed, Remove, Return, Goto,
       exchangeVars
  <2>2. \/ pc[h] = "pop" /\ pc'[h] = "inspect"
        \/ pc[h] = "inspect" /\ pc'[h] \in {"take", "pop"}
        \/ pc[h] \in {"release", "offer", "remove", "closing"}
           /\ pc'[h] \in {"offer", "ready", "remove"}
    BY <1>0, <2>1
  <2> QED BY <1>0, <2>1, <2>2, AwayStep DEF Away, Unsent, Expecting
<1> QED BY <1>1, <1>2

(* A handler that expects its answer.                                      *)
LEMMA PassStep ==
  ASSUME WireInv, ConnInv, NEW h \in Handlers, PassChannel(h)
  PROVE  WireInv'
<1>0. /\ \/ pc[h] = "sendHeader" /\ pc'[h] = "header" /\ on'[h] = on[h] /\ result' = result
         \/ pc[h] = "sendBody" /\ pc'[h] = "body" /\ on'[h] = on[h] /\ result' = result
         \/ pc[h] \in {"sendHeader", "sendBody"} /\ pc'[h] = "ready" /\ Ends(h, "failed")
      /\ UNCHANGED <<up, asks>> /\ StillExec
      /\ \A g \in Handlers : g # h => pc'[g] = pc[g] /\ on'[g] = on[g]
  BY PassMoves, OnlyCaller
<1>1. Owns'
  <2>1. CASE pc'[h] = "ready"
    BY <1>0, <2>1, OwnEnds DEF Unsent, Expecting
  <2>2. CASE pc'[h] # "ready"
    BY <1>0, <2>2, OwnFrame DEF Unsent, Expecting
  <2> QED BY <2>1, <2>2
<1> QED BY <1>1, PassWire DEF WireInv, Wires, Owns

(* It reads the head of its answer, and then waits for the body.           *)
LEMMA HeadStep ==
  ASSUME WireInv, ConnInv, ExecInv, NEW h \in Handlers, ReadHead(h)
  PROVE  WireInv'
<1>0. /\ pc[h] = "header" /\ UNCHANGED <<ws, on, up, asks>> /\ StillExec /\ Calling(h)
      /\ down' = [down EXCEPT ![on[h]] = IF @ = <<>> THEN @ ELSE Tail(@)]
      /\ \/ /\ pc'[h] = "sendBody" /\ down[on[h]] # <<>>
            /\ got' = [got EXCEPT ![h] = Head(down[on[h]]).of] /\ result' = result
         \/ pc'[h] \in {"close", "aborted"} /\ Ends(h, "failed") /\ got' = got
  BY DEF ReadHead, ReadHeader, execRest, StillExec, Calling, CallerStep
<1>c. PICK c \in Conns : c = on[h]
  BY <1>0, OnlyCaller
<1>1. /\ WireTypes /\ got \in [Handlers -> Requests \cup {0}] /\ down \in [Conns -> Seq(Message)]
      /\ \A g \in Handlers : g # h => pc'[g] = pc[g] /\ on'[g] = on[g]
  BY <1>0, OnlyCaller DEF WireInv, WireTypes
<1>2. Wires'
  <2>1. pc'[h] = "sendBody" => got'[h] = Head(down[c]).of
    BY <1>c, <1>0, <1>1
  <2>2. \A g \in Handlers : g # h => got'[g] = got[g]
    BY <1>0, <1>1
  <2> QED BY <1>c, <1>0, <2>1, <2>2, ReadWire
<1>3. Owns' /\ result' \in [Requests -> {"new", "asked", "failed", "answered"}]
  <2>1. CASE pc'[h] # "sendBody"
    BY <1>0, <1>1, <2>1, OwnEnds DEF Unsent, Expecting
  <2>2. CASE pc'[h] = "sendBody"
    <3>1. \A g \in Handlers : /\ pc'[g] \in Unsent => pc[g] \in Unsent
                              /\ pc'[g] \in Expecting => pc[g] \in Expecting /\ on'[g] = on[g]
      BY <1>0, <1>1, <2>2 DEF Unsent, Expecting
    <3> QED BY <1>0, <1>1, <2>2, <3>1, OwnFrame DEF WireTypes
  <2> QED BY <2>1, <2>2
<1>4. /\ down' \in [Conns -> Seq(Message)] /\ got' \in [Handlers -> Requests \cup {0}]
  <2>1. down[c] # <<>> => Head(down[c]) \in Message /\ Tail(down[c]) \in Seq(Message)
    BY <1>1, FirstOf
  <2> QED BY <1>c, <1>0, <1>1, <2>1 DEF Message
<1> QED BY <1>0, <1>1, <1>2, <1>3, <1>4 DEF WireInv, Wires, Owns, WireTypes, StillExec

(* It reads the body, judges the answer and releases the connection, or the *)
(* body is cut and it closes it.                                           *)
LEMMA AnswerStep ==
  ASSUME WireInv, ConnInv, ExecInv, NEW h \in Handlers, ReadAnswer(h)
  PROVE  WireInv'
<1>0. /\ pc[h] = "body" /\ UNCHANGED <<ws, on, up, asks, got>> /\ StillExec /\ Calling(h)
      /\ down' = [down EXCEPT ![on[h]] = IF @ = <<>> THEN @ ELSE Tail(@)]
      /\ \/ /\ pc'[h] = "release" /\ down[on[h]] # <<>> /\ Head(down[on[h]]).part # "cut"
            /\ Ends(h, Judge(h, Head(down[on[h]])))
         \/ pc'[h] = "close" /\ Ends(h, "failed")
  BY DEF ReadAnswer, ReadBody, execRest, StillExec, Calling, CallerStep
<1>c. PICK c \in Conns : c = on[h]
  BY <1>0, OnlyCaller
<1>1. /\ WireTypes /\ down \in [Conns -> Seq(Message)] /\ down[c] \in Seq(Message) /\ InStep(h)
      /\ \A g \in Handlers : g # h => pc'[g] = pc[g] /\ on'[g] = on[g]
  BY <1>0, OnlyCaller DEF WireInv, WireTypes
<1>2. Wires'
  BY <1>c, <1>0, ReadWire
<1>3. pc[h] \in Unsent \cup Expecting /\ {"release", "close"} \cap (Unsent \cup Expecting) = {}
  BY <1>0 DEF Unsent, Expecting
<1>4. Owns' /\ result' \in [Requests -> {"new", "asked", "failed", "answered"}]
  <2>1. CASE pc'[h] = "release"
    <3>1. down[c] # <<>> /\ Len(down[c]) > 0 /\ Head(down[c]) = down[c][1]
      BY <1>c, <1>0, <1>1, <2>1, FirstOf
    <3>2. /\ got[h] = asks[h] /\ BodyOf(down[c], asks[h]) /\ ~HasRequest(c)
      BY <1>c, <1>0, <1>1, <3>1 DEF InStep, HeadRead, Expecting
    <3>3. Head(down[c]).of = asks[h]
      <4>1. Len(down[c]) = 1
        <5>1. \A n \in Nat : n > 0 /\ n <= 1 => n = 1
          OBVIOUS
        <5>2. Len(down[c]) \in Nat /\ Len(down[c]) <= 1
          BY <1>1, <3>2 DEF BodyOf
        <5> QED BY <3>1, <5>1, <5>2, Zenon
      <4> QED BY <3>1, <3>2, <4>1 DEF BodyOf
    <3>4. Ends(h, "answered")
      BY <1>c, <1>0, <2>1, <3>2, <3>3 DEF Judge
    <3>5. asks[h] \in Requests
      BY <1>0 DEF WireInv, Asks, Expecting
    <3>6. \A d \in Conns : ~Pending(d, asks[h])
      BY <1>c, <1>0, <3>2, <3>5 DEF WireInv, Once, Expecting, Pending
    <3> QED BY <1>0, <1>1, <2>1, <3>4, <3>6, <1>3, OwnEnds
  <2>2. CASE pc'[h] = "close"
    BY <1>0, <1>1, <1>3, <2>2, OwnEnds
  <2> QED BY <1>0, <2>1, <2>2
<1>5. down' \in [Conns -> Seq(Message)]
  <2>1. down[c] # <<>> => Tail(down[c]) \in Seq(Message)
    BY <1>1, FirstOf
  <2> QED BY <1>c, <1>0, <1>1, <2>1
<1> QED BY <1>0, <1>1, <1>2, <1>4, <1>5 DEF WireInv, Wires, Owns, WireTypes, StillExec

(* All of it: what a handler does, and what the other end does.            *)
LEMMA HandlerStepKeeps ==
  ASSUME WireInv, ConnInv, ExecInv, NEW h \in Handlers, Ask(h) \/ HandlerStep(h)
  PROVE  WireInv'
<1>1. CASE Ask(h)
  <2>1. /\ StillExec /\ UNCHANGED <<ws, up, down, on, got>> /\ pc[h] = "ready"
        /\ pc' = [pc EXCEPT ![h] = "pop"]
        /\ \A g \in Handlers : g # h => asks'[g] = asks[g]
    BY <1>1 DEF Ask, StillExec, execVars, Goto, WireInv, WireTypes
  <2>2. pc \in [Goroutines -> Points] /\ \A g \in Handlers : g \in Goroutines
    BY DEF ConnInv, LeaseInv, ConnTypes, LocalTypes, Goroutines, Callers
  <2>3. \A g \in Handlers : Same(g) \/ (Away(g) /\ Away(g)')
    BY <2>1, <2>2 DEF Same, Away, Expecting
  <2> QED BY <1>1, <2>1, <2>3, QuietWire, OwnAsk, HandlersPlaced DEF WireInv, Wires, Owns
<1>2. CASE SendRequest(h)
  BY <1>2, SendWire, OwnSent DEF WireInv, Wires, Owns
<1> QED BY <1>1, <1>2, IdleStep, PassStep, HeadStep, AnswerStep, CloseStep DEF HandlerStep

(* Any step of the executing end: it fits what is under way, executes a    *)
(* request or none, and leaves the sending end alone.                      *)
LEMMA ExecStepKeeps ==
  ASSUME WireInv, ConnInv, ExecInv, NEW c \in Conns,
         \/ Executor(c) \/ KeepAlive(c) \/ ExecPool(c)
         \/ ExecBreak(c) /\ UNCHANGED <<connVars, exchangeVars>>
  PROVE  WireInv' /\ (executed' = executed \/ Executes(c)) /\ UNCHANGED <<connVars, exchangeVars>>
<1>1. Fits(c) /\ UNCHANGED <<connVars, exchangeVars>>
  BY ExecFits DEF Executor, KeepAlive, ExecPool
<1> QED BY <1>1, ExecSuffices, HandlersPlaced DEF Fits

-----------------------------------------------------------------------------
(* The connections: every step is one of ConnectionProofs.                 *)

(* At first every goroutine is at its beginning and every wire is empty.   *)
LEMMA BeginsWell == Init => ConnInv /\ WireInv
<1> SUFFICES ASSUME Init PROVE ConnInv /\ WireInv
  OBVIOUS
<1> USE DEF Init
<1>0. /\ Callers = Handlers /\ Closers = {}
      /\ \A g \in Goroutines : IF g \in Conns THEN pc[g] = "release" /\ on[g] = g
                                              ELSE pc[g] = "ready" /\ on[g] = None
      /\ \A g \in Handlers : g \in Goroutines /\ g \notin Conns
      /\ \A c \in Conns : c \in Goroutines
  BY DEF Callers, Goroutines
<1>1. ConnTypes
  <2>1. SharedTypes
    <3>1. idle \in Seq(Conns) /\ Len(idle) <= PoolMaxSize
      OBVIOUS
    <3> QED BY <3>1 DEF SharedTypes, Statuses
  <2>2. LocalTypes
    BY <1>0 DEF LocalTypes, Goroutines, Points, ReaderPc, CallerPc, Outcomes
  <2> QED BY <2>1, <2>2 DEF ConnTypes
<1>2. OneToken /\ Meets
  BY <1>0 DEF OneToken, Meets, Carries
<1>3. CloseInv /\ Born
  BY <1>0 DEF CloseInv, Holds, Follows, Unborn, Closing, Born
<1>4. UseInv
  <2>1. Uses
    BY <1>0 DEF Uses, Leases
  <2>2. NoLostConnection
    BY <1>0 DEF NoLostConnection, Carries
  <2> QED BY <2>1, <2>2 DEF UseInv
<1>5. WireInv
  <2>1. WireTypes
    BY DEF ExecInit, WireTypes
  <2>2. \A c \in Conns : UpShape(c) /\ DownShape(c) /\ Clean(c)
    BY DEF ExecInit, UpShape, Request, DownShape, Clean, Waiting, Taken, Late
  <2>3. \A h \in Handlers : InStep(h) /\ Asks(h)
    BY <1>0 DEF InStep, Asks, Unsent, Expecting
  <2>4. Once
    BY <1>0 DEF ExecInit, Once, NotYet, Done, Pending, HasRequest, Waiting, Taken, Unsent, Expecting
  <2> QED BY <2>1, <2>2, <2>3, <2>4 DEF WireInv
<1> QED BY <1>1, <1>2, <1>3, <1>4, <1>5 DEF ConnInv, LeaseInv

(* Asking and the messages change nothing else of a connection's state.    *)
LEMMA ConnStepKeeps ==
  ASSUME ConnInv, [Next]_vars
  PROVE  ConnInv'
<1>1. ASSUME NEW h \in Handlers, Ask(h) PROVE ConnInv'
  <2>1. h \in Callers /\ pc[h] = "ready" /\ on[h] = None /\ outcome \in [Callers -> Outcomes]
    BY <1>1 DEF Ask, ConnInv, LeaseInv, ConnTypes, LocalTypes, Callers
  <2>2. /\ pc' = [pc EXCEPT ![h] = "pop"] /\ outcome' \in [Callers -> Outcomes]
        /\ UNCHANGED <<status, ws, connLock, idle, writeConnections, on>>
    BY <1>1, <2>1 DEF Ask, Goto, Outcomes
  <2> QED BY <2>1, <2>2, QuietKeeps DEF Kept
<1>2. ASSUME NEW h \in Handlers, HandlerStep(h) PROVE ConnInv'
  <2>1. h \in Callers /\ Calling(h)
    BY <1>2 DEF HandlerStep, NoConnection, SendRequest, PassChannel, ReadHead, ReadAnswer, CloseWire,
       HandlerRest, Calling, CallerStep, Callers
  <2> QED BY <2>1, CallerKeeps DEF Kept
<1>3. ASSUME NEW c \in Conns, SenderStep(c) \/ BreakWire(c) PROVE ConnInv'
  <2>1. Reading(c)
    BY <1>3 DEF SenderStep, ReceiveMessage, ReaderRest, CloseWire, BreakWire, Reading, ReaderStep
  <2> QED BY <2>1, ReaderKeeps DEF Kept
<1>4. CASE UNCHANGED connVars
  <2>1. outcome' \in [Callers -> Outcomes]
    BY <1>4 DEF connVars, ConnInv, LeaseInv, ConnTypes, LocalTypes
  <2> QED BY <1>4, <2>1, QuietKeeps DEF Kept, connVars
<1>5. ASSUME NEW c \in Conns, Executor(c) \/ KeepAlive(c) \/ ExecPool(c)
                              \/ (ExecBreak(c) /\ UNCHANGED <<connVars, exchangeVars>>)
      PROVE  ConnInv'
  BY <1>4, <1>5 DEF Executor, KeepAlive, ExecPool
<1> QED BY <1>1, <1>2, <1>3, <1>4, <1>5 DEF Next, vars

(* What the sending end keeps of its connections, what the other end keeps *)
(* of its own, and what is on the wire between them: none is inductive for *)
(* the wire without the other two.                                         *)
WholeInv == ConnInv /\ ExecInv /\ WireInv

(* All three hold in every reachable state.                                *)
LEMMA WholeIsInvariant == Spec => []WholeInv
<1>1. Init => ConnInv /\ WireInv
  BY BeginsWell
<1>2. ConnInv /\ WireInv /\ ExecInv /\ [Next]_vars => ConnInv' /\ WireInv'
  <2> SUFFICES ASSUME ConnInv, WireInv, ExecInv, [Next]_vars PROVE WireInv'
    BY ConnStepKeeps
  <2>1. CASE UNCHANGED vars
    BY <2>1 DEF vars, connVars, execVars, exchangeVars, WireInv, WireTypes, UpShape, Request,
       DownShape, Clean, Busy, Open, Early, HasRequest, Hand, InStep, HeadRead, Whole, AnswerOf,
       BodyOf, Asks, Once, NotYet, Done, Pending
  <2> QED BY <2>1, HandlerStepKeeps, ReaderStepKeeps, ExecStepKeeps DEF Next
<1>3. Spec => []ExecInv
  BY ExecIsInvariant
<1> QED BY <1>1, <1>2, <1>3, PTL DEF Spec, WholeInv

-----------------------------------------------------------------------------
(* The theorems.                                                           *)

(* The state has the types of the declarations; at most one answer and one *)
(* request are on a websocket, before it perhaps the body of a refused one.*)
THEOREM TypeCorrect == Spec => []TypeOK
<1>1. WholeInv => TypeOK
  <2> SUFFICES ASSUME WholeInv PROVE TypeOK
    OBVIOUS
  <2>1. ExecTypeOK
    BY DEF WholeInv, ExecInv, ExecTypes, WireInv, WireTypes, UpShape, DownShape, ExecTypeOK
  <2>2. pc \in [Goroutines -> ReaderPc \cup CallerPc]
    BY DEF WholeInv, ConnInv, LeaseInv, ConnTypes, LocalTypes, Goroutines
  <2> QED BY <2>1, <2>2
          DEF WholeInv, ConnInv, LeaseInv, ConnTypes, SharedTypes, WireInv, WireTypes, TypeOK
<1> QED BY <1>1, WholeIsInvariant, PTL

(* A connection that waits for its next user is clean.                     *)
THEOREM WireIsClean == Spec => []CleanWire
<1>1. WholeInv => CleanWire
  <2> SUFFICES ASSUME WholeInv, NEW c \in Conns, status[c] = "IDLE", ws[c] = "open"
               PROVE  /\ down[c] = <<>>
                      /\ execWs[c] = "open" => \/ execPc[c] \in {"idle", "read"} /\ up[c] = <<>>
                                               \/ execPc[c] \in {"remove", "close"}
    BY DEF CleanWire
  <2>1. ~Busy(c)
    <3>1. ASSUME NEW h \in Handlers, on[h] = c, pc[h] \in Expecting \cup {"close", "aborted"}
          PROVE  FALSE
      <4>1. h \in Callers /\ Leases(h)
        BY <3>1 DEF Callers, Leases, Expecting
      <4> QED BY <3>1, <4>1 DEF WholeInv, ConnInv, UseInv, Uses
    <3> QED BY <3>1 DEF Busy
  <2>2. up[c] \in Seq(Message) /\ down[c] \in Seq(Message)
    BY DEF WholeInv, WireInv, WireTypes
  <2>3. Clean(c)
    BY DEF WholeInv, WireInv
  <2> QED BY <2>1, <2>2, <2>3, EmptySeq DEF Clean, Open, Waiting, Gone
<1> QED BY <1>1, WholeIsInvariant, PTL

(* A step of a handler asks a request or ends one, or none.                *)
LEMMA HandlerPromised ==
  ASSUME WholeInv, WireInv', NEW h \in Handlers, Ask(h) \/ HandlerStep(h)
  PROVE  executed' = executed /\ (result' = result \/ \E n \in Requests :
           Promise!Ask(n) \/ Promise!Succeed(n) \/ Promise!Fail(n))
<1>0. executed' = executed
  BY DEF Ask, HandlerStep, NoConnection, SendRequest, PassChannel, ReadHead, ReadAnswer, CloseWire,
     HandlerRest, execRest, execVars
<1>1. CASE Ask(h)
  BY <1>0, <1>1 DEF Ask, Promise!Ask
<1>2. ASSUME NEW how \in {"failed", "answered", "mixed"}, Ends(h, how),
             pc[h] \in Unsent \cup Expecting
      PROVE  \E n \in Requests : Promise!Succeed(n) \/ Promise!Fail(n)
  <2>1. /\ asks[h] \in Requests /\ result[asks[h]] = "asked"
        /\ result \in [Requests -> {"new", "asked", "failed", "answered"}]
        /\ result' \in [Requests -> {"new", "asked", "failed", "answered"}]
    BY <1>2 DEF WholeInv, WireInv, Asks, WireTypes
  <2>2. result' = [result EXCEPT ![asks[h]] = how] /\ result'[asks[h]] = how
    BY <1>2, <2>1 DEF Ends
  <2> QED BY <1>0, <2>1, <2>2 DEF Promise!Succeed, Promise!Fail
<1>3. CASE NoConnection(h)
  BY <1>0, <1>2, <1>3 DEF NoConnection, PopTimeout, Take, Unsent
<1>4. CASE SendRequest(h)
  BY <1>0, <1>2, <1>4 DEF SendRequest, WriteRequest, Unsent
<1>5. CASE PassChannel(h)
  BY <1>0, <1>2, <1>5
     DEF PassChannel, SendHeaderChannel, SendBodyChannel, SendChannel, Expecting
<1>6. CASE ReadHead(h)
  BY <1>0, <1>2, <1>6 DEF ReadHead, ReadHeader, Expecting
<1>7. CASE ReadAnswer(h)
  BY <1>0, <1>2, <1>7 DEF ReadAnswer, ReadBody, Judge, Expecting
<1>8. CASE CloseWire(h) \/ HandlerRest(h)
  BY <1>0, <1>8 DEF CloseWire, HandlerRest, exchangeVars
<1> QED BY <1>1, <1>3, <1>4, <1>5, <1>6, <1>7, <1>8 DEF HandlerStep

(* A request is handed to a backend once, and not after its success.       *)
LEMMA ExecPromised ==
  ASSUME WholeInv, NEW c \in Conns, result' = result, executed' = executed \/ Executes(c)
  PROVE  executed' = executed \/ \E n \in Requests : Promise!Execute(n)
<1>1. CASE Executes(c)
  <2>1. Hand(c) \in Requests /\ Pending(c, Hand(c))
    BY <1>1, HandIs DEF Executes, Pending, WholeInv
  <2>2. ~Done(Hand(c)) /\ result[Hand(c)] \in {"asked", "failed"}
    BY <2>1 DEF WholeInv, WireInv, Once
  <2> QED BY <1>1, <2>1, <2>2 DEF Executes, Done, Promise!Execute
<1> QED BY <1>1

(* Every request is executed at most once, with its own body and never     *)
(* after it succeeded, and ends once, with the answer to it or as failed.  *)
THEOREM PromiseKept == Spec => KeepsPromise
<1>1. Init => Promise!Init
  BY DEF Init, ExecInit, Promise!Init
<1>2. WholeInv /\ WholeInv' /\ [Next]_vars => [Promise!Next]_(Promise!replyVars)
  <2> SUFFICES ASSUME WholeInv, WholeInv', [Next]_vars
               PROVE  Promise!Next \/ (result' = result /\ executed' = executed)
    BY DEF Promise!replyVars
  <2>1. ASSUME NEW h \in Handlers, Ask(h) \/ HandlerStep(h)
        PROVE  Promise!Next \/ (result' = result /\ executed' = executed)
    BY <2>1, HandlerPromised DEF WholeInv, Promise!Next
  <2>2. ASSUME NEW c \in Conns, SenderStep(c) \/ BreakWire(c)
        PROVE  result' = result /\ executed' = executed
    BY <2>2 DEF SenderStep, ReceiveMessage, ReaderRest, CloseWire, BreakWire, execRest, execVars,
       exchangeVars
  <2>3. ASSUME NEW c \in Conns, Executor(c) \/ KeepAlive(c) \/ ExecPool(c)
                                \/ (ExecBreak(c) /\ UNCHANGED <<connVars, exchangeVars>>)
        PROVE  Promise!Next \/ (result' = result /\ executed' = executed)
    BY <2>3, ExecStepKeeps, ExecPromised DEF WholeInv, Promise!Next, exchangeVars
  <2>4. CASE UNCHANGED vars
    BY <2>4 DEF vars, execVars, exchangeVars
  <2> QED BY <2>1, <2>2, <2>3, <2>4 DEF Next
<1> QED BY <1>1, <1>2, WholeIsInvariant, PTL DEF Spec, KeepsPromise, Promise!Spec
=============================================================================
