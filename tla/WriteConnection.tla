--------------------------- MODULE WriteConnection ---------------------------
(***************************************************************************)
(* A WriteConnection of package common: one websocket over which the local *)
(* side sends HTTP requests and reads the answers.  Every connection has a *)
(* reader goroutine (Start); callers (Request handlers and the ping of     *)
(* getConnectionStatus) take it from the channel pool.idle, use it and     *)
(* give it back.                                                           *)
(*                                                                         *)
(* The module is a library of actions: it has the state of the connections *)
(* and of the part of the pool they call (Offer, Remove), and one action   *)
(* per step of a goroutine that another goroutine can observe.  The pool   *)
(* modules extend it with their own operations and the specification.      *)
(***************************************************************************)
EXTENDS Naturals, Sequences, FiniteSets

CONSTANTS
  Conns,        \* the WriteConnection objects, and their reader goroutines
  Handlers,     \* the net/http goroutines that run Request
  Pingers,      \* the goroutines that run getConnectionStatus
  Closers,      \* the goroutines of the pool that close connections
  PoolMaxSize,  \* the capacity of the channel pool.idle
  None

Callers    == Handlers \cup Pingers
Goroutines == Conns \cup Callers \cup Closers

ASSUME ConnAssumption ==
  /\ PoolMaxSize \in Nat \ {0}
  /\ None \notin Goroutines
  /\ Conns \cap (Callers \cup Closers) = {}
  /\ Callers \cap Closers = {}
  /\ Handlers \cap Pingers = {}

VARIABLES
  status,            \* connection.Status; "ABSENT" before it is created
  ws,                \* "open", "broken" by the network, or "closed" by us,
                     \* which closes nextResponse at the same point
  connLock,          \* the goroutine that holds connection.lock
  idle,              \* the channel pool.idle
  writeConnections,  \* the list pool.writeConnections
  poolLock,          \* the goroutine that holds pool.lock
  pc,                \* where each goroutine is
  on,                \* the connection each goroutine works on
  outcome            \* what a caller's call returned, once it is "ready"

connVars == <<status, ws, connLock, idle, writeConnections, poolLock,
              pc, on, outcome>>

Statuses == {"ABSENT", "CONNECTING", "IDLE", "BUSY", "CLOSED"}

ReaderPc == {"unborn", "release", "offer", "loop", "read", "check", "await",
             "serve", "remove", "close", "closing", "end"}

CallerPc == {"ready", "lock", "pop", "inspect", "take", "write",
             "sendHeader", "header", "sendBody", "body", "ping", "pong",
             "release", "offer", "close", "closing", "remove", "aborted"}

Outcomes == {"none", "ok", "error", "panic", "aborted", "killed", "connected",
             "disconnected"}

ConnInit ==
  /\ status = [c \in Conns |-> "ABSENT"]
  /\ ws = [c \in Conns |-> "open"]
  /\ connLock = [c \in Conns |-> None]
  /\ idle = <<>>
  /\ writeConnections = {}
  /\ poolLock = None
  /\ pc = [g \in Goroutines |-> IF g \in Conns THEN "unborn" ELSE "ready"]
  /\ on = [g \in Goroutines |-> IF g \in Conns THEN g ELSE None]
  /\ outcome = [g \in Callers |-> "none"]

-----------------------------------------------------------------------------
(* Small steps the actions share.                                          *)

Goto(g, label) == pc' = [pc EXCEPT ![g] = label]

(* A reader goes on to its loop; a caller returns and forgets the connection. *)
Return(g) ==
  /\ Goto(g, IF g \in Conns THEN "loop" ELSE "ready")
  /\ on' = [on EXCEPT ![g] = IF g \in Conns THEN g ELSE None]

(* CloseWithOutLock: nextResponse and the websocket are closed first ...   *)
BeginClose(g, c) ==
  /\ ws' = [ws EXCEPT ![c] = "closed"]
  /\ connLock' = [connLock EXCEPT ![c] = g]
  /\ UNCHANGED status

(* ... and the deferred assignment of Status comes last, under the lock.   *)
EndClose(c) ==
  /\ status' = [status EXCEPT ![c] = "CLOSED"]
  /\ connLock' = [connLock EXCEPT ![c] = None]
  /\ UNCHANGED ws

-----------------------------------------------------------------------------
(* Taking, releasing and closing a connection.                             *)

(* Mutant of Release: without the check that the connection was closed.    *)
ReleaseUnchecked(g) ==
  /\ pc[g] = "release" /\ connLock[on[g]] = None
  /\ status' = [status EXCEPT ![on[g]] = "IDLE"]
  /\ connLock' = [connLock EXCEPT ![on[g]] = g]
  /\ Goto(g, "offer")
  /\ UNCHANGED <<on, ws, idle, writeConnections, poolLock, outcome>>

(* Release marks the connection IDLE under its lock and offers it; a       *)
(* connection that was closed meanwhile is left alone.                     *)
Release(g) ==
  LET c == on[g] IN
  /\ pc[g] = "release"
  /\ connLock[c] = None
  /\ \/ /\ status[c] = "CLOSED"
        /\ Return(g)
        /\ UNCHANGED <<status, connLock>>
     \/ /\ status[c] # "CLOSED"
        /\ status' = [status EXCEPT ![c] = "IDLE"]
        /\ connLock' = [connLock EXCEPT ![c] = g]
        /\ Goto(g, "offer")
        /\ UNCHANGED on
  /\ UNCHANGED <<ws, idle, writeConnections, poolLock, outcome>>

(* Mutants of Offer: a channel without a bound, a send that gives up when  *)
(* the channel is full, and a request that is treated as failed after      *)
(* ProxyRequest gave its connection back.                                  *)
OfferUnbounded(g) ==
  /\ pc[g] = "offer"
  /\ idle' = Append(idle, on[g])
  /\ connLock' = [connLock EXCEPT ![on[g]] = None]
  /\ Return(g)
  /\ UNCHANGED <<status, ws, writeConnections, poolLock, outcome>>

OfferOrDrop(g) ==
  /\ pc[g] = "offer"
  /\ idle' = IF Len(idle) < PoolMaxSize THEN Append(idle, on[g]) ELSE idle
  /\ connLock' = [connLock EXCEPT ![on[g]] = None]
  /\ Return(g)
  /\ UNCHANGED <<status, ws, writeConnections, poolLock, outcome>>

OfferThenClose(g) ==
  /\ pc[g] = "offer" /\ Len(idle) < PoolMaxSize
  /\ idle' = Append(idle, on[g])
  /\ connLock' = [connLock EXCEPT ![on[g]] = None]
  /\ IF g \in Handlers THEN Goto(g, "close") /\ UNCHANGED on ELSE Return(g)
  /\ UNCHANGED <<status, ws, writeConnections, poolLock, outcome>>

(* Offer sends on the bounded channel, and blocks while it is full with    *)
(* connection.lock still held.                                             *)
Offer(g) ==
  /\ pc[g] = "offer"
  /\ Len(idle) < PoolMaxSize
  /\ idle' = Append(idle, on[g])
  /\ connLock' = [connLock EXCEPT ![on[g]] = None]
  /\ Return(g)
  /\ UNCHANGED <<status, ws, writeConnections, poolLock, outcome>>

(* Mutant of Close: without connection.lock.                               *)
CloseUnlocked(g) ==
  /\ pc[g] = "close"
  /\ IF status[on[g]] = "CLOSED"
       THEN /\ Goto(g, IF g \in Conns THEN "end" ELSE "remove")
            /\ UNCHANGED <<status, ws, connLock>>
       ELSE BeginClose(g, on[g]) /\ Goto(g, "closing")
  /\ UNCHANGED <<idle, writeConnections, poolLock, on, outcome>>

(* Close, by the reader at its end or by a handler after an error.         *)
Close(g) ==
  LET c == on[g] IN
  /\ pc[g] = "close"
  /\ connLock[c] = None
  /\ \/ /\ status[c] = "CLOSED"
        /\ Goto(g, IF g \in Conns THEN "end" ELSE "remove")
        /\ UNCHANGED <<status, ws, connLock>>
     \/ /\ status[c] # "CLOSED"
        /\ BeginClose(g, c)
        /\ Goto(g, "closing")
  /\ UNCHANGED <<idle, writeConnections, poolLock, on, outcome>>

Closed(g) ==
  /\ pc[g] = "closing"
  /\ EndClose(on[g])
  /\ Goto(g, IF g \in Conns THEN "end" ELSE "remove")
  /\ UNCHANGED <<idle, writeConnections, poolLock, on, outcome>>

(* Mutant of Remove: the reader ends without Close.                        *)
RemoveOnly(g) ==
  /\ pc[g] = "remove" /\ poolLock = None
  /\ writeConnections' = writeConnections \ {on[g]}
  /\ IF g \in Conns THEN Goto(g, "end") /\ UNCHANGED on ELSE Return(g)
  /\ UNCHANGED <<status, ws, connLock, idle, poolLock, outcome>>

(* Remove drops the connection from the pool's list under pool.lock.  The  *)
(* reader removes before it closes, a handler closes before it removes.    *)
Remove(g) ==
  /\ pc[g] = "remove"
  /\ poolLock = None
  /\ writeConnections' = writeConnections \ {on[g]}
  /\ IF g \in Conns THEN Goto(g, "close") /\ UNCHANGED on ELSE Return(g)
  /\ UNCHANGED <<status, ws, connLock, idle, poolLock, outcome>>

-----------------------------------------------------------------------------
(* GetValueWithTimeout and Take.  The actions that end the call leave      *)
(* poolLock to the pool: the client holds it during the call, the server   *)
(* does not.                                                               *)

(* Mutant of Pop: the connection stays at the head of the queue.           *)
PopPeek(g) ==
  /\ pc[g] = "pop" /\ idle # <<>>
  /\ on' = [on EXCEPT ![g] = Head(idle)]
  /\ Goto(g, "inspect")
  /\ UNCHANGED <<status, ws, connLock, idle, writeConnections, poolLock, outcome>>

Pop(g) ==
  /\ pc[g] = "pop"
  /\ idle # <<>>
  /\ on' = [on EXCEPT ![g] = Head(idle)]
  /\ idle' = Tail(idle)
  /\ Goto(g, "inspect")
  /\ UNCHANGED <<status, ws, connLock, writeConnections, poolLock, outcome>>

(* The timer may win even when a connection is ready.                      *)
PopTimeout(g) ==
  /\ pc[g] = "pop"
  /\ Return(g)
  /\ UNCHANGED <<status, ws, connLock, idle, writeConnections, outcome>>

(* The status is read again, without the lock: a connection that is not    *)
(* IDLE is dropped and the wait goes on.                                   *)
Inspect(g) ==
  /\ pc[g] = "inspect"
  /\ IF status[on[g]] = "IDLE"
       THEN Goto(g, "take") /\ UNCHANGED on
       ELSE Goto(g, "pop") /\ on' = [on EXCEPT ![g] = None]
  /\ UNCHANGED <<status, ws, connLock, idle, writeConnections, poolLock, outcome>>

Take(g) ==
  LET c == on[g] IN
  /\ pc[g] = "take"
  /\ connLock[c] = None
  /\ \/ /\ status[c] \in {"CLOSED", "BUSY"}
        /\ Return(g)
        /\ UNCHANGED status
     \/ /\ status[c] \notin {"CLOSED", "BUSY"}
        /\ status' = [status EXCEPT ![c] = "BUSY"]
        /\ Goto(g, IF g \in Handlers THEN "write" ELSE "ping")
        /\ UNCHANGED on
  /\ UNCHANGED <<ws, connLock, idle, writeConnections, outcome>>

-----------------------------------------------------------------------------
(* ProxyRequest: write the request, then twice hand the reader a channel   *)
(* and read what it passes back, the header and then the body.             *)

Fail(g) == Goto(g, "close") /\ outcome' = [outcome EXCEPT ![g] = "error"]

(* Request and body are written; a write can fail at any time, and does    *)
(* once the connection is closed on this side.                             *)
WriteRequest(g) ==
  /\ pc[g] = "write"
  /\ \/ ws[on[g]] # "closed" /\ Goto(g, "sendHeader") /\ UNCHANGED outcome
     \/ Fail(g)
  /\ UNCHANGED <<status, ws, connLock, idle, writeConnections, poolLock, on>>

(* nextResponse <- channel meets the reader's receive; once nextResponse   *)
(* is closed the send panics, and net/http recovers the handler.           *)
SendChannel(g, from, to) ==
  LET c == on[g] IN
  /\ pc[g] = from
  /\ \/ /\ ws[c] = "closed"
        /\ Return(g)
        /\ outcome' = [outcome EXCEPT ![g] = "panic"]
     \/ /\ ws[c] # "closed"
        /\ pc[c] = "await"
        /\ pc' = [pc EXCEPT ![g] = to, ![c] = "serve"]
        /\ UNCHANGED <<on, outcome>>
  /\ UNCHANGED <<status, ws, connLock, idle, writeConnections, poolLock>>

SendHeaderChannel(g) == SendChannel(g, "sendHeader", "header")
SendBodyChannel(g)   == SendChannel(g, "sendBody", "body")

(* The message is read, well or not; either way the channel is closed,     *)
(* which frees the reader.  WriteHeader panics on a status below 100, which *)
(* net/http's client accepts from a backend: net/http recovers the handler, *)
(* and nobody releases or closes the connection any more.                  *)
ReadHeader(g) ==
  /\ pc[g] = "header"
  /\ \/ /\ pc' = [pc EXCEPT ![g] = "sendBody", ![on[g]] = "loop"]
        /\ UNCHANGED outcome
     \/ /\ pc' = [pc EXCEPT ![g] = "close", ![on[g]] = "loop"]
        /\ outcome' = [outcome EXCEPT ![g] = "error"]
     \/ /\ pc' = [pc EXCEPT ![g] = "aborted", ![on[g]] = "loop"]
        /\ outcome' = [outcome EXCEPT ![g] = "aborted"]
  /\ UNCHANGED <<status, ws, connLock, idle, writeConnections, poolLock, on>>

ReadBody(g) ==
  /\ pc[g] = "body"
  /\ \/ /\ pc' = [pc EXCEPT ![g] = "release", ![on[g]] = "loop"]
        /\ outcome' = [outcome EXCEPT ![g] = "ok"]
     \/ /\ pc' = [pc EXCEPT ![g] = "close", ![on[g]] = "loop"]
        /\ outcome' = [outcome EXCEPT ![g] = "error"]
  /\ UNCHANGED <<status, ws, connLock, idle, writeConnections, poolLock, on>>

-----------------------------------------------------------------------------
(* SendPingMessage: write a ping and wait for the pong or for 15 seconds;  *)
(* the deferred Release gives the connection back in every case.           *)

PingDone(g, answer) ==
  /\ Goto(g, "release")
  /\ outcome' = [outcome EXCEPT ![g] = answer]

(* Mutant of WritePing: it returns before Release is deferred.             *)
WritePingKeep(g) ==
  /\ pc[g] = "ping"
  /\ \/ ws[on[g]] # "closed" /\ Goto(g, "pong") /\ UNCHANGED <<on, outcome>>
     \/ Return(g) /\ outcome' = [outcome EXCEPT ![g] = "disconnected"]
  /\ UNCHANGED <<status, ws, connLock, idle, writeConnections, poolLock>>

WritePing(g) ==
  /\ pc[g] = "ping"
  /\ \/ ws[on[g]] # "closed" /\ Goto(g, "pong") /\ UNCHANGED outcome
     \/ PingDone(g, "disconnected")
  /\ UNCHANGED <<status, ws, connLock, idle, writeConnections, poolLock, on>>

(* The pong handler runs inside the reader's NextReader.                   *)
PongReceived(g) ==
  /\ pc[g] = "pong"
  /\ ws[on[g]] = "open" /\ pc[on[g]] = "read"
  /\ PingDone(g, "connected")
  /\ UNCHANGED <<status, ws, connLock, idle, writeConnections, poolLock, on>>

PongTimeout(g) ==
  /\ pc[g] = "pong"
  /\ PingDone(g, "disconnected")
  /\ UNCHANGED <<status, ws, connLock, idle, writeConnections, poolLock, on>>

-----------------------------------------------------------------------------
(* The reader goroutine: the loop of Start.                                *)

ReaderGoto(c, label) ==
  /\ Goto(c, label)
  /\ UNCHANGED <<status, ws, connLock, idle, writeConnections, poolLock, on, outcome>>

Loop(c) ==
  /\ pc[c] = "loop"
  /\ ReaderGoto(c, IF status[c] = "CLOSED" THEN "remove" ELSE "read")

(* NextReader returns a message of the peer ...                            *)
Receive(c) ==
  /\ pc[c] = "read" /\ ws[c] = "open"
  /\ ReaderGoto(c, "check")

(* ... or fails, because of the network or because we closed.              *)
ReadError(c) ==
  /\ pc[c] = "read" /\ ws[c] # "open"
  /\ ReaderGoto(c, "remove")

(* A message nobody asked for ends the connection.                         *)
Check(c) ==
  /\ pc[c] = "check"
  /\ ReaderGoto(c, IF status[c] # "BUSY" THEN "remove" ELSE "await")

(* Mutant of AwaitNil: without the test for nil the reader blocks for ever *)
(* on the nil channel.                                                     *)
AwaitNilUse(c) ==
  /\ pc[c] = "await" /\ ws[c] = "closed"
  /\ ReaderGoto(c, "serve")

(* Receiving from the closed nextResponse yields nil.                      *)
AwaitNil(c) ==
  /\ pc[c] = "await" /\ ws[c] = "closed"
  /\ ReaderGoto(c, "remove")

(* The network breaks the websocket of a connection in use.                *)
Break(c) ==
  /\ status[c] # "ABSENT" /\ ws[c] = "open"
  /\ ws' = [ws EXCEPT ![c] = "broken"]
  /\ UNCHANGED <<status, connLock, idle, writeConnections, poolLock, pc, on, outcome>>

-----------------------------------------------------------------------------
(* What a goroutine does once it runs.  Arrivals (a new call, a message of *)
(* the peer, a broken network) are not part of it.                         *)

ReaderStep(c) ==
  \/ Release(c) \/ Offer(c) \/ Loop(c) \/ ReadError(c) \/ Check(c)
  \/ AwaitNil(c) \/ Remove(c) \/ Close(c) \/ Closed(c)

(* The part of a caller's step that touches pool.lock only in Remove.      *)
CallerStep(g) ==
  \/ Pop(g) \/ Inspect(g)
  \/ WriteRequest(g) \/ SendHeaderChannel(g) \/ ReadHeader(g)
  \/ SendBodyChannel(g) \/ ReadBody(g)
  \/ WritePing(g) \/ PongReceived(g) \/ PongTimeout(g)
  \/ Release(g) \/ Offer(g) \/ Close(g) \/ Closed(g) \/ Remove(g)

-----------------------------------------------------------------------------
(* Properties of the connections of any pool.                              *)

(* A goroutine that may offer its connection to pool.idle, or has taken it *)
(* from there.                                                             *)
Carries(g) ==
  IF g \in Conns THEN pc[g] \in {"unborn", "release", "offer"}
                 ELSE g \in Callers /\ on[g] # None

(* A caller between a successful Take and the end of its Release or Close: *)
(* it writes to the websocket and may read from it.  An aborted handler is *)
(* gone and never ends its lease.                                          *)
Leases(g) ==
  pc[g] \in {"write", "sendHeader", "header", "sendBody", "body",
             "ping", "pong", "release", "close", "aborted"}

(* The channel pool.idle never holds a connection twice, nor one that      *)
(* somebody carries, and a connection has one carrier.                     *)
OneToken ==
  /\ \A i, j \in DOMAIN idle : idle[i] = idle[j] => i = j
  /\ \A g \in Goroutines : Carries(g) => \A i \in DOMAIN idle : idle[i] # on[g]
  /\ \A g, h \in Goroutines : Carries(g) /\ Carries(h) /\ on[g] = on[h] => g = h

(* A websocket has one writer: between Take and Release or Close, two      *)
(* Request handlers or pings never work on the same connection, whatever   *)
(* Clean, Shutdown and the reader do meanwhile.                            *)
ExclusiveLease ==
  \A g, h \in Callers :
    Leases(g) /\ Leases(h) /\ on[g] = on[h] => g = h

(* No connection is lost but by the panic of WriteHeader: one that is IDLE *)
(* and not being closed is in pool.idle or on its way to or from there,    *)
(* and one that is BUSY has a caller that will release or close it, or one *)
(* that was aborted with it.                                               *)
NoLostConnection ==
  \A c \in Conns : ws[c] # "closed" =>
    /\ status[c] = "IDLE" =>
         \/ \E i \in DOMAIN idle : idle[i] = c
         \/ \E g \in Goroutines : Carries(g) /\ on[g] = c
    /\ status[c] = "BUSY" => \E g \in Callers : Leases(g) /\ on[g] = c

Closing(g) == pc[g] \in {"closing", "cleanClosing", "shutdownClosing"}

(* nextResponse is closed once, or close() would panic, and in the cleaner *)
(* bring the server down: while one goroutine closes a connection it holds *)
(* the lock and no other closes it, and afterwards the status is CLOSED.   *)
CloseOnce ==
  /\ \A g \in Goroutines : Closing(g) =>
       connLock[on[g]] = g /\ status[on[g]] # "CLOSED"
  /\ \A c \in Conns : ws[c] = "closed" /\ status[c] # "CLOSED" =>
       \E g \in Goroutines : Closing(g) /\ on[g] = c

(* The pools implement ConnectionLease.  A connection dies when its        *)
(* websocket is closed, before its Status says so.                         *)
Abstract == INSTANCE ConnectionLease WITH
  Users  <- Callers,
  live   <- {c \in Conns : status[c] # "ABSENT" /\ ws[c] # "closed"},
  gone   <- {c \in Conns : ws[c] = "closed"},
  leases <- {<<g, on[g]>> :
              g \in {h \in Callers : Leases(h) /\ on[h] \in Conns /\ ws[on[h]] # "closed"}}

(* Every behaviour of a pool is one of the abstract lease: Take grants a   *)
(* live connection nobody has, Release returns it, and whoever closes it,  *)
(* its reader, a handler, Clean or Shutdown, does so once and for good.    *)
ImplementsLease == Abstract!Spec
=============================================================================
