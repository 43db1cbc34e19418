------------------------------ MODULE ClientPool ------------------------------
(***************************************************************************)
(* The pool of write connections of the client: the connections of         *)
(* WriteConnection, the Request handlers of the local HTTP server, the     *)
(* goroutine of Pool.Start that opens connections at every tick, and the   *)
(* two that shut the pool down, that goroutine when the server rejects the *)
(* cluster key and the main goroutine at a signal.                         *)
(***************************************************************************)
EXTENDS WriteConnection, Integers

CONSTANTS
  Connector,  \* the goroutine of Pool.Start
  Main,       \* the goroutine that waits for the signal
  IdleSize    \* Config.PoolIdleSize

ASSUME ClientAssumption ==
  /\ Closers = {Connector, Main}
  /\ Connector # Main
  /\ Pingers = {}
  /\ IdleSize \in Nat

VARIABLES
  done,      \* the channel pool.done is closed
  killed,    \* Client.killed
  toCreate,  \* the write connections the running connector has still to open
  todo       \* the connections a Shutdown has still to close

clientVars == <<done, killed, toCreate, todo>>
vars == <<connVars, clientVars>>

CloserPc == {"ready", "dial", "create", "wait", "serving", "stop",
             "shutdown", "shutdownClosing", "mark", "panic", "exit"}

Init ==
  /\ ConnInit
  /\ done = FALSE /\ killed = FALSE
  /\ toCreate = 0
  /\ todo = [g \in Closers |-> {}]

(* The process ends when main returns or a goroutine panics.               *)
Running == pc[Main] # "exit" /\ \A g \in Closers : pc[g] # "panic"

-----------------------------------------------------------------------------
(* startInternal: the connector runs with pool.lock held until it has      *)
(* opened what was missing, or a dial has failed.                          *)

(* The write connections that Size counts as idle.                         *)
Size == Cardinality({c \in writeConnections : status[c] \in {"IDLE", "CONNECTING"}})

(* Mutant of ConnectionsToCreate: without the maximum.                     *)
ConnectionsToCreateUnbounded(nIdle, nTotal) == IdleSize - nIdle

ConnectionsToCreate(nIdle, nTotal) ==
  IF nTotal + (IdleSize - nIdle) > PoolMaxSize THEN PoolMaxSize - nTotal
                                               ELSE IdleSize - nIdle

(* At the start, and at a tick.  A tick that was already pending may be    *)
(* preferred to done, even after Shutdown.                                 *)
ConnectorStart ==
  /\ pc[Connector] \in {"ready", "wait"}
  /\ poolLock = None
  /\ poolLock' = Connector
  /\ toCreate' = ConnectionsToCreate(Size, Cardinality(writeConnections))
  /\ Goto(Connector, "dial")
  /\ UNCHANGED <<status, ws, connLock, idle, writeConnections, on, outcome>>
  /\ UNCHANGED <<done, killed, todo>>

(* A dial fails, or the server answers that the key is invalid; connector  *)
(* gives up and releases pool.lock.                                        *)
DialFailed ==
  /\ pc[Connector] = "dial" \/ (pc[Connector] = "create" /\ toCreate > 0)
  /\ poolLock' = None
  /\ toCreate' = 0
  /\ \E next \in {"wait", "stop"} : Goto(Connector, next)
  /\ UNCHANGED <<status, ws, connLock, idle, writeConnections, on, outcome>>
  /\ UNCHANGED <<done, killed, todo>>

(* The missing read connections are opened first.                          *)
ReadsConnected ==
  /\ pc[Connector] = "dial"
  /\ Goto(Connector, "create")
  /\ UNCHANGED <<status, ws, connLock, idle, writeConnections, poolLock, on, outcome,
                 clientVars>>

(* Nobody sees a connection before its dial has succeeded, since pool.lock *)
(* is held; then its reader starts.                                        *)
Connect(c) ==
  /\ pc[Connector] = "create" /\ toCreate > 0
  /\ pc[c] = "unborn"
  /\ status' = [status EXCEPT ![c] = "CONNECTING"]
  /\ writeConnections' = writeConnections \cup {c}
  /\ toCreate' = toCreate - 1
  /\ Goto(c, "release")
  /\ UNCHANGED <<ws, connLock, idle, poolLock, on, outcome, done, killed, todo>>

ConnectorEnd ==
  /\ pc[Connector] = "create" /\ toCreate <= 0
  /\ poolLock' = None
  /\ Goto(Connector, "wait")
  /\ UNCHANGED <<status, ws, connLock, idle, writeConnections, on, outcome, clientVars>>

ConnectorStop ==
  /\ pc[Connector] = "wait" /\ done
  /\ Goto(Connector, "exit")
  /\ UNCHANGED <<status, ws, connLock, idle, writeConnections, poolLock, on, outcome,
                 clientVars>>

(* Client.Start goes on to serve HTTP when the first startInternal, which  *)
(* it calls itself, has returned.                                          *)
Serve ==
  /\ pc[Main] = "ready" /\ pc[Connector] \in {"wait", "exit"}
  /\ Goto(Main, "serving")
  /\ UNCHANGED <<status, ws, connLock, idle, writeConnections, poolLock, on, outcome,
                 clientVars>>

-----------------------------------------------------------------------------
(* Shutdown.                                                               *)

Signal ==
  /\ pc[Main] = "serving"
  /\ Goto(Main, "stop")
  /\ UNCHANGED <<status, ws, connLock, idle, writeConnections, poolLock, on, outcome,
                 clientVars>>

(* close(pool.done) panics the second time.                                *)
ShutdownStart(g) ==
  /\ pc[g] = "stop" /\ poolLock = None
  /\ \/ /\ done
        /\ Goto(g, "panic")
        /\ UNCHANGED <<poolLock, done, todo>>
     \/ /\ ~done
        /\ poolLock' = g
        /\ done' = TRUE
        /\ todo' = [todo EXCEPT ![g] = writeConnections]
        /\ Goto(g, "shutdown")
  /\ UNCHANGED <<status, ws, connLock, idle, writeConnections, on, outcome>>
  /\ UNCHANGED <<killed, toCreate>>

ShutdownConnection(g, c) ==
  /\ pc[g] = "shutdown" /\ c \in todo[g]
  /\ connLock[c] = None
  /\ todo' = [todo EXCEPT ![g] = @ \ {c}]
  /\ IF status[c] = "CLOSED"
       THEN UNCHANGED <<status, ws, connLock, on, pc>>
       ELSE /\ BeginClose(g, c)
            /\ on' = [on EXCEPT ![g] = c]
            /\ Goto(g, "shutdownClosing")
  /\ UNCHANGED <<idle, writeConnections, poolLock, outcome, done, killed, toCreate>>

ShutdownClosed(g) ==
  /\ pc[g] = "shutdownClosing"
  /\ EndClose(on[g])
  /\ on' = [on EXCEPT ![g] = None]
  /\ Goto(g, "shutdown")
  /\ UNCHANGED <<idle, writeConnections, poolLock, outcome, clientVars>>

ShutdownEnd(g) ==
  /\ pc[g] = "shutdown" /\ todo[g] = {}
  /\ writeConnections' = {}
  /\ poolLock' = None
  /\ Goto(g, IF g = Main THEN "exit" ELSE "mark")
  /\ UNCHANGED <<status, ws, connLock, idle, on, outcome, clientVars>>

(* Only after Shutdown does startInternal mark the client as killed.       *)
Kill ==
  /\ pc[Connector] = "mark"
  /\ killed' = TRUE
  /\ Goto(Connector, "wait")
  /\ UNCHANGED <<status, ws, connLock, idle, writeConnections, poolLock, on, outcome>>
  /\ UNCHANGED <<done, toCreate, todo>>

-----------------------------------------------------------------------------
(* Request.  GetIdleWriteConnection waits with pool.lock held.             *)

Request(h) ==
  /\ pc[h] = "ready" /\ pc[Main] # "ready"
  /\ IF killed
       THEN outcome' = [outcome EXCEPT ![h] = "killed"] /\ UNCHANGED pc
       ELSE Goto(h, "lock") /\ outcome' = [outcome EXCEPT ![h] = "error"]
  /\ UNCHANGED <<status, ws, connLock, idle, writeConnections, poolLock, on, clientVars>>

LockPool(h) ==
  /\ pc[h] = "lock" /\ poolLock = None
  /\ poolLock' = h
  /\ Goto(h, "pop")
  /\ UNCHANGED <<status, ws, connLock, idle, writeConnections, on, outcome>>

(* Mutant of ClientPopTimeout: an early return without the unlock.         *)
PopTimeoutLocked(h) == PopTimeout(h) /\ UNCHANGED poolLock

ClientPopTimeout(h) == PopTimeout(h) /\ poolLock' = None

ClientTake(h) == Take(h) /\ poolLock' = None

-----------------------------------------------------------------------------
ConnectorStep ==
  \/ ConnectorStart \/ ReadsConnected \/ DialFailed \/ ConnectorEnd
  \/ ConnectorStop \/ Kill
  \/ \E c \in Conns : Connect(c)

ShutdownStep(g) ==
  \/ ShutdownStart(g) \/ ShutdownClosed(g) \/ ShutdownEnd(g)
  \/ \E c \in Conns : ShutdownConnection(g, c)

ClientCallerStep(h) ==
  /\ CallerStep(h) \/ LockPool(h) \/ ClientPopTimeout(h) \/ ClientTake(h)
  /\ UNCHANGED clientVars

ClientReaderStep(c) == ReaderStep(c) /\ UNCHANGED clientVars

Next ==
  /\ Running
  /\ \/ ConnectorStep \/ Serve \/ Signal
     \/ \E g \in Closers : ShutdownStep(g)
     \/ \E c \in Conns : ClientReaderStep(c)
     \/ \E c \in Conns : (Receive(c) \/ Break(c)) /\ UNCHANGED clientVars
     \/ \E h \in Handlers : Request(h) \/ ClientCallerStep(h)

Spec == Init /\ [][Next]_vars

(* As in ServerPool; in addition every dial is taken to end.               *)
Unhindered(g) ==
  pc[g] \in {"write", "header", "body"} => ws[on[g]] # "open"

Fairness ==
  /\ \A c \in Conns : SF_vars(Running /\ ClientReaderStep(c))
  /\ \A h \in Handlers : SF_vars(Running /\ ClientCallerStep(h) /\ Unhindered(h))
  /\ SF_vars(Running /\ (ConnectorStep \/ ShutdownStep(Connector)))
  /\ SF_vars(Running /\ ShutdownStep(Main))

FairSpec == Spec /\ Fairness

-----------------------------------------------------------------------------
(* Properties.                                                             *)

(* The shared state has the types the Go declarations give it.             *)
SharedOK ==
  /\ status \in [Conns -> Statuses]
  /\ ws \in [Conns -> {"open", "broken", "closed"}]
  /\ connLock \in [Conns -> Goroutines \cup {None}]
  /\ idle \in Seq(Conns) /\ Len(idle) <= PoolMaxSize
  /\ writeConnections \subseteq Conns
  /\ poolLock \in Handlers \cup Closers \cup {None}
  /\ done \in BOOLEAN /\ killed \in BOOLEAN
  /\ toCreate \in Int

(* Every goroutine is at a point of its own code.                          *)
ControlOK ==
  /\ pc \in [Goroutines -> ReaderPc \cup CallerPc \cup CloserPc]
  /\ \A c \in Conns : pc[c] \in ReaderPc
  /\ \A h \in Handlers : pc[h] \in CallerPc
  /\ \A g \in Closers : pc[g] \in CloserPc

(* A reader works on its connection, a handler on one exactly from its     *)
(* receive on pool.idle to its return, a closer on the one it closes.      *)
LocalOK ==
  /\ on \in [Goroutines -> Conns \cup {None}]
  /\ \A c \in Conns : on[c] = c
  /\ \A h \in Handlers : on[h] = None <=> pc[h] \in {"ready", "lock", "pop"}
  /\ \A g \in Closers : on[g] # None <=> pc[g] = "shutdownClosing"
  /\ outcome \in [Callers -> Outcomes]
  /\ todo \in [Closers -> SUBSET Conns]

TypeOK == SharedOK /\ ControlOK /\ LocalOK

(* The pool never has more than PoolMaxSize connections, although the      *)
(* connector counts once and then opens one after another while callers    *)
(* and readers change the status of those it counted.                      *)
MaxConnections == Cardinality(writeConnections) <= PoolMaxSize

(* A request ends when its websocket is broken or closed, although the     *)
(* reader that has to notice waits for pool.lock, which another request    *)
(* may hold as long as its timeout; or it was aborted, or the process has  *)
(* ended.                                                                  *)
CallEnds ==
  \A h \in Handlers, c \in Conns :
    on[h] = c /\ ws[c] # "open" ~> on[h] # c \/ pc[h] = "aborted" \/ ~Running

(* Shutdown ends after a signal, whoever holds pool.lock when it comes,    *)
(* provided pool.idle has room for every connection.                       *)
ShutdownEnds == pc[Main] = "stop" ~> ~Running

-----------------------------------------------------------------------------
(* What comments and messages of the code say, and the code does not do.   *)

(* pool.go:66: with an invalid key the client is shut down.                *)
KilledHasNoConnection ==
  killed => \A c \in Conns : status[c] # "ABSENT" => ws[c] = "closed" \/ pc[c] = "close"
=============================================================================
