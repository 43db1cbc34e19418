------------------------------ MODULE ServerPool ------------------------------
(***************************************************************************)
(* The pool the server keeps for one client: the connections of            *)
(* WriteConnection, the Request handlers and the connection-status pinger  *)
(* that take them, the cleaner that closes idle ones every 15 seconds and  *)
(* drops the pool when it is empty, Register that adds connections, and    *)
(* the shutdown of the server.                                             *)
(***************************************************************************)
EXTENDS WriteConnection

CONSTANTS
  Cleaner,   \* the goroutine of Server.Start that calls clean
  Main,      \* the goroutine that calls Server.Shutdown; not in Closers
             \* where the process is never stopped
  IdleSize   \* pool.idleSize, the idle connections the client asked for

ASSUME ServerAssumption ==
  /\ Cleaner \in Closers /\ Closers \subseteq {Cleaner, Main}
  /\ Cleaner # Main
  /\ IdleSize \in Nat

VARIABLES
  done,     \* pool.done
  pooled,   \* the pool is in Server.pools
  todo,     \* the connections a closer's loop has still to visit
  nIdle     \* the IDLE connections the running Clean has counted

serverVars == <<done, pooled, todo, nIdle>>
vars == <<connVars, serverVars>>

CloserPc == {"ready", "isEmpty", "clean", "cleanClosing", "collect", "keep",
             "shutdown", "shutdownClosing", "drop", "exit"}

Init ==
  /\ ConnInit
  /\ done = FALSE
  /\ pooled = TRUE
  /\ todo = [g \in Closers |-> {}]
  /\ nIdle = 0

-----------------------------------------------------------------------------
(* Mutant of AddConnection: without the test of done.                      *)
AddConnectionDone(c) ==
  /\ poolLock = None
  /\ \/ /\ status' = [status EXCEPT ![c] = "IDLE"]
        /\ writeConnections' = writeConnections \cup {c}
        /\ Goto(c, "release")
     \/ UNCHANGED <<status, writeConnections, pc>>

(* AddConnection, under pool.lock.  A pool that is done takes no           *)
(* connection, and none takes one whose type is neither Read nor Write:    *)
(* the websocket stays open, and outside of the pool.                      *)
AddConnection(c) ==
  /\ poolLock = None
  /\ \/ /\ ~done
        /\ status' = [status EXCEPT ![c] = "IDLE"]
        /\ writeConnections' = writeConnections \cup {c}
        /\ Goto(c, "release")
     \/ UNCHANGED <<status, writeConnections, pc>>

(* Register adds a websocket to the pool under Server.lock, which the      *)
(* cleaner holds whenever it is not "ready".                               *)
Register(c) ==
  /\ pc[c] = "unborn"
  /\ pc[Cleaner] = "ready" /\ pooled
  /\ AddConnection(c)
  /\ UNCHANGED <<ws, connLock, idle, poolLock, on, outcome, serverVars>>

(* Request looks the pool up without Server.lock, and then waits for an    *)
(* idle connection; without a pool, and until it has a connection, its     *)
(* answer is an error.                                                     *)
Request(h) ==
  /\ pc[h] = "ready"
  /\ outcome' = [outcome EXCEPT ![h] = "error"]
  /\ IF pooled THEN Goto(h, "pop") ELSE UNCHANGED pc
  /\ UNCHANGED <<status, ws, connLock, idle, writeConnections, poolLock, on, serverVars>>

(* GetAllBusyWriteConnections found one.                                   *)
AnyBusy == \E c \in writeConnections : status[c] = "BUSY"

(* getConnectionStatus counts the BUSY connections under pool.lock.  What  *)
(* it counted is its answer if it gets no idle connection afterwards.      *)
CountBusy(g) ==
  /\ pc[g] = "ready" /\ pooled
  /\ poolLock = None
  /\ Goto(g, "pop")
  /\ outcome' = [outcome EXCEPT ![g] =
       IF AnyBusy THEN "connected" ELSE "disconnected"]
  /\ UNCHANGED <<status, ws, connLock, idle, writeConnections, poolLock, on, serverVars>>

(* GetIdleWriteConnection of the server does not hold pool.lock.           *)
ServerPopTimeout(g) == PopTimeout(g) /\ UNCHANGED poolLock
ServerTake(g) == Take(g) /\ UNCHANGED poolLock

-----------------------------------------------------------------------------
(* clean takes Server.lock, and IsEmpty then runs Clean with pool.lock     *)
(* held.                                                                   *)

CleanLock ==
  /\ pc[Cleaner] = "ready" /\ pooled
  /\ Goto(Cleaner, "isEmpty")
  /\ UNCHANGED <<status, ws, connLock, idle, writeConnections, poolLock, on, outcome, serverVars>>

CleanStart ==
  /\ pc[Cleaner] = "isEmpty"
  /\ poolLock = None
  /\ poolLock' = Cleaner
  /\ todo' = [todo EXCEPT ![Cleaner] = writeConnections]
  /\ nIdle' = 0
  /\ Goto(Cleaner, "clean")
  /\ UNCHANGED <<status, ws, connLock, idle, writeConnections, on, outcome, done, pooled>>

(* Mutant of CleanConnection: a BUSY connection counts, and may be closed. *)
CleanConnectionInUse(c) ==
  /\ pc[Cleaner] = "clean" /\ c \in todo[Cleaner]
  /\ connLock[c] = None
  /\ todo' = [todo EXCEPT ![Cleaner] = @ \ {c}]
  /\ nIdle' = nIdle + 1
  /\ \/ /\ status[c] # "CLOSED" /\ nIdle + 1 > IdleSize
        /\ BeginClose(Cleaner, c)
        /\ on' = [on EXCEPT ![Cleaner] = c]
        /\ Goto(Cleaner, "cleanClosing")
     \/ UNCHANGED <<status, ws, connLock, on, pc>>
  /\ UNCHANGED <<idle, writeConnections, poolLock, outcome, done, pooled>>

(* CleanConnection closes an IDLE connection beyond the first IdleSize     *)
(* once it has been idle long enough; the clock is left open.              *)
CleanConnection(c) ==
  /\ pc[Cleaner] = "clean" /\ c \in todo[Cleaner]
  /\ connLock[c] = None
  /\ todo' = [todo EXCEPT ![Cleaner] = @ \ {c}]
  /\ nIdle' = IF status[c] = "IDLE" THEN nIdle + 1 ELSE nIdle
  /\ \/ /\ status[c] = "IDLE" /\ nIdle + 1 > IdleSize
        /\ BeginClose(Cleaner, c)
        /\ on' = [on EXCEPT ![Cleaner] = c]
        /\ Goto(Cleaner, "cleanClosing")
     \/ UNCHANGED <<status, ws, connLock, on, pc>>
  /\ UNCHANGED <<idle, writeConnections, poolLock, outcome, done, pooled>>

(* Mutant of CleanClosed: Remove, which locks pool.lock once more.         *)
CleanClosedRelock ==
  /\ pc[Cleaner] = "cleanClosing" /\ poolLock = None
  /\ EndClose(on[Cleaner])
  /\ writeConnections' = writeConnections \ {on[Cleaner]}
  /\ on' = [on EXCEPT ![Cleaner] = None]
  /\ Goto(Cleaner, "clean")
  /\ UNCHANGED <<idle, poolLock, outcome, serverVars>>

CleanClosed ==
  /\ pc[Cleaner] = "cleanClosing"
  /\ EndClose(on[Cleaner])
  /\ writeConnections' = writeConnections \ {on[Cleaner]}
  /\ on' = [on EXCEPT ![Cleaner] = None]
  /\ Goto(Cleaner, "clean")
  /\ UNCHANGED <<idle, poolLock, outcome, serverVars>>

(* IsEmpty is true when the lists of write and of read connections are     *)
(* empty; the read connections are left open.  Clean's count is over.      *)
CleanEnd ==
  /\ pc[Cleaner] = "clean" /\ todo[Cleaner] = {}
  /\ poolLock' = None
  /\ \/ writeConnections = {} /\ Goto(Cleaner, "collect")
     \/ Goto(Cleaner, "keep")
  /\ nIdle' = 0
  /\ UNCHANGED <<status, ws, connLock, idle, writeConnections, on, outcome>>
  /\ UNCHANGED <<done, pooled, todo>>

(* A pool that is kept is put into the new map, even if Server.Shutdown    *)
(* has emptied the old one since.                                          *)
CleanKeep ==
  /\ pc[Cleaner] = "keep"
  /\ pooled' = TRUE
  /\ Goto(Cleaner, "ready")
  /\ UNCHANGED <<status, ws, connLock, idle, writeConnections, poolLock, on, outcome>>
  /\ UNCHANGED <<done, todo, nIdle>>

-----------------------------------------------------------------------------
(* pool.Shutdown, by the cleaner for an empty pool and by Server.Shutdown, *)
(* which takes no Server.lock, when the process ends.                      *)

ShutdownStart(g) ==
  /\ \/ g = Cleaner /\ pc[g] = "collect"
     \/ g = Main /\ pc[g] = "ready" /\ pooled
  /\ poolLock = None
  /\ poolLock' = g
  /\ done' = TRUE
  /\ todo' = [todo EXCEPT ![g] = writeConnections]
  /\ Goto(g, "shutdown")
  /\ UNCHANGED <<status, ws, connLock, idle, writeConnections, on, outcome, pooled, nIdle>>

ShutdownConnection(g, c) ==
  /\ pc[g] = "shutdown" /\ c \in todo[g]
  /\ connLock[c] = None
  /\ todo' = [todo EXCEPT ![g] = @ \ {c}]
  /\ \/ /\ status[c] = "CLOSED"
        /\ UNCHANGED <<status, ws, connLock, on, pc>>
     \/ /\ status[c] # "CLOSED"
        /\ BeginClose(g, c)
        /\ on' = [on EXCEPT ![g] = c]
        /\ Goto(g, "shutdownClosing")
  /\ UNCHANGED <<idle, writeConnections, poolLock, outcome, done, pooled, nIdle>>

ShutdownClosed(g) ==
  /\ pc[g] = "shutdownClosing"
  /\ EndClose(on[g])
  /\ on' = [on EXCEPT ![g] = None]
  /\ Goto(g, "shutdown")
  /\ UNCHANGED <<idle, writeConnections, poolLock, outcome, serverVars>>

(* RemoveAllConnections, and the pool is unlocked ...                      *)
ShutdownEnd(g) ==
  /\ pc[g] = "shutdown" /\ todo[g] = {}
  /\ writeConnections' = {}
  /\ poolLock' = None
  /\ Goto(g, "drop")
  /\ UNCHANGED <<status, ws, connLock, idle, on, outcome, serverVars>>

(* ... before the map that has it is replaced by one that has not, and the *)
(* cleaner gives back Server.lock.                                         *)
DropPool(g) ==
  /\ pc[g] = "drop"
  /\ pooled' = FALSE
  /\ Goto(g, IF g = Cleaner THEN "ready" ELSE "exit")
  /\ UNCHANGED <<status, ws, connLock, idle, writeConnections, poolLock, on, outcome>>
  /\ UNCHANGED <<done, todo, nIdle>>

-----------------------------------------------------------------------------
CleanerStep ==
  \/ CleanLock \/ CleanStart \/ CleanClosed \/ CleanEnd \/ CleanKeep
  \/ \E c \in Conns : CleanConnection(c)

ShutdownStep(g) ==
  \/ ShutdownClosed(g) \/ ShutdownEnd(g) \/ DropPool(g)
  \/ \E c \in Conns : ShutdownConnection(g, c)

ServerCallerStep(g) ==
  \/ CallerStep(g) /\ UNCHANGED serverVars
  \/ (ServerPopTimeout(g) \/ ServerTake(g)) /\ UNCHANGED serverVars

Next ==
  \/ \E c \in Conns : Register(c)
  \/ \E c \in Conns : (ReaderStep(c) \/ Receive(c) \/ Break(c)) /\ UNCHANGED serverVars
  \/ \E h \in Handlers : Request(h)
  \/ \E g \in Pingers : CountBusy(g)
  \/ \E g \in Callers : ServerCallerStep(g)
  \/ CleanerStep
  \/ \E g \in Closers : ShutdownStart(g) \/ ShutdownStep(g)

Spec == Init /\ [][Next]_vars

-----------------------------------------------------------------------------
(* Fairness.  Go's mutexes and channels starve no goroutine, hence strong  *)
(* fairness for each goroutine.  No fairness for what others decide: a new *)
(* request, a message of the peer, a broken network, the timer of the      *)
(* cleaner, the end of the process; and none for input and output on a     *)
(* websocket that is open, which take as long as the peer likes.  A call   *)
(* that finds a connection in pool.idle does not need to wait for its      *)
(* timer: that one may win, but not each time.                             *)

Unhindered(g) ==
  /\ pc[g] \in {"write", "header", "body", "ping"} => ws[on[g]] # "open"
  /\ pc[g] = "pop" /\ idle # <<>> => on'[g] # None

CleanerRuns ==
  /\ pc[Cleaner] # "ready"
  /\ CleanerStep \/ ShutdownStart(Cleaner) \/ ShutdownStep(Cleaner)

Fairness ==
  /\ \A c \in Conns : SF_vars(ReaderStep(c) /\ UNCHANGED serverVars)
  /\ \A g \in Callers : SF_vars(ServerCallerStep(g) /\ Unhindered(g))
  /\ SF_vars(CleanerRuns)
  /\ \A g \in Closers \ {Cleaner} : SF_vars(ShutdownStep(g))

FairSpec == Spec /\ Fairness

-----------------------------------------------------------------------------
(* Properties.                                                             *)

(* The shared state has the types the Go declarations give it.             *)
SharedOK ==
  /\ status \in [Conns -> Statuses]
  /\ ws \in [Conns -> {"open", "broken", "closed"}]
  /\ connLock \in [Conns -> Goroutines \cup {None}]
  /\ idle \in Seq(Conns) /\ Len(idle) <= PoolMaxSize
  /\ writeConnections \subseteq Conns
  /\ poolLock \in Closers \cup {None}
  /\ done \in BOOLEAN /\ pooled \in BOOLEAN

(* Every goroutine is at a point of its own code.                          *)
ControlOK ==
  /\ pc \in [Goroutines -> ReaderPc \cup CallerPc \cup CloserPc]
  /\ \A c \in Conns : pc[c] \in ReaderPc
  /\ \A g \in Callers : pc[g] \in CallerPc
  /\ \A g \in Closers : pc[g] \in CloserPc

(* A reader works on its connection, a caller on one exactly from its      *)
(* receive on pool.idle to its return, a closer on the one it closes.      *)
LocalOK ==
  /\ on \in [Goroutines -> Conns \cup {None}]
  /\ \A c \in Conns : on[c] = c
  /\ \A g \in Callers : on[g] = None <=> pc[g] \in {"ready", "pop"}
  /\ \A g \in Closers : on[g] # None <=> pc[g] \in {"cleanClosing", "shutdownClosing"}
  /\ outcome \in [Callers -> Outcomes]
  /\ todo \in [Closers -> SUBSET Conns]
  /\ nIdle \in Nat

TypeOK == SharedOK /\ ControlOK /\ LocalOK

(* A pool that was shut down keeps no connection alive: each is closed, or *)
(* its reader has taken it off the list and is about to close it.  It is   *)
(* what the done flag of AddConnection is for.                             *)
ShutdownLeavesNothing ==
  done /\ poolLock = None =>
    \A c \in Conns : status[c] # "ABSENT" =>
      ws[c] = "closed" \/ pc[c] = "close"

(* A connection that is CLOSED stays so and its websocket is not reopened, *)
(* although Release and Take assign Status too.                            *)
ClosedIsFinal ==
  [][\A c \in Conns :
       status[c] = "CLOSED" => status'[c] = "CLOSED" /\ ws'[c] = "closed"]_vars

(* Clean never closes a connection that a request or a ping is using.      *)
CleanSparesLeased ==
  [][pc'[Cleaner] = "cleanClosing" =>
       \A g \in Callers : Leases(g) => on[g] # on'[Cleaner]]_vars

(* An Offer that waits, with locks that others wait for, gets its turn:    *)
(* callers ask for connections again and again, and take one off the full  *)
(* channel; or the channel does not stay full anyway.                      *)
OffersGetTurn ==
  \/ []<>(\E g \in Callers : pc[g] = "pop")
  \/ []<>(Len(idle) < PoolMaxSize)

(* A connection that was closed, which it stays, ends: its reader returns  *)
(* and the pool's list drops it, unless pool.idle stays full and nobody    *)
(* asks for a connection.                                                  *)
ClosedConnectionEnds ==
  OffersGetTurn => \A c \in Conns :
    []<>(ws[c] = "closed" => pc[c] = "end" /\ c \notin writeConnections)

(* No request or ping stays on a connection that is broken or closed, be   *)
(* it in Offer, at a lock or waiting for a reader that is gone, unless     *)
(* pool.idle stays full and nobody asks for a connection; or unless the    *)
(* request was aborted.                                                    *)
CallEnds ==
  OffersGetTurn => \A g \in Callers, c \in Conns :
    []<>(on[g] = c /\ ws[c] # "open" => pc[g] = "aborted")

(* The cleaner of Server.Start gives back Server.lock and comes back to    *)
(* its timer, although it waits for pool.lock, and for each                *)
(* connection.lock, with both of them held; unless pool.idle stays full    *)
(* and nobody asks for a connection, when it may wait for ever.            *)
CleanerReturns == OffersGetTurn => []<>(pc[Cleaner] = "ready")

-----------------------------------------------------------------------------
(* What comments of the code say, and the code does not do.                *)

(* server.go:80-81: clean is invoked again and again, here as long as the  *)
(* client never has more connections open than pool.idle has room for.     *)
CleanIsPeriodic ==
  [](Cardinality({c \in Conns : status[c] # "ABSENT" /\ ws[c] = "open"}) <= PoolMaxSize)
    => []<>(pc[Cleaner] = "ready")

(* server.go:122: a request that fails on its connection is answered with  *)
(* an error.                                                               *)
FailureIsAnswered == \A h \in Handlers : outcome[h] # "panic"
=============================================================================
