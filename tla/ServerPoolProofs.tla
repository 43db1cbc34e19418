--------------------------- MODULE ServerPoolProofs ---------------------------
(***************************************************************************)
(* Proofs about ServerPool, for every set of connections, handlers, pings  *)
(* and closers, every capacity of pool.idle and every idle size.  What the *)
(* readers and the callers do is proved in ConnectionProofs; here are      *)
(* Register, the begin of a call, clean and Shutdown.                      *)
(***************************************************************************)
EXTENDS ServerPool, ConnectionProofs

USE ConnAssumption, ServerAssumption DEF ConnAssumption, ServerAssumption

-----------------------------------------------------------------------------
(* The types of what the server adds to its connections.                   *)
ServerTypes ==
  /\ poolLock \in Closers \cup {None} /\ done \in BOOLEAN /\ pooled \in BOOLEAN
  /\ todo \in [Closers -> SUBSET Conns] /\ nIdle \in Nat
  /\ \A g \in Callers : pc[g] # "lock"
  /\ \A g \in Closers :
       /\ pc[g] \in CloserPc
       /\ on[g] # None <=> pc[g] \in {"cleanClosing", "shutdownClosing"}

(* A closer visits only connections that were registered, and what Clean   *)
(* closes was IDLE.                                                        *)
Known == \A c \in Conns : pc[c] = "unborn" => \A g \in Closers : c \notin todo[g]
Cleaned == pc[Cleaner] = "cleanClosing" => status[on[Cleaner]] = "IDLE"

ServerInv == ConnInv /\ ServerTypes /\ Known /\ Cleaned

(* The types of ServerPool are these.                                      *)
LEMMA TypesSplit ==
  ASSUME ConnTypes, ServerTypes
  PROVE  TypeOK
<1> USE DEF ServerTypes, ConnTypes, SharedTypes, LocalTypes
<1>1. SharedOK
  BY DEF SharedOK
<1>2. ControlOK
  BY DEF ControlOK, Goroutines
<1>3. LocalOK
  BY DEF LocalOK, Goroutines
<1> QED BY <1>1, <1>2, <1>3 DEF TypeOK

-----------------------------------------------------------------------------
(* A step of Register, of a new call, of clean or of Shutdown.             *)
PoolStep ==
  \/ \E c \in Conns : Register(c)
  \/ \E h \in Handlers : Request(h)
  \/ \E g \in Pingers : CountBusy(g)
  \/ CleanLock \/ CleanStart \/ CleanClosed \/ CleanEnd \/ CleanKeep
  \/ \E c \in Conns : CleanConnection(c)
  \/ \E g \in Closers :
       \/ ShutdownStart(g) \/ ShutdownClosed(g) \/ ShutdownEnd(g) \/ DropPool(g)
       \/ \E c \in Conns : ShutdownConnection(g, c)

(* A step of the pool is one of these, or a step of a reader or a caller.  *)
LEMMA NextSplit ==
  ASSUME ConnTypes, Next
  PROVE  PoolStep \/ (SharedStep /\ UNCHANGED <<poolLock, serverVars>>)
<1>1. ASSUME NEW c \in Conns, (ReaderStep(c) \/ Receive(c) \/ Break(c)) /\ UNCHANGED serverVars
      PROVE  SharedStep /\ UNCHANGED <<poolLock, serverVars>>
  <2>1. Reading(c)
    BY <1>1 DEF Reading
  <2> QED BY <1>1, <2>1, ReaderMoves DEF SharedStep
<1>2. ASSUME NEW g \in Callers, ServerCallerStep(g)
      PROVE  SharedStep /\ UNCHANGED <<poolLock, serverVars>>
  <2>1. Calling(g)
    BY <1>2 DEF ServerCallerStep, Calling, ServerPopTimeout, ServerTake
  <2> QED BY <1>2, <2>1, CallerMoves DEF SharedStep, ServerCallerStep, ServerPopTimeout, ServerTake
<1> QED BY <1>1, <1>2 DEF Next, CleanerStep, ShutdownStep, PoolStep

(* A step of a reader or of a caller.                                      *)
LEMMA SharedKeeps ==
  ASSUME ServerInv, SharedStep, UNCHANGED <<poolLock, serverVars>>
  PROVE  ServerInv' /\ Final /\ Promised
<1> USE DEF ServerInv, ConnInv, LeaseInv, serverVars
<1>1. Kept
  BY ReaderKeeps, CallerKeeps DEF SharedStep
<1>2. \A h \in Closers : pc'[h] = pc[h] /\ on'[h] = on[h]
  BY ClosersStay DEF SharedStep
<1>3. \A h \in Callers : pc'[h] # "lock"
  BY NobodyLocks DEF ServerTypes
<1>4. ServerTypes'
  BY <1>2, <1>3 DEF ServerTypes
<1>5. Known'
  BY UnbornStays DEF Known
<1>6. Cleaned'
  BY <1>2, LockedStays DEF Cleaned, SharedStep, Closing
<1> QED BY <1>1, <1>4, <1>5, <1>6 DEF Kept

(* A step of the pool itself leaves the connections in order ...           *)
LEMMA PoolKeeps ==
  ASSUME ServerInv, PoolStep
  PROVE  Kept
<1>0. /\ pc \in [Goroutines -> Points] /\ outcome \in [Callers -> Outcomes]
      /\ \A g \in Callers : pc[g] = "ready" => on[g] = None
      /\ Cleaner \in Closers /\ Closers \subseteq Goroutines
      /\ Handlers \subseteq Callers /\ Pingers \subseteq Callers /\ CloserPc \subseteq Points
      /\ ConnInv
  <2>1. CloserPc \subseteq Points
    BY DEF CloserPc, Points, CallerPc
  <2>2. Closers \subseteq Goroutines /\ Handlers \subseteq Callers /\ Pingers \subseteq Callers
    BY DEF Goroutines, Callers
  <2> QED BY <2>1, <2>2 DEF ServerInv, ConnInv, LeaseInv, ConnTypes, LocalTypes
<1>1. ASSUME NEW c \in Conns, Register(c) PROVE Kept
  <2>1. CASE UNCHANGED <<status, writeConnections, pc>>
    BY <1>0, <1>1, <2>1, QuietKeeps DEF Register
  <2>2. CASE ~UNCHANGED <<status, writeConnections, pc>>
    BY <1>0, <1>1, <2>2, JoinKeeps DEF Register, AddConnection, Goto
  <2> QED BY <2>1, <2>2
<1>2. ASSUME NEW g \in Callers,
             (g \in Handlers /\ Request(g)) \/ (g \in Pingers /\ CountBusy(g))
      PROVE  Kept
  <2>1. outcome' \in [Callers -> Outcomes]
    BY <1>0, <1>2 DEF Request, CountBusy, Outcomes
  <2> QED BY <1>0, <1>2, <2>1, QuietKeeps DEF Request, CountBusy, Goto
<1>3. ASSUME NEW g \in Closers, NEW l \in CloserPc \ {"cleanClosing", "shutdownClosing"},
             ~Closing(g), pc' = [pc EXCEPT ![g] = l], writeConnections' \subseteq writeConnections,
             UNCHANGED <<status, ws, connLock, idle, on, outcome>>
      PROVE  Kept
  BY <1>0, <1>3, QuietKeeps DEF Closing, CloserPc
<1>4. CASE CleanLock \/ CleanStart \/ CleanEnd \/ CleanKeep
  BY <1>0, <1>3, <1>4 DEF CleanLock, CleanStart, CleanEnd, CleanKeep, Goto, Closing, CloserPc
<1>5. ASSUME NEW g \in Closers, ShutdownStart(g) PROVE Kept
  BY <1>0, <1>3, <1>5 DEF ShutdownStart, Goto, Closing, CloserPc
<1>6. ASSUME NEW g \in Closers, ShutdownEnd(g) \/ DropPool(g) PROVE Kept
  BY <1>0, <1>3, <1>6 DEF ShutdownEnd, DropPool, Goto, Closing, CloserPc
<1>7. ASSUME NEW g \in Closers, NEW c \in Conns,
             (g = Cleaner /\ CleanConnection(c)) \/ ShutdownConnection(g, c)
      PROVE  Kept
  <2>1. CASE UNCHANGED <<status, ws, connLock, on, pc>>
    BY <1>0, <1>7, <2>1, QuietKeeps DEF CleanConnection, ShutdownConnection
  <2>2. CASE status[c] # "CLOSED" /\ BeginClose(g, c) /\ on' = [on EXCEPT ![g] = c]
             /\ \E l \in {"cleanClosing", "shutdownClosing"} : pc' = [pc EXCEPT ![g] = l]
    <3>1. pc[c] # "unborn" /\ ~Closing(g)
      BY <1>7 DEF CleanConnection, ShutdownConnection, ServerInv, Known, Closing
    <3> QED BY <1>0, <1>7, <2>2, <3>1, BeginKeeps DEF CleanConnection, ShutdownConnection
  <2> QED BY <1>7, <2>1, <2>2 DEF CleanConnection, ShutdownConnection, Goto
<1>8. ASSUME NEW g \in Closers, (g = Cleaner /\ CleanClosed) \/ ShutdownClosed(g)
      PROVE  Kept
  <2>1. Closing(g) /\ {"clean", "shutdown"} \subseteq Points
    BY <1>8 DEF CleanClosed, ShutdownClosed, Closing, Points
  <2> QED BY <1>0, <1>8, <2>1, EndKeeps DEF CleanClosed, ShutdownClosed, Goto
<1> QED BY <1>0, <1>1, <1>2, <1>4, <1>5, <1>6, <1>7, <1>8 DEF PoolStep

(* ... and its own state too.                                              *)
LEMMA PoolTypes ==
  ASSUME ServerInv, PoolStep
  PROVE  ServerTypes' /\ Known' /\ Cleaned'
<1> USE DEF ServerInv, ServerTypes, Known, Cleaned, Goto
<1>0. /\ pc \in [Goroutines -> Points] /\ on \in [Goroutines -> Conns \cup {None}]
      /\ None \notin Conns /\ Cleaner \in Closers /\ writeConnections \subseteq Conns
      /\ \A g \in Closers : g \in Goroutines /\ g \notin Conns /\ g \notin Callers /\ g # None
      /\ \A g \in Callers : g \in Goroutines /\ g \notin Conns
      /\ \A c \in Conns : pc[c] = "unborn" => c \notin writeConnections
      /\ \A g \in Closers : Closing(g) => connLock[on[g]] = g
      /\ status \in [Conns -> Statuses]
  BY DEF ConnInv, LeaseInv, ConnTypes, SharedTypes, LocalTypes, Goroutines, CloseInv, Unborn, Holds
<1>1. ASSUME NEW c \in Conns, Register(c) PROVE ServerTypes' /\ Known' /\ Cleaned'
  <2>1. pc[Cleaner] = "ready" /\ c \in Goroutines /\ c # Cleaner
    BY <1>0, <1>1 DEF Register, Goroutines
  <2>2. CASE UNCHANGED <<status, writeConnections, pc>>
    BY <1>1, <2>2 DEF Register, serverVars
  <2>3. CASE /\ status' = [status EXCEPT ![c] = "IDLE"]
             /\ pc' = [pc EXCEPT ![c] = "release"]
    BY <1>0, <1>1, <2>1, <2>3 DEF Register, serverVars
  <2> QED BY <1>1, <2>2, <2>3 DEF Register, AddConnection
<1>2. ASSUME NEW g \in Callers,
             (g \in Handlers /\ Request(g)) \/ (g \in Pingers /\ CountBusy(g))
      PROVE  ServerTypes' /\ Known' /\ Cleaned'
  <2>1. pc' = pc \/ pc' = [pc EXCEPT ![g] = "pop"]
    BY <1>2 DEF Request, CountBusy
  <2>2. UNCHANGED <<status, poolLock, on, serverVars>>
    BY <1>2 DEF Request, CountBusy
  <2>3. \A h \in Goroutines : pc'[h] = pc[h] \/ (h = g /\ pc'[h] = "pop")
    <3>1. pc \in [Goroutines -> Points] /\ g \in Goroutines
      BY <1>0
    <3> QED BY <2>1, <3>1
  <2>4. g \notin Closers /\ g \notin Conns
    BY <1>0
  <2>5. ServerTypes'
    BY <1>0, <2>2, <2>3, <2>4 DEF serverVars
  <2> QED BY <1>0, <2>2, <2>3, <2>4, <2>5 DEF serverVars, Goroutines
<1>3. CASE CleanStart
  BY <1>0, <1>3 DEF CleanStart, CloserPc
<1>3a. CASE CleanLock
  BY <1>0, <1>3a DEF CleanLock, CloserPc, serverVars
<1>4. CASE CleanEnd
  <2>1. PICK l \in {"collect", "keep"} : pc' = [pc EXCEPT ![Cleaner] = l]
    BY <1>4 DEF CleanEnd
  <2> QED BY <1>0, <1>4, <2>1 DEF CleanEnd, CloserPc
<1>4a. CASE CleanKeep
  BY <1>0, <1>4a DEF CleanKeep, CloserPc
<1>5. ASSUME NEW g \in Closers, ShutdownStart(g) PROVE ServerTypes' /\ Known' /\ Cleaned'
  BY <1>0, <1>5 DEF ShutdownStart, CloserPc
<1>6. ASSUME NEW g \in Closers, ShutdownEnd(g) \/ DropPool(g)
      PROVE  ServerTypes' /\ Known' /\ Cleaned'
  <2>1. PICK l \in {"drop", "ready", "exit"} : pc' = [pc EXCEPT ![g] = l]
    BY <1>6 DEF ShutdownEnd, DropPool
  <2>2. pc[g] \in {"shutdown", "drop"}
    BY <1>6 DEF ShutdownEnd, DropPool
  <2>3. /\ poolLock' \in {poolLock, None} /\ pooled' \in BOOLEAN
        /\ UNCHANGED <<status, on, done, todo, nIdle>>
    BY <1>6 DEF ShutdownEnd, DropPool, serverVars
  <2>4. \A h \in Goroutines :
          pc'[h] = pc[h] \/ (h = g /\ pc'[h] \in {"drop", "ready", "exit"})
    <3>1. pc \in [Goroutines -> Points] /\ g \in Goroutines
      BY <1>0
    <3> QED BY <2>1, <3>1
  <2>5. ServerTypes'
    BY <1>0, <2>2, <2>3, <2>4 DEF CloserPc
  <2> QED BY <1>0, <2>2, <2>3, <2>4, <2>5 DEF Goroutines
<1>7. ASSUME NEW c \in Conns, CleanConnection(c) PROVE ServerTypes' /\ Known' /\ Cleaned'
  <2>1. Cleaner \in Goroutines /\ pc[Cleaner] = "clean" /\ on[Cleaner] = None
    BY <1>0, <1>7 DEF CleanConnection
  <2>2. CASE UNCHANGED <<status, on, pc>>
    BY <1>0, <1>7, <2>1, <2>2 DEF CleanConnection
  <2>3. CASE /\ status[c] = "IDLE" /\ status' = status /\ on' = [on EXCEPT ![Cleaner] = c]
             /\ pc' = [pc EXCEPT ![Cleaner] = "cleanClosing"]
    BY <1>0, <1>7, <2>1, <2>3 DEF CleanConnection, CloserPc
  <2> QED BY <1>7, <2>2, <2>3 DEF CleanConnection, BeginClose
<1>8. ASSUME NEW g \in Closers, NEW c \in Conns, ShutdownConnection(g, c)
      PROVE  ServerTypes' /\ Known' /\ Cleaned'
  <2>1. g \in Goroutines /\ pc[g] = "shutdown" /\ on[g] = None
    BY <1>0, <1>8 DEF ShutdownConnection
  <2>2. CASE UNCHANGED <<status, on, pc>>
    BY <1>0, <1>8, <2>1, <2>2 DEF ShutdownConnection
  <2>3. CASE /\ status' = status /\ on' = [on EXCEPT ![g] = c]
             /\ pc' = [pc EXCEPT ![g] = "shutdownClosing"]
    BY <1>0, <1>8, <2>1, <2>3 DEF ShutdownConnection, CloserPc
  <2> QED BY <1>8, <2>2, <2>3 DEF ShutdownConnection, BeginClose
<1>9. CASE CleanClosed
  BY <1>0, <1>9 DEF CleanClosed, EndClose, CloserPc, serverVars
<1>10. ASSUME NEW g \in Closers, ShutdownClosed(g) PROVE ServerTypes' /\ Known' /\ Cleaned'
  <2>1. g # Cleaner /\ pc[Cleaner] = "cleanClosing" => on[g] # on[Cleaner]
    BY <1>0, <1>10 DEF ShutdownClosed, Closing
  <2> QED BY <1>0, <1>10, <2>1 DEF ShutdownClosed, EndClose, CloserPc, serverVars
<1> QED BY <1>0, <1>1, <1>2, <1>3, <1>4, <1>5, <1>6, <1>7, <1>8, <1>9, <1>10, <1>3a, <1>4a
    DEF PoolStep, Callers

-----------------------------------------------------------------------------
(* No pool begins with a connection.                                       *)
LEMMA ServerBegins == Init => ServerInv /\ Abstract!Init
<1> SUFFICES ASSUME Init PROVE ServerInv /\ Abstract!Init
  OBVIOUS
<1>1. ConnInv /\ Abstract!Init
  BY ConnBegins DEF Init
<1>2. \A g \in Callers \cup Closers : pc[g] = "ready" /\ on[g] = None
  BY DEF Init, ConnInit, Goroutines
<1>3. ServerTypes /\ Known /\ Cleaned
  BY <1>2 DEF Init, ConnInit, ServerTypes, Known, Cleaned, CloserPc
<1> QED BY <1>1, <1>3 DEF ServerInv

(* Every step keeps the invariant and the promise, and what is CLOSED.     *)
LEMMA ServerStep ==
  ServerInv /\ [Next]_vars => ServerInv' /\ [Final]_vars /\ Promised
<1> SUFFICES ASSUME ServerInv, [Next]_vars PROVE ServerInv' /\ [Final]_vars /\ Promised
  OBVIOUS
<1>1. CASE UNCHANGED vars
  <2>1. Kept
    BY <1>1, QuietKeeps DEF vars, connVars, ServerInv, ConnInv, LeaseInv, ConnTypes, LocalTypes
  <2>2. ServerTypes' /\ Known' /\ Cleaned'
    BY <1>1 DEF vars, connVars, serverVars, ServerInv, ServerTypes, Known, Cleaned
  <2> QED BY <1>1, <2>1, <2>2 DEF Kept, ServerInv
<1>2. CASE Next
  <2>1. CASE PoolStep
    BY <2>1, PoolKeeps, PoolTypes DEF Kept, ServerInv
  <2>2. CASE SharedStep /\ UNCHANGED <<poolLock, serverVars>>
    BY <2>2, SharedKeeps
  <2> QED BY <1>2, <2>1, <2>2, NextSplit DEF ServerInv, ConnInv, LeaseInv
<1> QED BY <1>1, <1>2

(* The invariant holds in every reachable state.                           *)
LEMMA ServerAlways == Spec => []ServerInv
BY ServerBegins, ServerStep, PTL DEF Spec

(* The types are right in every reachable state: in particular pool.idle   *)
(* never exceeds its capacity, and pool.lock is held by closers only.      *)
THEOREM TypeCorrect == Spec => []TypeOK
<1>1. ServerInv => TypeOK
  BY TypesSplit DEF ServerInv, ConnInv, LeaseInv
<1> QED BY <1>1, ServerAlways, PTL

(* In every reachable state a connection is in pool.idle at most once, or  *)
(* has one carrier, but not both.                                          *)
THEOREM TokenCorrect == Spec => []OneToken
<1>1. ServerInv => OneToken
  BY ConnSafety DEF ServerInv
<1> QED BY <1>1, ServerAlways, PTL

(* Two callers never use the same websocket, however many there are.       *)
THEOREM LeaseExclusive == Spec => []ExclusiveLease
<1>1. ServerInv => ExclusiveLease
  BY ConnSafety DEF ServerInv
<1> QED BY <1>1, ServerAlways, PTL

(* nextResponse is closed once: whoever closes a connection, its reader,   *)
(* a handler, Clean or Shutdown, holds its lock meanwhile and is alone.    *)
THEOREM ClosedOnce == Spec => []CloseOnce
<1>1. ServerInv => CloseOnce
  BY ConnSafety DEF ServerInv
<1> QED BY <1>1, ServerAlways, PTL

(* No connection is lost: an idle one is in pool.idle or on its way to or  *)
(* from there, a busy one has a caller that will release or close it, or   *)
(* that was aborted by WriteHeader.                                        *)
THEOREM NoneLost == Spec => []NoLostConnection
<1>1. ServerInv => NoLostConnection
  BY ConnSafety DEF ServerInv
<1> QED BY <1>1, ServerAlways, PTL

(* A connection that is CLOSED is never given out, offered or reopened.    *)
THEOREM ClosedForGood == Spec => ClosedIsFinal
<1>1. ServerInv /\ [Next]_vars =>
        [\A c \in Conns :
           status[c] = "CLOSED" => status'[c] = "CLOSED" /\ ws'[c] = "closed"]_vars
  BY ServerStep DEF Final
<1> QED BY <1>1, ServerAlways, PTL DEF Spec, ClosedIsFinal

(* Every behaviour of the pool is one of the abstract lease: Take grants a *)
(* live connection nobody has, Release returns it, and whoever closes it   *)
(* does so once and for good.                                              *)
THEOREM LeaseImplemented == Spec => ImplementsLease
<1>1. ServerInv /\ [Next]_vars => [Abstract!Next]_(Abstract!leaseVars)
  BY ServerStep DEF Promised
<1>2. Init => Abstract!Init
  BY ServerBegins
<1> QED BY <1>1, <1>2, ServerAlways, PTL DEF Spec, ImplementsLease, Abstract!Spec

(* The cleaner begins to close in CleanConnection and ends in CleanClosed; *)
(* nobody else moves it meanwhile.                                         *)
LEMMA CleanerMoves ==
  ASSUME ServerInv, [Next]_vars, pc'[Cleaner] = "cleanClosing"
  PROVE  status[on'[Cleaner]] = "IDLE"
<1>0. /\ pc \in [Goroutines -> Points] /\ on \in [Goroutines -> Conns \cup {None}]
      /\ Cleaner \in Closers /\ Cleaner \in Goroutines /\ ConnTypes /\ Cleaned
      /\ \A c \in Conns : c # Cleaner
      /\ \A g \in Callers : g # Cleaner
  BY DEF ServerInv, ConnInv, LeaseInv, ConnTypes, LocalTypes, Goroutines
<1>1. CASE PoolStep
  <2>1. CASE \/ CleanLock \/ CleanStart \/ CleanClosed \/ CleanEnd \/ CleanKeep
             \/ \E c \in Conns : CleanConnection(c)
    BY <1>0, <2>1 DEF CleanLock, CleanStart, CleanClosed, CleanEnd, CleanKeep, CleanConnection, Goto, Cleaned
  <2>2. CASE (\E c \in Conns : Register(c)) \/ (\E h \in Handlers : Request(h))
             \/ (\E g \in Pingers : CountBusy(g))
    BY <1>0, <2>2 DEF Register, AddConnection, Request, CountBusy, Goto, Cleaned, Callers
  <2>3. ASSUME NEW g \in Closers,
               \/ ShutdownStart(g) \/ ShutdownClosed(g) \/ ShutdownEnd(g) \/ DropPool(g)
               \/ \E c \in Conns : ShutdownConnection(g, c)
        PROVE  status[on'[Cleaner]] = "IDLE"
    BY <1>0, <2>3 DEF ShutdownStart, ShutdownClosed, ShutdownEnd, DropPool, ShutdownConnection, Goto,
       Cleaned, Goroutines
  <2> QED BY <1>1, <2>1, <2>2, <2>3 DEF PoolStep
<1>2. CASE SharedStep
  BY <1>0, <1>2, ClosersStay DEF SharedStep, Cleaned
<1>3. CASE UNCHANGED vars
  BY <1>0, <1>3 DEF vars, connVars, Cleaned
<1> QED BY <1>0, <1>1, <1>2, <1>3, NextSplit

(* Clean never closes a connection that a request or a ping is using.      *)
THEOREM LeasedSpared == Spec => CleanSparesLeased
<1>1. ServerInv /\ [Next]_vars =>
        [pc'[Cleaner] = "cleanClosing" =>
           \A g \in Callers : Leases(g) => on[g] # on'[Cleaner]]_vars
  BY CleanerMoves DEF ServerInv, ConnInv, UseInv, Uses
<1> QED BY <1>1, ServerAlways, PTL DEF Spec, CleanSparesLeased

-----------------------------------------------------------------------------
(* What shutdown leaves.                                                   *)

Shutting(g) == pc[g] \in {"shutdown", "shutdownClosing"}

(* Whoever cleans or shuts down holds pool.lock, and has set done for the  *)
(* latter.                                                                 *)
Locks ==
  /\ \A g \in Closers :
       Shutting(g) \/ pc[g] \in {"clean", "cleanClosing"} <=> poolLock = g
  /\ \A g \in Closers : Shutting(g) => done

(* An open connection is in the list, until its reader is about to close it. *)
Listed ==
  \A c \in Conns : status[c] # "ABSENT" /\ ws[c] # "closed" =>
    c \in writeConnections \/ pc[c] = "close"

(* Of a pool that is done, Shutdown has still to visit what is open.       *)
Visited ==
  done => \A c \in writeConnections :
    ws[c] = "closed" \/ \E g \in Closers : Shutting(g) /\ c \in todo[g]

ShutInv == Locks /\ Listed /\ Visited

(* The state in which such a step begins.                                  *)
PoolInv == ServerInv /\ ShutInv

(* A step of anybody but a closer.                                         *)
LEMMA ShutFrame ==
  ASSUME PoolInv, UNCHANGED <<poolLock, done, todo>>,
         \A g \in Closers : pc'[g] = pc[g],
         writeConnections' \subseteq writeConnections,
         \A c \in Conns : /\ status'[c] = "ABSENT" <=> status[c] = "ABSENT"
                          /\ ws[c] = "closed" => ws'[c] = "closed"
                          /\ ws'[c] # "closed" /\ pc[c] = "close" => pc'[c] = "close"
                          /\ ws'[c] # "closed" /\ c \in writeConnections =>
                               c \in writeConnections' \/ pc'[c] = "close"
  PROVE  ShutInv'
<1>1. Locks'
  BY DEF PoolInv, ShutInv, Locks, Shutting
<1>2. Listed'
  BY DEF PoolInv, ShutInv, Listed
<1>3. Visited'
  BY DEF PoolInv, ShutInv, Visited, Shutting, ServerInv, ConnInv, LeaseInv, ConnTypes, SharedTypes
<1> QED BY <1>1, <1>2, <1>3 DEF ShutInv

(* A step of a reader goroutine, or of the network.                        *)
LEMMA ShutReader ==
  ASSUME PoolInv, NEW c \in Conns, Reading(c), UNCHANGED serverVars
  PROVE  ShutInv'
<1>0. /\ ConnInv /\ LeaseInv /\ ConnTypes
      /\ pc \in [Goroutines -> Points] /\ status \in [Conns -> Statuses]
      /\ ws \in [Conns -> {"open", "broken", "closed"}]
      /\ connLock \in [Conns -> Goroutines \cup {None}]
      /\ \A d \in Conns : d \in Goroutines
  BY DEF PoolInv, ServerInv, ConnInv, LeaseInv, ConnTypes, SharedTypes, LocalTypes, Goroutines
<1> USE DEF Goto
<1>c. /\ on[c] = c /\ c \in Goroutines /\ pc[c] \in ReaderPc
      /\ status[c] = "ABSENT" => pc[c] = "unborn"
      /\ status[c] = "CLOSED" => ws[c] = "closed"
      /\ pc[c] = "closing" => ws[c] = "closed"
      /\ UNCHANGED <<done, todo, poolLock>> /\ writeConnections' \subseteq writeConnections
      /\ \A g \in Closers : pc'[g] = pc[g]
  BY <1>0, ReaderMoves, ClosersStay DEF LeaseInv, ConnTypes, LocalTypes, Goroutines, Born,
     CloseInv, Follows, Holds, Closing, serverVars
<1>1. CASE Release(c) \/ Offer(c)
  BY <1>0, <1>c, <1>1, ShutFrame DEF Release, Offer, Return
<1>2. CASE Loop(c) \/ ReadError(c) \/ Check(c) \/ AwaitNil(c) \/ Receive(c)
  BY <1>0, <1>c, <1>2, ShutFrame DEF Loop, ReadError, Check, AwaitNil, Receive, ReaderGoto
<1>3. CASE Remove(c)
  BY <1>0, <1>c, <1>3, ShutFrame DEF Remove
<1>4. CASE Close(c)
  BY <1>0, <1>c, <1>4, ShutFrame DEF Close, BeginClose
<1>5. CASE Closed(c)
  BY <1>0, <1>c, <1>5, ShutFrame DEF Closed, EndClose
<1>6. CASE Break(c)
  BY <1>0, <1>c, <1>6, ShutFrame DEF Break
<1> QED BY <1>1, <1>2, <1>3, <1>4, <1>5, <1>6 DEF Reading, ReaderStep

(* A step of a handler or of a ping.                                       *)
LEMMA ShutCaller ==
  ASSUME PoolInv, NEW g \in Callers, Calling(g), UNCHANGED <<poolLock, serverVars>>
  PROVE  ShutInv'
<1>0. /\ ConnInv /\ LeaseInv /\ UseInv /\ ConnTypes
      /\ pc \in [Goroutines -> Points] /\ status \in [Conns -> Statuses]
      /\ ws \in [Conns -> {"open", "broken", "closed"}]
      /\ connLock \in [Conns -> Goroutines \cup {None}]
      /\ \A d \in Conns : d \in Goroutines
  BY DEF PoolInv, ServerInv, ConnInv, LeaseInv, ConnTypes, SharedTypes, LocalTypes, Goroutines
<1> USE DEF Goto
<1>c. /\ g \in Goroutines /\ g \notin Conns /\ g \notin Closers /\ pc[g] \in CallerPc
      /\ on[g] # None <=> on[g] \in Conns
      /\ pc[g] \notin {"ready", "lock", "pop"} => on[g] \in Conns
      /\ on[g] \in Conns => status[on[g]] # "ABSENT"
      /\ pc[g] = "remove" => ws[on[g]] = "closed"
      /\ pc[g] = "closing" => ws[on[g]] = "closed"
      /\ UNCHANGED <<done, todo, poolLock>> /\ writeConnections' \subseteq writeConnections
      /\ \A h \in Closers : pc'[h] = pc[h]
  BY <1>0, Registered, CallerHas, CallerMoves, ClosersStay DEF LeaseInv, ConnTypes, LocalTypes,
     Goroutines, Born, CloseInv, Holds, Closing, UseInv, Uses, serverVars
<1>1. CASE Release(g) \/ Offer(g)
  BY <1>0, <1>c, <1>1, ShutFrame DEF Release, Offer, Return
<1>2. CASE Pop(g) \/ Inspect(g) \/ WriteRequest(g) \/ WritePing(g) \/ PongReceived(g)
           \/ PongTimeout(g)
  BY <1>0, <1>c, <1>2, ShutFrame DEF Pop, Inspect, WriteRequest, Fail, WritePing, PongReceived,
     PongTimeout, PingDone
<1>3. CASE SendHeaderChannel(g) \/ SendBodyChannel(g)
  BY <1>0, <1>c, <1>3, ShutFrame DEF SendHeaderChannel, SendBodyChannel, SendChannel, Return
<1>4. CASE ReadHeader(g) \/ ReadBody(g)
  <2>1. pc[on[g]] = "serve"
    BY <1>0, <1>4 DEF ReadHeader, ReadBody, LeaseInv, Meets
  <2> QED BY <1>0, <1>c, <1>4, <2>1, ShutFrame DEF ReadHeader, ReadBody
<1>5. CASE Close(g) \/ Closed(g)
  BY <1>0, <1>c, <1>5, ShutFrame DEF Close, BeginClose, Closed, EndClose
<1>6. CASE Remove(g)
  BY <1>0, <1>c, <1>6, ShutFrame DEF Remove, Return
<1>7. CASE PopTimeout(g) \/ Take(g)
  BY <1>0, <1>c, <1>7, ShutFrame DEF PopTimeout, Take, Return
<1> QED BY <1>1, <1>2, <1>3, <1>4, <1>5, <1>6, <1>7 DEF Calling, CallerStep

(* A registration, the begin of a call, the cleaner and Shutdown.          *)
LEMMA ShutPool ==
  ASSUME PoolInv, PoolStep
  PROVE  ShutInv'
<1>c. /\ ConnInv /\ LeaseInv /\ UseInv /\ ConnTypes
  BY DEF PoolInv, ServerInv, ConnInv, LeaseInv
<1>0. /\ Cleaner \in Closers /\ \A g \in Closers : g # None /\ g \notin Conns
      /\ \A c \in Conns : status[c] = "CLOSED" => ws[c] = "closed"
      /\ \A g \in Closers : Closing(g) => on[g] \in Conns /\ ws[on[g]] = "closed"
  BY <1>c, Works DEF LeaseInv, Goroutines, CloseInv, Follows, Holds
<1> USE DEF ServerInv, ConnInv, LeaseInv, ConnTypes, SharedTypes, LocalTypes, ServerTypes, Goto,
            Goroutines, Closing
<1>1. ASSUME NEW c \in Conns, Register(c) PROVE ShutInv'
  BY <1>0, <1>1 DEF Register, AddConnection, serverVars, PoolInv, ShutInv, Locks, Listed, Visited,
     Shutting
<1>2. ASSUME NEW g \in Callers,
             (g \in Handlers /\ Request(g)) \/ (g \in Pingers /\ CountBusy(g))
      PROVE  ShutInv'
  BY <1>2, ShutFrame DEF Request, CountBusy, serverVars, PoolInv
<1>3. CASE CleanLock \/ CleanStart \/ CleanEnd \/ CleanKeep
  BY <1>0, <1>3 DEF CleanLock, CleanStart, CleanEnd, CleanKeep, PoolInv, ShutInv, Locks, Listed,
     Visited, Shutting, serverVars
<1>4. CASE CleanClosed
  BY <1>0, <1>4 DEF CleanClosed, EndClose, serverVars, PoolInv, ShutInv, Locks, Listed, Visited,
     Shutting
<1>5. ASSUME NEW c \in Conns, CleanConnection(c) PROVE ShutInv'
  BY <1>0, <1>5 DEF CleanConnection, BeginClose, PoolInv, ShutInv, Locks, Listed, Visited, Shutting
<1>6. ASSUME NEW g \in Closers, ShutdownStart(g) PROVE ShutInv'
  BY <1>0, <1>6 DEF ShutdownStart, PoolInv, ShutInv, Locks, Listed, Visited, Shutting
<1>7. ASSUME NEW g \in Closers, NEW c \in Conns, ShutdownConnection(g, c) PROVE ShutInv'
  <2>1. /\ ws' = ws \/ ws' = [ws EXCEPT ![c] = "closed"]
        /\ ws'[c] = "closed"
        /\ pc' = pc \/ pc' = [pc EXCEPT ![g] = "shutdownClosing"]
        /\ todo' = [todo EXCEPT ![g] = @ \ {c}] /\ pc[g] = "shutdown"
        /\ UNCHANGED <<status, done, writeConnections, poolLock>>
    BY <1>0, <1>7 DEF ShutdownConnection, BeginClose, PoolInv
  <2>2. Locks'
    BY <1>0, <2>1 DEF PoolInv, ShutInv, Locks, Shutting
  <2>3. Listed'
    BY <1>0, <2>1 DEF PoolInv, ShutInv, Listed
  <2>4. \A h \in Closers : Shutting(h) => Shutting(h)'
    BY <1>0, <2>1 DEF Shutting, PoolInv
  <2>5. \A d \in Conns, h \in Closers : d # c /\ d \in todo[h] => d \in todo'[h]
    BY <2>1 DEF PoolInv
  <2>6. Visited'
    BY <2>1, <2>4, <2>5 DEF PoolInv, ShutInv, Visited
  <2> QED BY <2>2, <2>3, <2>6 DEF ShutInv
<1>8. ASSUME NEW g \in Closers, ShutdownClosed(g) PROVE ShutInv'
  BY <1>0, <1>8 DEF ShutdownClosed, EndClose, serverVars, PoolInv, ShutInv, Locks, Listed, Visited,
     Shutting
<1>9. ASSUME NEW g \in Closers, ShutdownEnd(g) PROVE ShutInv'
  BY <1>0, <1>9 DEF ShutdownEnd, PoolInv, ShutInv, Locks, Listed, Visited, Shutting, serverVars
<1>10. ASSUME NEW g \in Closers, DropPool(g) PROVE ShutInv'
  BY <1>0, <1>10 DEF DropPool, PoolInv, ShutInv, Locks, Listed, Visited, Shutting
<1> QED BY <1>1, <1>2, <1>3, <1>4, <1>5, <1>6, <1>7, <1>8, <1>9, <1>10
        DEF PoolStep, Callers

(* A pool that was shut down keeps no connection alive.                    *)
THEOREM ShutdownIsComplete == Spec => []ShutdownLeavesNothing
<1>1. Init => ShutInv
  BY DEF Init, ConnInit, ShutInv, Locks, Listed, Visited, Shutting, Goroutines
<1>2. PoolInv /\ [Next]_vars => ShutInv'
  <2> SUFFICES ASSUME PoolInv, [Next]_vars PROVE ShutInv'
    OBVIOUS
  <2>1. CASE UNCHANGED vars
    BY <2>1, ShutFrame DEF vars, connVars, serverVars
  <2>2. CASE Next
    <3>1. ASSUME SharedStep, UNCHANGED <<poolLock, serverVars>> PROVE ShutInv'
      BY <3>1, ShutReader, ShutCaller DEF SharedStep
    <3> QED BY <2>2, <3>1, NextSplit, ShutPool DEF PoolInv, ServerInv, ConnInv, LeaseInv
  <2> QED BY <2>1, <2>2
<1>3. PoolInv => ShutdownLeavesNothing
  BY DEF PoolInv, ShutInv, Locks, Listed, Visited, ShutdownLeavesNothing, Goroutines
<1> QED BY <1>1, <1>2, <1>3, ServerAlways, PTL DEF Spec, PoolInv
=============================================================================
