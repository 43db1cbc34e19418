--------------------------- MODULE ClientPoolProofs ---------------------------
(***************************************************************************)
(* Proofs about ClientPool, for every set of connections and handlers,     *)
(* every capacity of pool.idle and every idle size.  What the readers and  *)
(* the callers do is proved in ConnectionProofs; here are connector,       *)
(* Shutdown, the begin of a request and the wait for pool.lock.            *)
(***************************************************************************)
EXTENDS ClientPool, FiniteSetTheorems, ConnectionProofs

USE ConnAssumption, ClientAssumption DEF ConnAssumption, ClientAssumption

-----------------------------------------------------------------------------
(* The types of what the client adds to its connections.                   *)
ClientTypes ==
  /\ poolLock \in Handlers \cup Closers \cup {None}
  /\ done \in BOOLEAN /\ killed \in BOOLEAN /\ toCreate \in Int
  /\ todo \in [Closers -> SUBSET Conns]
  /\ \A h \in Handlers : pc[h] = "lock" => on[h] = None
  /\ \A g \in Closers :
       /\ pc[g] \in CloserPc
       /\ on[g] # None <=> pc[g] = "shutdownClosing"

(* Shutdown visits only connections that connector has opened.             *)
Known == \A c \in Conns : pc[c] = "unborn" => \A g \in Closers : c \notin todo[g]

ClientInv == ConnInv /\ ClientTypes /\ Known

(* The types of ClientPool are these.                                      *)
LEMMA TypesSplit ==
  ASSUME ConnTypes, ClientTypes
  PROVE  TypeOK
<1> USE DEF ClientTypes, ConnTypes, SharedTypes, LocalTypes
<1>1. SharedOK
  BY DEF SharedOK
<1>2. ControlOK
  BY DEF ControlOK, Goroutines, Callers
<1>3. LocalOK
  BY DEF LocalOK, Goroutines, Callers
<1> QED BY <1>1, <1>2, <1>3 DEF TypeOK

-----------------------------------------------------------------------------
(* connector, main and Shutdown while they close nothing.                  *)
QuietStep ==
  \/ ConnectorStart \/ ReadsConnected \/ DialFailed \/ ConnectorEnd \/ ConnectorStop \/ Kill
  \/ Serve \/ Signal
  \/ \E g \in Closers : ShutdownStart(g) \/ ShutdownEnd(g)

(* A request begins, and gets pool.lock.                                   *)
CallStep == \E h \in Handlers : Request(h) \/ (LockPool(h) /\ UNCHANGED clientVars)

PoolStep ==
  \/ QuietStep \/ CallStep
  \/ \E c \in Conns : Connect(c)
  \/ \E g \in Closers : ShutdownClosed(g) \/ \E c \in Conns : ShutdownConnection(g, c)

(* A step of the client is one of the pool, or one of a reader or a caller *)
(* that at most gives pool.lock back.                                      *)
LEMMA NextSplit ==
  ASSUME ConnTypes, Next
  PROVE  PoolStep \/ (SharedStep /\ poolLock' \in {poolLock, None} /\ UNCHANGED clientVars)
<1>1. ASSUME NEW c \in Conns, (ReaderStep(c) \/ Receive(c) \/ Break(c)) /\ UNCHANGED clientVars
      PROVE  SharedStep /\ poolLock' \in {poolLock, None} /\ UNCHANGED clientVars
  <2>1. Reading(c)
    BY <1>1 DEF Reading
  <2> QED BY <1>1, <2>1, ReaderMoves DEF SharedStep
<1>2. ASSUME NEW h \in Handlers, ClientCallerStep(h), ~LockPool(h)
      PROVE  SharedStep /\ poolLock' \in {poolLock, None} /\ UNCHANGED clientVars
  <2>1. Calling(h) /\ h \in Callers
    BY <1>2 DEF ClientCallerStep, Calling, ClientPopTimeout, ClientTake, Callers
  <2> QED BY <1>2, <2>1, CallerMoves DEF SharedStep, ClientCallerStep, ClientPopTimeout, ClientTake
<1> QED BY <1>1, <1>2 DEF Next, ConnectorStep, ShutdownStep, ClientReaderStep, ClientCallerStep,
        PoolStep, QuietStep, CallStep

(* A step of a reader or of a caller.                                      *)
LEMMA SharedKeeps ==
  ASSUME ClientInv, SharedStep, poolLock' \in {poolLock, None}, UNCHANGED clientVars
  PROVE  ClientInv' /\ Final /\ Promised
<1> USE DEF ClientInv, ConnInv, LeaseInv, clientVars
<1>1. Kept
  BY ReaderKeeps, CallerKeeps DEF SharedStep
<1>2. \A h \in Closers : pc'[h] = pc[h] /\ on'[h] = on[h]
  BY ClosersStay
<1>3. \A h \in Handlers : pc'[h] = "lock" => on'[h] = None
  BY NobodyLocks DEF ClientTypes, Callers
<1>4. ClientTypes'
  BY <1>2, <1>3 DEF ClientTypes
<1>5. Known'
  BY UnbornStays DEF Known
<1> QED BY <1>1, <1>4, <1>5 DEF Kept

-----------------------------------------------------------------------------
(* A quiet step moves one closer, or none, and drops connections from the  *)
(* list at most.                                                           *)
LEMMA QuietMoves ==
  ASSUME ClientInv, QuietStep
  PROVE  \E g \in Closers, l \in CloserPc \ {"shutdownClosing"} :
           /\ pc[g] # "shutdownClosing" /\ pc' = [pc EXCEPT ![g] = l]
           /\ writeConnections' \subseteq writeConnections
           /\ UNCHANGED <<status, ws, connLock, idle, on, outcome>>
<1> USE DEF Goto, CloserPc
<1>1. CASE ConnectorStart \/ ReadsConnected \/ DialFailed
  BY <1>1 DEF ConnectorStart, ReadsConnected, DialFailed
<1>2. CASE ConnectorEnd \/ ConnectorStop \/ Kill
  BY <1>2 DEF ConnectorEnd, ConnectorStop, Kill
<1>3. CASE Serve \/ Signal
  BY <1>3 DEF Serve, Signal
<1>4. CASE \E g \in Closers : ShutdownStart(g) \/ ShutdownEnd(g)
  BY <1>4 DEF ShutdownStart, ShutdownEnd
<1> QED BY <1>1, <1>2, <1>3, <1>4 DEF QuietStep

(* A step of the pool leaves the connections in order ...                  *)
LEMMA PoolKeeps ==
  ASSUME ClientInv, PoolStep
  PROVE  Kept
<1>0. /\ pc \in [Goroutines -> Points] /\ outcome \in [Callers -> Outcomes]
      /\ \A h \in Handlers : pc[h] \in {"ready", "lock"} => on[h] = None
      /\ Closers \subseteq Goroutines /\ Handlers \subseteq Callers
      /\ CloserPc \subseteq Points /\ ConnInv
  <2>1. CloserPc \subseteq Points
    BY DEF CloserPc, Points, CallerPc
  <2>2. Closers \subseteq Goroutines /\ Handlers \subseteq Callers
    BY DEF Goroutines, Callers
  <2> QED BY <2>1, <2>2 DEF ClientInv, ClientTypes, ConnInv, LeaseInv, ConnTypes, LocalTypes
<1>1. CASE QuietStep
  <2>1. PICK g \in Closers, l \in CloserPc \ {"shutdownClosing"} :
           /\ pc[g] # "shutdownClosing" /\ pc' = [pc EXCEPT ![g] = l]
           /\ writeConnections' \subseteq writeConnections
           /\ UNCHANGED <<status, ws, connLock, idle, on, outcome>>
    BY <1>1, QuietMoves
  <2>2. pc[g] \in CloserPc /\ pc'[g] = l
    BY <1>0, <2>1 DEF ClientInv, ClientTypes
  <2>3. ~Closing(g) /\ ~Closing(g)' /\ pc'[g] # "offer"
    BY <2>1, <2>2 DEF Closing, CloserPc
  <2> QED BY <1>0, <2>1, <2>3, QuietKeeps
<1>2. ASSUME NEW h \in Handlers, Request(h) PROVE Kept
  <2>1. outcome' \in [Callers -> Outcomes]
    BY <1>0, <1>2 DEF Request, Outcomes
  <2> QED BY <1>0, <1>2, <2>1, QuietKeeps DEF Request, Goto
<1>3. ASSUME NEW h \in Handlers, LockPool(h) PROVE Kept
  BY <1>0, <1>3, QuietKeeps DEF LockPool, Goto
<1>4. ASSUME NEW c \in Conns, Connect(c) PROVE Kept
  BY <1>0, <1>4, JoinKeeps DEF Connect, Goto
<1>5. ASSUME NEW g \in Closers, NEW c \in Conns, ShutdownConnection(g, c) PROVE Kept
  <2>1. CASE UNCHANGED <<status, ws, connLock, on, pc>>
    BY <1>0, <1>5, <2>1, QuietKeeps DEF ShutdownConnection
  <2>2. CASE status[c] # "CLOSED" /\ BeginClose(g, c) /\ on' = [on EXCEPT ![g] = c]
             /\ pc' = [pc EXCEPT ![g] = "shutdownClosing"]
    <3>1. pc[c] # "unborn" /\ ~Closing(g)
      BY <1>5 DEF ShutdownConnection, ClientInv, Known, Closing
    <3> QED BY <1>0, <1>5, <2>2, <3>1, BeginKeeps DEF ShutdownConnection
  <2> QED BY <1>5, <2>1, <2>2 DEF ShutdownConnection, Goto
<1>6. ASSUME NEW g \in Closers, ShutdownClosed(g) PROVE Kept
  <2>1. Closing(g) /\ "shutdown" \in Points
    BY <1>6 DEF ShutdownClosed, Closing, Points
  <2> QED BY <1>0, <1>6, <2>1, EndKeeps DEF ShutdownClosed, Goto
<1> QED BY <1>1, <1>2, <1>3, <1>4, <1>5, <1>6 DEF PoolStep, CallStep

(* Size counts connections of the list.                                    *)
LEMMA SizeType ==
  ASSUME IsFiniteSet(writeConnections)
  PROVE  Size \in Nat /\ Cardinality(writeConnections) \in Nat
BY FS_Subset, FS_CardinalityType DEF Size

(* ... and its own state too.                                              *)
LEMMA PoolTypes ==
  ASSUME ClientInv, IsFiniteSet(writeConnections), PoolStep
  PROVE  ClientTypes' /\ Known'
<1> USE DEF ClientTypes, Known, Goto
<1>0. /\ pc \in [Goroutines -> Points] /\ on \in [Goroutines -> Conns \cup {None}]
      /\ None \notin Conns /\ writeConnections \subseteq Conns
      /\ \A g \in Closers : g \in Goroutines /\ g \notin Conns /\ g \notin Handlers
      /\ \A h \in Handlers : h \in Goroutines /\ h \notin Conns
      /\ \A c \in Conns : c \in Goroutines
      /\ \A c \in Conns : pc[c] = "unborn" => c \notin writeConnections
      /\ \A h \in Handlers : pc[h] = "ready" => on[h] = None
      /\ ClientTypes /\ Known
  BY DEF ClientInv, ConnInv, LeaseInv, ConnTypes, SharedTypes, LocalTypes, Goroutines, Callers,
     CloseInv, Unborn
<1>1. CASE QuietStep
  <2>1. PICK g \in Closers, l \in CloserPc \ {"shutdownClosing"} :
           /\ pc[g] # "shutdownClosing" /\ pc' = [pc EXCEPT ![g] = l]
           /\ writeConnections' \subseteq writeConnections
           /\ UNCHANGED <<status, ws, connLock, idle, on, outcome>>
    BY <1>1, QuietMoves
  <2>2. \A k \in Goroutines : pc'[k] = IF k = g THEN l ELSE pc[k]
    BY <1>0, <2>1
  <2>3. /\ poolLock' \in Handlers \cup Closers \cup {None}
        /\ done' \in BOOLEAN /\ killed' \in BOOLEAN /\ toCreate' \in Int
        /\ \/ todo' = todo
           \/ \E h \in Closers : todo' = [todo EXCEPT ![h] = writeConnections]
    <3>1. CASE ConnectorStart
      <4>1. toCreate' \in Int
        BY <1>0, <3>1, SizeType DEF ConnectorStart, ConnectionsToCreate
      <4> QED BY <1>0, <3>1, <4>1 DEF ConnectorStart
    <3>2. CASE ReadsConnected \/ DialFailed \/ ConnectorEnd \/ ConnectorStop
      BY <1>0, <3>2 DEF ReadsConnected, DialFailed, ConnectorEnd, ConnectorStop, clientVars
    <3>3. CASE Kill \/ Serve \/ Signal
      BY <1>0, <3>3 DEF Kill, Serve, Signal, clientVars
    <3>4. CASE \E h \in Closers : ShutdownStart(h) \/ ShutdownEnd(h)
      BY <1>0, <3>4 DEF ShutdownStart, ShutdownEnd, clientVars
    <3> QED BY <1>1, <3>1, <3>2, <3>3, <3>4 DEF QuietStep
  <2>4. ClientTypes'
    BY <1>0, <2>1, <2>2, <2>3
  <2>5. Known'
    BY <1>0, <2>1, <2>2, <2>3
  <2> QED BY <2>4, <2>5
<1>2. ASSUME NEW h \in Handlers,
             Request(h) \/ (LockPool(h) /\ UNCHANGED clientVars)
      PROVE  ClientTypes' /\ Known'
  <2>1. /\ pc' = pc \/ \E l \in {"lock", "pop"} : pc' = [pc EXCEPT ![h] = l]
        /\ poolLock' \in {poolLock, h} /\ on[h] = None
        /\ UNCHANGED <<on, done, killed, toCreate, todo>>
    BY <1>0, <1>2 DEF Request, LockPool, clientVars
  <2>2. \A k \in Goroutines : pc'[k] = pc[k] \/ (k = h /\ pc'[k] \in {"lock", "pop"})
    BY <1>0, <2>1
  <2>3. ClientTypes'
    BY <1>0, <2>1, <2>2
  <2> QED BY <1>0, <2>1, <2>2, <2>3
<1>3. ASSUME NEW c \in Conns, Connect(c) PROVE ClientTypes' /\ Known'
  <2>1. /\ pc' = [pc EXCEPT ![c] = "release"] /\ toCreate' = toCreate - 1
        /\ UNCHANGED <<poolLock, on, done, killed, todo>>
    BY <1>3 DEF Connect
  <2>2. \A k \in Goroutines : pc'[k] = pc[k] \/ (k = c /\ pc'[k] = "release")
    BY <1>0, <2>1
  <2> QED BY <1>0, <2>1, <2>2
<1>4. ASSUME NEW g \in Closers, NEW c \in Conns, ShutdownConnection(g, c)
      PROVE  ClientTypes' /\ Known'
  <2>1. /\ pc[g] = "shutdown" /\ todo' = [todo EXCEPT ![g] = @ \ {c}]
        /\ UNCHANGED <<poolLock, done, killed, toCreate>>
    BY <1>4 DEF ShutdownConnection
  <2>2. CASE UNCHANGED <<on, pc>>
    BY <1>0, <2>1, <2>2
  <2>3. CASE on' = [on EXCEPT ![g] = c] /\ pc' = [pc EXCEPT ![g] = "shutdownClosing"]
    BY <1>0, <2>1, <2>3 DEF CloserPc
  <2> QED BY <1>4, <2>2, <2>3 DEF ShutdownConnection
<1>5. ASSUME NEW g \in Closers, ShutdownClosed(g) PROVE ClientTypes' /\ Known'
  BY <1>0, <1>5 DEF ShutdownClosed, clientVars, CloserPc
<1> QED BY <1>1, <1>2, <1>3, <1>4, <1>5 DEF PoolStep, CallStep

-----------------------------------------------------------------------------
(* The number of connections.                                              *)

(* While connector opens connections, those that are there and those that  *)
(* it has still to open are not more than PoolMaxSize together.            *)
Bounded ==
  /\ IsFiniteSet(writeConnections)
  /\ MaxConnections
  /\ pc[Connector] \in {"dial", "create"} =>
       toCreate + Cardinality(writeConnections) <= PoolMaxSize

(* Nobody but connector, when it starts and when a dial succeeded, makes   *)
(* the list longer or has more connections opened.                         *)
Shrinks ==
  /\ writeConnections' \subseteq writeConnections
  /\ pc'[Connector] \in {"dial", "create"} =>
       pc[Connector] \in {"dial", "create"} /\ toCreate' = toCreate

(* A step that only shrinks the list keeps the bound.                      *)
LEMMA ShrinkStep ==
  ASSUME ClientTypes, Bounded, Shrinks
  PROVE  Bounded'
<1>1. /\ IsFiniteSet(writeConnections')
      /\ Cardinality(writeConnections') <= Cardinality(writeConnections)
  BY FS_Subset DEF Bounded, Shrinks
<1>2. Cardinality(writeConnections) \in Nat /\ Cardinality(writeConnections') \in Nat
  BY <1>1, FS_CardinalityType DEF Bounded
<1> QED BY <1>1, <1>2 DEF Bounded, Shrinks, MaxConnections, ClientTypes

(* A step of a reader or of a caller does.                                 *)
LEMMA SharedShrinks ==
  ASSUME ConnTypes, SharedStep, UNCHANGED clientVars
  PROVE  Shrinks
<1>1. writeConnections' \subseteq writeConnections
  BY ReaderMoves, CallerMoves DEF SharedStep
<1>2. pc'[Connector] = pc[Connector]
  BY ClosersStay
<1> QED BY <1>1, <1>2 DEF Shrinks, clientVars

(* A step of the pool keeps the bound.                                     *)
LEMMA BoundStep ==
  ASSUME ClientInv, Bounded, PoolStep
  PROVE  Bounded'
<1>0. /\ Connector \in Closers /\ Connector \in Goroutines /\ Connector \notin Conns
      /\ Connector \notin Handlers /\ pc \in [Goroutines -> Points]
      /\ ClientTypes
  BY DEF ClientInv, ConnInv, LeaseInv, ConnTypes, LocalTypes, Goroutines, Callers
<1>1. CASE ConnectorStart
  <2>1. Size \in Nat /\ Cardinality(writeConnections) \in Nat
    BY SizeType DEF Bounded
  <2>2. toCreate' + Cardinality(writeConnections) <= PoolMaxSize
    BY <1>1, <2>1 DEF ConnectorStart, ConnectionsToCreate
  <2> QED BY <1>1, <2>2 DEF ConnectorStart, Bounded, MaxConnections
<1>2. ASSUME NEW c \in Conns, Connect(c) PROVE Bounded'
  <2>1. Cardinality(writeConnections) \in Nat
    BY SizeType DEF Bounded
  <2>2. /\ IsFiniteSet(writeConnections')
        /\ \/ Cardinality(writeConnections') = Cardinality(writeConnections)
           \/ Cardinality(writeConnections') = Cardinality(writeConnections) + 1
    BY <1>2, FS_AddElement DEF Connect, Bounded
  <2>3. toCreate' = toCreate - 1 /\ toCreate > 0 /\ toCreate \in Int
    BY <1>0, <1>2 DEF Connect, ClientTypes
  <2>4. toCreate + Cardinality(writeConnections) <= PoolMaxSize
    BY <1>2 DEF Connect, Bounded
  <2> QED BY <2>1, <2>2, <2>3, <2>4 DEF Bounded, MaxConnections
<1>3. ASSUME writeConnections' \subseteq writeConnections,
             pc'[Connector] \in {"dial", "create"} =>
               pc[Connector] \in {"dial", "create"} /\ toCreate' = toCreate
      PROVE  Bounded'
  BY <1>0, <1>3, ShrinkStep DEF Shrinks
<1>4. CASE ReadsConnected \/ DialFailed \/ ConnectorEnd \/ ConnectorStop \/ Kill
  BY <1>0, <1>3, <1>4 DEF ReadsConnected, DialFailed, ConnectorEnd, ConnectorStop, Kill, Goto,
     clientVars
<1>5. CASE Serve \/ Signal \/ CallStep
  BY <1>0, <1>3, <1>5 DEF Serve, Signal, CallStep, Request, LockPool, Goto, clientVars
<1>6. ASSUME NEW g \in Closers, ShutdownStep(g) PROVE Bounded'
  BY <1>0, <1>3, <1>6 DEF ShutdownStep, ShutdownStart, ShutdownConnection, ShutdownClosed,
     ShutdownEnd, Goto, clientVars
<1> QED BY <1>1, <1>2, <1>4, <1>5, <1>6 DEF PoolStep, QuietStep, ShutdownStep

-----------------------------------------------------------------------------
PoolInv == ClientInv /\ Bounded

(* The pool begins without a connection.                                   *)
LEMMA PoolBegins == Init => PoolInv /\ Abstract!Init
<1> SUFFICES ASSUME Init PROVE PoolInv /\ Abstract!Init
  OBVIOUS
<1>1. ConnInv /\ Abstract!Init
  BY ConnBegins DEF Init
<1>2. ClientTypes /\ Known
  <2>1. \A g \in Callers \cup Closers : pc[g] = "ready" /\ on[g] = None
    BY DEF Init, ConnInit, Goroutines
  <2>2. /\ poolLock = None /\ done = FALSE /\ killed = FALSE /\ toCreate = 0
        /\ todo = [g \in Closers |-> {}]
    BY DEF Init, ConnInit
  <2>3. done \in BOOLEAN /\ killed \in BOOLEAN
    BY <2>2
  <2>4. toCreate \in Int /\ todo \in [Closers -> SUBSET Conns]
    BY <2>2
  <2>5. ClientTypes
    BY <2>1, <2>2, <2>3, <2>4 DEF ClientTypes, CloserPc, Callers
  <2> QED BY <2>2, <2>5 DEF Known
<1>3. Bounded
  BY FS_EmptySet DEF Init, ConnInit, Bounded, MaxConnections, Goroutines
<1> QED BY <1>1, <1>2, <1>3 DEF PoolInv, ClientInv

(* Every step keeps the invariant and the promise of the abstract lease.   *)
LEMMA PoolStepKeeps == PoolInv /\ [Next]_vars => PoolInv' /\ Promised
<1> SUFFICES ASSUME PoolInv, [Next]_vars PROVE PoolInv' /\ Promised
  OBVIOUS
<1>0. ClientInv /\ ConnInv /\ ConnTypes /\ ClientTypes /\ Bounded /\ IsFiniteSet(writeConnections)
  BY DEF PoolInv, ClientInv, ConnInv, LeaseInv, Bounded
<1>1. CASE UNCHANGED vars
  <2>1. Kept
    BY <1>0, <1>1, QuietKeeps DEF vars, connVars, ConnTypes, LocalTypes
  <2>2. ClientTypes' /\ Known' /\ Bounded'
    BY <1>0, <1>1 DEF vars, connVars, clientVars, PoolInv, ClientInv, ClientTypes, Known, Bounded,
       MaxConnections
  <2> QED BY <2>1, <2>2 DEF Kept, PoolInv, ClientInv
<1>2. CASE PoolStep
  BY <1>0, <1>2, PoolKeeps, PoolTypes, BoundStep DEF Kept, PoolInv, ClientInv
<1>3. CASE SharedStep /\ poolLock' \in {poolLock, None} /\ UNCHANGED clientVars
  BY <1>0, <1>3, SharedKeeps, SharedShrinks, ShrinkStep DEF PoolInv
<1> QED BY <1>0, <1>1, <1>2, <1>3, NextSplit

(* The invariant holds in every reachable state.                           *)
LEMMA PoolAlways == Spec => []PoolInv
BY PoolBegins, PoolStepKeeps, PTL DEF Spec

(* The types are right in every reachable state: in particular pool.idle   *)
(* never exceeds its capacity.                                             *)
THEOREM TypeCorrect == Spec => []TypeOK
<1>1. PoolInv => TypeOK
  BY TypesSplit DEF PoolInv, ClientInv, ConnInv, LeaseInv
<1> QED BY <1>1, PoolAlways, PTL

(* connector never opens more than PoolMaxSize connections, whatever the   *)
(* callers, the readers and Shutdown do between its count and its dials.   *)
THEOREM NeverTooMany == Spec => []MaxConnections
<1>1. PoolInv => MaxConnections
  BY DEF PoolInv, Bounded
<1> QED BY <1>1, PoolAlways, PTL

(* nextResponse is closed once, although a reader, a handler, connector    *)
(* with a rejected key and main at a signal may all close a connection.    *)
THEOREM ClosedOnce == Spec => []CloseOnce
<1>1. PoolInv => CloseOnce
  BY ConnSafety DEF PoolInv, ClientInv
<1> QED BY <1>1, PoolAlways, PTL

(* No connection is lost, whoever holds pool.lock: an idle one is in       *)
(* pool.idle or on its way to or from there, a busy one has a request that *)
(* will release or close it, or that was aborted by WriteHeader.           *)
THEOREM NoneLost == Spec => []NoLostConnection
<1>1. PoolInv => NoLostConnection
  BY ConnSafety DEF PoolInv, ClientInv
<1> QED BY <1>1, PoolAlways, PTL

(* Every behaviour of the client's pool is one of the abstract lease: a    *)
(* request gets a live connection nobody has, and a closed one is never    *)
(* given out, also while connector opens and Shutdown closes connections.  *)
THEOREM LeaseImplemented == Spec => ImplementsLease
<1>1. PoolInv /\ [Next]_vars => [Abstract!Next]_(Abstract!leaseVars)
  BY PoolStepKeeps DEF Promised
<1>2. Init => Abstract!Init
  BY PoolBegins
<1> QED BY <1>1, <1>2, PoolAlways, PTL DEF Spec, ImplementsLease, Abstract!Spec
=============================================================================
