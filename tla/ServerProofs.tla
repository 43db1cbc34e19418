---------------------------- MODULE ServerProofs ----------------------------
(* That the registry loses no registration and reports no false loss, for  *)
(* any number of clients, pools and registrations.                         *)
EXTENDS Server, TLAPS

USE RegistryAssumption DEF RegistryAssumption

ConnPc == {"new", "lock", "find", "add", "serve", "orphan", "stray", "close", "end"}
Loops == {"cleaner", "main", "sync"}

(* The types of all variables, and where each kind of goroutine can be.    *)
Types ==
  /\ pools \in [Clients -> Pools \cup {None}] /\ fresh \in [Clients -> Pools \cup {None}]
  /\ lock \in Conns \cup {"cleaner", None} /\ stopped \in BOOLEAN
  /\ owner \in [Pools -> Clients \cup {None}] /\ members \in [Pools -> SUBSET Conns]
  /\ dead \subseteq Pools /\ open \subseteq Conns
  /\ pc \in [Actors -> ConnPc \cup {"ready", "clean", "collect", "shutdown", "exit", "ask"}]
  /\ \A r \in Conns : pc[r] \in ConnPc
  /\ pc["cleaner"] \in {"ready", "clean", "collect"}
  /\ pc["main"] \in {"ready", "shutdown", "exit"}
  /\ pc["sync"] \in {"ready", "ask"}
  /\ client \in [Conns -> Clients \cup {None}]
  /\ at \in [Conns \cup {"cleaner"} -> Pools \cup {None}]
  /\ todo \in [Loops -> SUBSET (Clients \X Pools)]
  /\ report \in [Clients -> {"absent", "up", "down"}]

(* s.lock is held from its Lock to its Unlock, and a server that shuts     *)
(* down has closed s.done.                                                 *)
Held ==
  /\ \A r \in Conns : pc[r] \in {"find", "add"} => lock = r
  /\ pc["cleaner"] # "ready" => lock = "cleaner"
  /\ pc["main"] # "ready" => stopped

(* A pool belongs to one client for good, wherever it is known from.       *)
Owned ==
  /\ \A c \in Clients : pools[c] # None => owner[pools[c]] = c
  /\ \A c \in Clients : fresh[c] # None => owner[fresh[c]] = c
  /\ \A g \in Loops : \A e \in todo[g] : owner[e[2]] = e[1]
  /\ \A p \in dead : owner[p] # None
  /\ pc["cleaner"] = "collect" => at["cleaner"] \in Pools /\ owner[at["cleaner"]] # None

(* What a registration has reached, and that pools hold what was added.    *)
Placed ==
  /\ \A r \in Conns : pc[r] \in {"lock", "find", "add", "serve"} => client[r] \in Clients
  /\ \A r \in Conns : pc[r] \in {"add", "serve"} =>
       at[r] \in Pools /\ owner[at[r]] = client[r]
  /\ \A p \in Pools : \A r \in members[p] : pc[r] = "serve" /\ at[r] = p
  /\ pc["cleaner"] = "collect" => members[at["cleaner"]] = {}

(* The map and the dead pools have nothing in common, and a registration   *)
(* goes to a pool that is in the map.                                      *)
Mapped ==
  ~stopped =>
    /\ \A p \in Pools : members[p] # {} => pools[owner[p]] = p
    /\ \A r \in Conns : pc[r] # "orphan" /\ (pc[r] = "add" => pools[client[r]] = at[r])
    /\ pc["cleaner"] = "ready" => \A p \in dead, c \in Clients : pools[c] # p

(* The new map of clean together with what it has still to visit: every    *)
(* pool with connections is in one of them, once, and no dead pool is.     *)
Sweep ==
  ~stopped /\ pc["cleaner"] # "ready" =>
    /\ \A p \in Pools : members[p] # {} =>
         <<owner[p], p>> \in todo["cleaner"] \/ fresh[owner[p]] = p
    /\ \A p \in dead, c \in Clients : fresh[c] # p /\ <<c, p>> \notin todo["cleaner"]
    /\ pc["cleaner"] = "collect" =>
         \A c \in Clients : fresh[c] # at["cleaner"] /\ <<c, at["cleaner"]>> \notin todo["cleaner"]
    /\ \A e \in todo["cleaner"] : fresh[e[1]] = None
    /\ \A e, f \in todo["cleaner"] : e[1] = f[1] => e = f

(* A client that stayed connected is in the report or will be.             *)
Round ==
  ~stopped /\ pc["sync"] = "ask" =>
    \A c \in steady : report[c] # "absent" \/ \E e \in todo["sync"] : e[1] = c

IInv == Types /\ Held /\ Owned /\ Placed /\ Mapped /\ Sweep /\ Round

-----------------------------------------------------------------------------
(* The steps, one conjunct of the invariant after the other.  Registration *)
(* and clean need each other's conjuncts only through s.lock.              *)
LEMMA TypesStep ==
  Types /\ Held /\ Owned /\ Placed /\ Step => Types'
<1> SUFFICES ASSUME Types, Held, Owned, Placed, Step PROVE Types'
  OBVIOUS
<1> USE DEF Goto, Actors, Loops, mapVars, poolVars, syncVars, Types, Held, Owned,
            Placed, ConnPc, NoPools
<1>1. ASSUME NEW r \in Conns, Greet(r) PROVE Types'
  BY <1>1 DEF Greet
<1>2. ASSUME NEW r \in Conns, RegisterLock(r) PROVE Types'
  BY <1>2 DEF RegisterLock
<1>3. ASSUME NEW r \in Conns, FindPool(r) PROVE Types'
  BY <1>3 DEF FindPool
<1>4. ASSUME NEW r \in Conns, AddConnection(r) PROVE Types'
  BY <1>4 DEF AddConnection
<1>5. ASSUME NEW r \in Conns, Leave(r) PROVE Types'
  BY <1>5 DEF Leave
<1>6. ASSUME NEW r \in Conns, CloseConnection(r) PROVE Types'
  BY <1>6 DEF CloseConnection
<1>7. CASE CleanStart
  BY <1>7 DEF CleanStart, Entries
<1>8. CASE CleanPool
  BY <1>8 DEF CleanPool
<1>9. CASE CleanCollect
  BY <1>9 DEF CleanCollect, Drop
<1>10. CASE CleanEnd
  BY <1>10 DEF CleanEnd
<1>11. CASE ShutdownStart
  BY <1>11 DEF ShutdownStart, Entries
<1>12. CASE ShutdownPool
  BY <1>12 DEF ShutdownPool, Drop
<1>13. CASE ShutdownEnd
  BY <1>13 DEF ShutdownEnd
<1>14. CASE SyncStart
  BY <1>14 DEF SyncStart, Entries
<1>15. CASE SyncClient
  BY <1>15 DEF SyncClient
<1>16. CASE PushData
  BY <1>16 DEF PushData, Delivers
<1>17. QED
  BY <1>1, <1>2, <1>3, <1>4, <1>5, <1>6, <1>7, <1>8, <1>9, <1>10, <1>11, <1>12, <1>13,
     <1>14, <1>15, <1>16 DEF Step, RegisterStep, CleanStep, SyncStep

(* A goroutine comes to where s.lock is needed only by taking it.          *)
LEMMA HeldStep ==
  Types /\ Held /\ Step => Held'
<1> SUFFICES ASSUME Types, Held, Step PROVE Held'
  OBVIOUS
<1> USE DEF Goto, Actors, Loops, mapVars, poolVars, syncVars, Types, Held, ConnPc
<1>1. ASSUME NEW r \in Conns, Greet(r) PROVE Held'
  BY <1>1 DEF Greet
<1>2. ASSUME NEW r \in Conns, RegisterLock(r) PROVE Held'
  BY <1>2 DEF RegisterLock
<1>3. ASSUME NEW r \in Conns, FindPool(r) PROVE Held'
  BY <1>3 DEF FindPool
<1>4. ASSUME NEW r \in Conns, AddConnection(r) PROVE Held'
  BY <1>4 DEF AddConnection
<1>5. ASSUME NEW r \in Conns, Leave(r) PROVE Held'
  BY <1>5 DEF Leave
<1>6. ASSUME NEW r \in Conns, CloseConnection(r) PROVE Held'
  BY <1>6 DEF CloseConnection
<1>7. CASE CleanStart
  BY <1>7 DEF CleanStart, Entries
<1>8. CASE CleanPool
  BY <1>8 DEF CleanPool
<1>9. CASE CleanCollect
  BY <1>9 DEF CleanCollect, Drop
<1>10. CASE CleanEnd
  BY <1>10 DEF CleanEnd
<1>11. CASE ShutdownStart
  BY <1>11 DEF ShutdownStart, Entries
<1>12. CASE ShutdownPool
  BY <1>12 DEF ShutdownPool, Drop
<1>13. CASE ShutdownEnd
  BY <1>13 DEF ShutdownEnd
<1>14. CASE SyncStart
  BY <1>14 DEF SyncStart, Entries
<1>15. CASE SyncClient
  BY <1>15 DEF SyncClient
<1>16. CASE PushData
  BY <1>16 DEF PushData, Delivers
<1>17. QED
  BY <1>1, <1>2, <1>3, <1>4, <1>5, <1>6, <1>7, <1>8, <1>9, <1>10, <1>11, <1>12, <1>13,
     <1>14, <1>15, <1>16 DEF Step, RegisterStep, CleanStep, SyncStep

(* owner changes only for a pool nobody knows yet, when FindPool makes it. *)
LEMMA OwnedStep ==
  Types /\ Held /\ Owned /\ Placed /\ Step => Owned'
<1> SUFFICES ASSUME Types, Held, Owned, Placed, Step PROVE Owned'
  OBVIOUS
<1> USE DEF Goto, Actors, Loops, mapVars, poolVars, syncVars, Types, Held, Owned,
            Placed, NoPools
<1>1. ASSUME NEW r \in Conns, Greet(r) PROVE Owned'
  BY <1>1 DEF Greet
<1>2. ASSUME NEW r \in Conns, RegisterLock(r) PROVE Owned'
  BY <1>2 DEF RegisterLock
<1>3. ASSUME NEW r \in Conns, FindPool(r) PROVE Owned'
  BY <1>3 DEF FindPool
<1>4. ASSUME NEW r \in Conns, AddConnection(r) PROVE Owned'
  BY <1>4 DEF AddConnection
<1>5. ASSUME NEW r \in Conns, Leave(r) PROVE Owned'
  BY <1>5 DEF Leave
<1>6. ASSUME NEW r \in Conns, CloseConnection(r) PROVE Owned'
  BY <1>6 DEF CloseConnection
<1>7. CASE CleanStart
  BY <1>7 DEF CleanStart, Entries
<1>8. CASE CleanPool
  BY <1>8 DEF CleanPool
<1>9. CASE CleanCollect
  BY <1>9 DEF CleanCollect, Drop
<1>10. CASE CleanEnd
  BY <1>10 DEF CleanEnd
<1>11. CASE ShutdownStart
  BY <1>11 DEF ShutdownStart, Entries
<1>12. CASE ShutdownPool
  BY <1>12 DEF ShutdownPool, Drop
<1>13. CASE ShutdownEnd
  BY <1>13 DEF ShutdownEnd
<1>14. CASE SyncStart
  BY <1>14 DEF SyncStart, Entries
<1>15. CASE SyncClient
  BY <1>15 DEF SyncClient
<1>16. CASE PushData
  BY <1>16 DEF PushData, Delivers
<1>17. QED
  BY <1>1, <1>2, <1>3, <1>4, <1>5, <1>6, <1>7, <1>8, <1>9, <1>10, <1>11, <1>12, <1>13,
     <1>14, <1>15, <1>16 DEF Step, RegisterStep, CleanStep, SyncStep

(* A pool that was found empty stays empty: who adds needs s.lock.         *)
LEMMA PlacedStep ==
  Types /\ Held /\ Owned /\ Placed /\ Step => Placed'
<1> SUFFICES ASSUME Types, Held, Owned, Placed, Step PROVE Placed'
  OBVIOUS
<1> USE DEF Goto, Actors, Loops, mapVars, poolVars, syncVars, Types, Held, Owned, Placed
<1>1. ASSUME NEW r \in Conns, Greet(r) PROVE Placed'
  BY <1>1 DEF Greet
<1>2. ASSUME NEW r \in Conns, RegisterLock(r) PROVE Placed'
  BY <1>2 DEF RegisterLock
<1>3. ASSUME NEW r \in Conns, FindPool(r) PROVE Placed'
  BY <1>3 DEF FindPool
<1>4. ASSUME NEW r \in Conns, AddConnection(r) PROVE Placed'
  BY <1>4 DEF AddConnection
<1>5. ASSUME NEW r \in Conns, Leave(r) PROVE Placed'
  BY <1>5 DEF Leave
<1>6. ASSUME NEW r \in Conns, CloseConnection(r) PROVE Placed'
  BY <1>6 DEF CloseConnection
<1>7. CASE CleanStart
  BY <1>7 DEF CleanStart, Entries
<1>8. CASE CleanPool
  BY <1>8 DEF CleanPool
<1>9. CASE CleanCollect
  BY <1>9 DEF CleanCollect, Drop
<1>10. CASE CleanEnd
  BY <1>10 DEF CleanEnd
<1>11. CASE ShutdownStart
  BY <1>11 DEF ShutdownStart, Entries
<1>12. CASE ShutdownPool
  BY <1>12 DEF ShutdownPool, Drop
<1>13. CASE ShutdownEnd
  BY <1>13 DEF ShutdownEnd
<1>14. CASE SyncStart
  BY <1>14 DEF SyncStart, Entries
<1>15. CASE SyncClient
  BY <1>15 DEF SyncClient
<1>16. CASE PushData
  BY <1>16 DEF PushData, Delivers
<1>17. QED
  BY <1>1, <1>2, <1>3, <1>4, <1>5, <1>6, <1>7, <1>8, <1>9, <1>10, <1>11, <1>12, <1>13,
     <1>14, <1>15, <1>16 DEF Step, RegisterStep, CleanStep, SyncStep

(* FindPool cannot put a dead pool into the map, and the map that CleanEnd *)
(* puts there has every pool with connections and none that was collected. *)
LEMMA MappedStep ==
  Types /\ Held /\ Owned /\ Placed /\ Mapped /\ Sweep /\ Step => Mapped'
<1> SUFFICES ASSUME Types, Held, Owned, Placed, Mapped, Sweep, Step PROVE Mapped'
  OBVIOUS
<1> USE DEF Goto, Actors, Loops, mapVars, poolVars, syncVars, Types, Held, Owned,
            Placed, Mapped, Sweep
<1>1. ASSUME NEW r \in Conns, Greet(r) PROVE Mapped'
  BY <1>1 DEF Greet
<1>2. ASSUME NEW r \in Conns, RegisterLock(r) PROVE Mapped'
  BY <1>2 DEF RegisterLock
<1>3. ASSUME NEW r \in Conns, FindPool(r) PROVE Mapped'
  BY <1>3 DEF FindPool
<1>4. ASSUME NEW r \in Conns, AddConnection(r) PROVE Mapped'
  BY <1>4 DEF AddConnection
<1>5. ASSUME NEW r \in Conns, Leave(r) PROVE Mapped'
  BY <1>5 DEF Leave
<1>6. ASSUME NEW r \in Conns, CloseConnection(r) PROVE Mapped'
  BY <1>6 DEF CloseConnection
<1>7. CASE CleanStart
  BY <1>7 DEF CleanStart, Entries
<1>8. CASE CleanPool
  BY <1>8 DEF CleanPool
<1>9. CASE CleanCollect
  BY <1>9 DEF CleanCollect, Drop
<1>10. CASE CleanEnd
  BY <1>10 DEF CleanEnd
<1>11. CASE ShutdownStart
  BY <1>11 DEF ShutdownStart, Entries
<1>12. CASE ShutdownPool
  BY <1>12 DEF ShutdownPool, Drop
<1>13. CASE ShutdownEnd
  BY <1>13 DEF ShutdownEnd
<1>14. CASE SyncStart
  BY <1>14 DEF SyncStart, Entries
<1>15. CASE SyncClient
  BY <1>15 DEF SyncClient
<1>16. CASE PushData
  BY <1>16 DEF PushData, Delivers
<1>17. QED
  BY <1>1, <1>2, <1>3, <1>4, <1>5, <1>6, <1>7, <1>8, <1>9, <1>10, <1>11, <1>12, <1>13,
     <1>14, <1>15, <1>16 DEF Step, RegisterStep, CleanStep, SyncStep

(* clean sees each entry of the map once, and nobody adds to it meanwhile. *)
LEMMA SweepStep ==
  Types /\ Held /\ Owned /\ Placed /\ Mapped /\ Sweep /\ Step => Sweep'
<1> SUFFICES ASSUME Types, Held, Owned, Placed, Mapped, Sweep, Step PROVE Sweep'
  OBVIOUS
<1> USE DEF Goto, Actors, Loops, mapVars, poolVars, syncVars, Types, Held, Owned,
            Placed, Mapped, Sweep, NoPools
<1>1. ASSUME NEW r \in Conns, Greet(r) PROVE Sweep'
  BY <1>1 DEF Greet
<1>2. ASSUME NEW r \in Conns, RegisterLock(r) PROVE Sweep'
  BY <1>2 DEF RegisterLock
<1>3. ASSUME NEW r \in Conns, FindPool(r) PROVE Sweep'
  BY <1>3 DEF FindPool
<1>4. ASSUME NEW r \in Conns, AddConnection(r) PROVE Sweep'
  BY <1>4 DEF AddConnection
<1>5. ASSUME NEW r \in Conns, Leave(r) PROVE Sweep'
  BY <1>5 DEF Leave
<1>6. ASSUME NEW r \in Conns, CloseConnection(r) PROVE Sweep'
  BY <1>6 DEF CloseConnection
<1>7. CASE CleanStart
  BY <1>7 DEF CleanStart, Entries
<1>8. CASE CleanPool
  BY <1>8 DEF CleanPool
<1>9. CASE CleanCollect
  BY <1>9 DEF CleanCollect, Drop
<1>10. CASE CleanEnd
  BY <1>10 DEF CleanEnd
<1>11. CASE ShutdownStart
  BY <1>11 DEF ShutdownStart, Entries
<1>12. CASE ShutdownPool
  BY <1>12 DEF ShutdownPool, Drop
<1>13. CASE ShutdownEnd
  BY <1>13 DEF ShutdownEnd
<1>14. CASE SyncStart
  BY <1>14 DEF SyncStart, Entries
<1>15. CASE SyncClient
  BY <1>15 DEF SyncClient
<1>16. CASE PushData
  BY <1>16 DEF PushData, Delivers
<1>17. QED
  BY <1>1, <1>2, <1>3, <1>4, <1>5, <1>6, <1>7, <1>8, <1>9, <1>10, <1>11, <1>12, <1>13,
     <1>14, <1>15, <1>16 DEF Step, RegisterStep, CleanStep, SyncStep

(* A client connected when the round begins is in the map then.            *)
LEMMA RoundStep ==
  Types /\ Held /\ Owned /\ Placed /\ Mapped /\ Round /\ Step /\ Watch => Round'
<1> SUFFICES ASSUME Types, Held, Owned, Placed, Mapped, Round, Step, Watch PROVE Round'
  OBVIOUS
<1> USE DEF Goto, Actors, Loops, mapVars, poolVars, syncVars, Types, Held, Owned,
            Placed, Mapped, Round, Watch, Connected
<1>1. ASSUME NEW r \in Conns, Greet(r) PROVE Round'
  BY <1>1 DEF Greet
<1>2. ASSUME NEW r \in Conns, RegisterLock(r) PROVE Round'
  BY <1>2 DEF RegisterLock
<1>3. ASSUME NEW r \in Conns, FindPool(r) PROVE Round'
  BY <1>3 DEF FindPool
<1>4. ASSUME NEW r \in Conns, AddConnection(r) PROVE Round'
  BY <1>4 DEF AddConnection
<1>5. ASSUME NEW r \in Conns, Leave(r) PROVE Round'
  BY <1>5 DEF Leave
<1>6. ASSUME NEW r \in Conns, CloseConnection(r) PROVE Round'
  BY <1>6 DEF CloseConnection
<1>7. CASE CleanStart
  BY <1>7 DEF CleanStart, Entries
<1>8. CASE CleanPool
  BY <1>8 DEF CleanPool
<1>9. CASE CleanCollect
  BY <1>9 DEF CleanCollect, Drop
<1>10. CASE CleanEnd
  BY <1>10 DEF CleanEnd
<1>11. CASE ShutdownStart
  BY <1>11 DEF ShutdownStart, Entries
<1>12. CASE ShutdownPool
  BY <1>12 DEF ShutdownPool, Drop
<1>13. CASE ShutdownEnd
  BY <1>13 DEF ShutdownEnd
<1>14. CASE SyncStart
  <2> SUFFICES ASSUME ~stopped, NEW c \in steady'
               PROVE  \E e \in todo'["sync"] : e[1] = c
    BY <1>14 DEF SyncStart
  <2>1. PICK p \in Pools : c \in Clients /\ owner[p] = c /\ members[p] # {}
    BY <1>14 DEF SyncStart
  <2>2. pools[c] = p
    BY <2>1, <1>14 DEF SyncStart
  <2>3. <<c, p>> \in todo'["sync"]
    BY <2>1, <2>2, <1>14 DEF SyncStart, Entries
  <2> QED BY <2>3
<1>15. CASE SyncClient
  BY <1>15 DEF SyncClient
<1>16. CASE PushData
  BY <1>16 DEF PushData, Delivers
<1>17. QED
  BY <1>1, <1>2, <1>3, <1>4, <1>5, <1>6, <1>7, <1>8, <1>9, <1>10, <1>11, <1>12, <1>13,
     <1>14, <1>15, <1>16 DEF Step, RegisterStep, CleanStep, SyncStep

(* It holds when the server starts ...                                     *)
LEMMA InvInit == Init => IInv
<1> SUFFICES ASSUME Init PROVE IInv
  OBVIOUS
<1>1. /\ \A r \in Conns : pc[r] = "new"
      /\ \A g \in Loops : pc[g] = "ready" /\ todo[g] = {}
  BY DEF Init, Actors, Loops
<1>2. Types
  <2>1. pc \in [Actors -> {"new", "ready"}]
    BY DEF Init, Actors
  <2> QED BY <1>1, <2>1 DEF Init, Types, NoPools, ConnPc, Loops
<1>3. Held /\ Owned /\ Placed
  BY <1>1 DEF Init, Held, Owned, Placed, NoPools, Loops
<1>4. Mapped /\ Sweep /\ Round
  BY <1>1 DEF Init, Mapped, Sweep, Round, Loops
<1> QED BY <1>2, <1>3, <1>4 DEF IInv

(* ... and each step of every goroutine keeps it.                          *)
LEMMA InvNext == IInv /\ [Next]_vars => IInv'
<1>1. ASSUME IInv, Next PROVE IInv'
  BY <1>1, TypesStep, HeldStep, OwnedStep, PlacedStep, MappedStep, SweepStep, RoundStep
     DEF Next, IInv
<1>2. ASSUME IInv, UNCHANGED vars PROVE IInv'
  BY <1>2 DEF vars, mapVars, poolVars, syncVars, IInv, Types, Held, Owned, Placed, Mapped,
              Sweep, Round
<1> QED BY <1>1, <1>2

-----------------------------------------------------------------------------
(* Every reachable state satisfies the invariant.                          *)
THEOREM Invariant == Spec => []IInv
BY InvInit, InvNext, PTL DEF Spec

(* The state keeps its types, and the map finds a client its own pool.     *)
THEOREM RegistryTypes == Spec => []TypeOK
<1>1. IInv => TypeOK
  BY DEF IInv, Types, Owned, Placed, TypeOK
<1> QED BY <1>1, Invariant, PTL

(* Until the server shuts down, requests for a client find the pool that   *)
(* has its connections, whatever clean does to s.pools.                    *)
THEOREM AlwaysReachable == Spec => []Reachable
<1>1. IInv => Reachable
  BY DEF IInv, Mapped, Reachable
<1> QED BY <1>1, Invariant, PTL

(* Register never adds a connection to a pool that clean has shut down.    *)
THEOREM NoneLost == Spec => []RegistrationKept
<1>1. IInv => RegistrationKept
  BY DEF IInv, Types, Mapped, RegistrationKept
<1> QED BY <1>1, Invariant, PTL

(* clean shuts down no pool that got a connection since it found it empty. *)
THEOREM CollectIsSafe == Spec => CollectSparesConnected
<1>1. IInv /\ [Next]_vars =>
       [\A p \in dead' \ dead :
          pc["cleaner"] = "collect" /\ at["cleaner"] = p /\ ~stopped => members[p] = {}]_vars
  BY DEF IInv, Placed
<1> QED BY <1>1, Invariant, PTL DEF Spec, CollectSparesConnected

(* A round of PeriodicSync names every client that is connected all along. *)
THEOREM SteadyIsReported == Spec => SteadyReported
<1>1. ASSUME IInv, Next
      PROVE  pc["sync"] = "ask" /\ pc'["sync"] = "ready" /\ ~stopped =>
               \A c \in steady : report[c] # "absent"
  <2> SUFFICES ASSUME pc["sync"] = "ask", pc'["sync"] = "ready", ~stopped
               PROVE  todo["sync"] = {}
    BY <1>1 DEF IInv, Round
  <2>1. PushData
    BY <1>1 DEF Next, Step, RegisterStep, CleanStep, SyncStep, IInv, Types, Goto, Actors,
                Greet, RegisterLock, FindPool, AddConnection, Leave, CloseConnection,
                CleanStart, CleanPool, CleanCollect, CleanEnd, ShutdownStart, ShutdownPool,
                ShutdownEnd, SyncStart, SyncClient
  <2> QED BY <2>1 DEF PushData
<1> QED BY <1>1, Invariant, PTL DEF Spec, SteadyReported
=============================================================================
