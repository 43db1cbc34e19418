------------------------------- MODULE Server -------------------------------
(***************************************************************************)
(* The server's registry of pools, for several clients: Register finds or  *)
(* creates the pool of a client and adds a websocket to it, clean drops    *)
(* the pools that are empty, PeriodicSync tells ZkCloud which clients are  *)
(* connected, Shutdown drops everything.  Register and clean hold          *)
(* Server.lock, PeriodicSync and Shutdown do not.                          *)
(*                                                                         *)
(* What happens inside a pool, under pool.lock, is one step here; it is    *)
(* the subject of ServerPool.                                              *)
(***************************************************************************)
EXTENDS Naturals, FiniteSets

CONSTANTS
  Clients,  \* the client ids that ZkCloud knows
  Pools,    \* the Pool objects that may be created
  Conns,    \* the registrations, each a websocket, its connection object
            \* and the goroutine that registers and then reads it
  None

Actors == Conns \cup {"cleaner", "main", "sync"}

ASSUME RegistryAssumption ==
  /\ IsFiniteSet(Conns) /\ Cardinality(Pools) >= Cardinality(Conns)
  /\ None \notin Clients \cup Pools \cup Actors
  /\ Conns \cap {"cleaner", "main", "sync"} = {}

VARIABLES
  pools,    \* s.pools: the pool of each client, or None
  fresh,    \* the map that clean builds
  lock,     \* the goroutine that holds s.lock
  stopped,  \* s.done is closed
  owner,    \* pool.clientId, None until the pool is created
  members,  \* the connections in the two lists of each pool
  dead,     \* the pools whose done is set
  open,     \* the websockets that are open
  pc,       \* where each goroutine is
  client,   \* the client of each registration
  at,       \* the pool each goroutine has looked up
  todo,     \* the entries of s.pools an iteration has still to visit
  report,   \* what PeriodicSync has found: "absent", "up" or "down"
  known,    \* the clients that ZkCloud takes for connected
  steady    \* the clients connected ever since PeriodicSync began its round

mapVars  == <<pools, fresh, lock, stopped>>
poolVars == <<owner, members, dead, open>>
syncVars == <<report, known>>
vars == <<mapVars, poolVars, pc, client, at, todo, syncVars, steady>>

NoPools == [c \in Clients |-> None]

(* The entries of a map; a range loop visits those of the map it began on, *)
(* whatever s.pools is set to meanwhile.                                   *)
Entries(map) == {e \in Clients \X Pools : map[e[1]] = e[2]}

Connected(c) == \E p \in Pools : owner[p] = c /\ members[p] # {}

Goto(g, label) == pc' = [pc EXCEPT ![g] = label]

Init ==
  /\ pools = NoPools /\ fresh = NoPools
  /\ lock = None /\ stopped = FALSE
  /\ owner = [p \in Pools |-> None]
  /\ members = [p \in Pools |-> {}]
  /\ dead = {} /\ open = {}
  /\ pc = [g \in Actors |-> IF g \in Conns THEN "new" ELSE "ready"]
  /\ client = [r \in Conns |-> None]
  /\ at = [g \in Conns \cup {"cleaner"} |-> None]
  /\ todo = [g \in {"cleaner", "main", "sync"} |-> {}]
  /\ report = [c \in Clients |-> "absent"]
  /\ known = {}
  /\ steady = {}

-----------------------------------------------------------------------------
(* Register.                                                               *)

(* The key is validated, the websocket upgraded and greeted; where one of  *)
(* these fails the websocket is closed and nothing was registered.  But on *)
(* a greeting without a separator the handler panics at split[1], and the  *)
(* websocket is left as it is.                                             *)
Greet(r) ==
  /\ pc[r] = "new"
  /\ \/ /\ \E c \in Clients : client' = [client EXCEPT ![r] = c]
        /\ open' = open \cup {r}
        /\ Goto(r, "lock")
     \/ Goto(r, "stray") /\ open' = open \cup {r} /\ UNCHANGED client
     \/ Goto(r, "end") /\ UNCHANGED <<client, open>>
  /\ UNCHANGED <<mapVars, owner, members, dead, at, todo, syncVars>>

(* Mutant of RegisterLock: without s.lock.                                 *)
RegisterUnlocked(r) ==
  /\ pc[r] = "lock" /\ Goto(r, "find")
  /\ UNCHANGED <<mapVars, poolVars, client, at, todo, syncVars>>

RegisterLock(r) ==
  /\ pc[r] = "lock"
  /\ lock = None /\ lock' = r
  /\ Goto(r, "find")
  /\ UNCHANGED <<pools, fresh, stopped, poolVars, client, at, todo, syncVars>>

(* Mutant of FindPool: every registration creates a pool.                  *)
FindNewPool(r) ==
  /\ pc[r] = "find"
  /\ \E p \in Pools :
       /\ owner[p] = None
       /\ owner' = [owner EXCEPT ![p] = client[r]]
       /\ pools' = [pools EXCEPT ![client[r]] = p]
       /\ at' = [at EXCEPT ![r] = p]
  /\ Goto(r, "add")
  /\ UNCHANGED <<fresh, lock, stopped, members, dead, open, client, todo, syncVars>>

(* Mutant of FindPool: without the comparison of the client id.            *)
FindAnyPool(r) ==
  /\ pc[r] = "find"
  /\ \E p \in Pools :
       /\ at' = [at EXCEPT ![r] = p]
       /\ \/ (\E c \in Clients : pools[c] = p) /\ UNCHANGED <<owner, pools>>
          \/ /\ pools = NoPools /\ owner[p] = None
             /\ owner' = [owner EXCEPT ![p] = client[r]]
             /\ pools' = [pools EXCEPT ![client[r]] = p]
  /\ Goto(r, "add")
  /\ UNCHANGED <<fresh, lock, stopped, members, dead, open, client, todo, syncVars>>

(* The pool of the client is taken from the map, or created and put there. *)
FindPool(r) ==
  /\ pc[r] = "find"
  /\ \E p \in Pools :
       /\ at' = [at EXCEPT ![r] = p]
       /\ \/ /\ pools[client[r]] = p
             /\ UNCHANGED <<owner, pools>>
          \/ /\ pools[client[r]] = None /\ owner[p] = None
             /\ owner' = [owner EXCEPT ![p] = client[r]]
             /\ pools' = [pools EXCEPT ![client[r]] = p]
  /\ Goto(r, "add")
  /\ UNCHANGED <<fresh, lock, stopped, members, dead, open, client, todo, syncVars>>

(* AddConnection.  A pool that is done takes nothing, nor is a connection  *)
(* of an unknown type taken, and the websocket then stays open with nobody *)
(* to read or close it.                                                    *)
AddConnection(r) ==
  /\ pc[r] = "add"
  /\ \/ /\ at[r] \notin dead
        /\ members' = [members EXCEPT ![at[r]] = @ \cup {r}]
        /\ Goto(r, "serve")
     \/ /\ Goto(r, IF at[r] \in dead THEN "orphan" ELSE "stray")
        /\ UNCHANGED members
  /\ lock' = None
  /\ UNCHANGED <<pools, fresh, stopped, owner, dead, open, client, at, todo, syncVars>>

(* The goroutine of a connection ends, for whatever reason: it leaves its  *)
(* pool, and then closes the websocket.                                    *)
Leave(r) ==
  /\ pc[r] = "serve"
  /\ members' = [members EXCEPT ![at[r]] = @ \ {r}]
  /\ Goto(r, "close")
  /\ UNCHANGED <<mapVars, owner, dead, open, client, at, todo, syncVars>>

CloseConnection(r) ==
  /\ pc[r] = "close"
  /\ open' = open \ {r}
  /\ Goto(r, "end")
  /\ at' = [at EXCEPT ![r] = None] /\ client' = [client EXCEPT ![r] = None]
  /\ UNCHANGED <<mapVars, owner, members, dead, todo, syncVars>>

-----------------------------------------------------------------------------
(* clean, every 15 seconds.                                                *)

(* Mutant of CleanStart: s.pools is emptied first and filled pool by pool. *)
CleanStartReset ==
  /\ pc["cleaner"] = "ready" /\ lock = None /\ pools # NoPools
  /\ lock' = "cleaner" /\ fresh' = NoPools /\ pools' = NoPools
  /\ todo' = [todo EXCEPT !["cleaner"] = Entries(pools)]
  /\ Goto("cleaner", "clean")
  /\ UNCHANGED <<stopped, poolVars, client, at, syncVars>>

(* With no pools at all there is nothing to do.                            *)
CleanStart ==
  /\ pc["cleaner"] = "ready"
  /\ lock = None
  /\ pools # NoPools
  /\ lock' = "cleaner"
  /\ fresh' = NoPools
  /\ todo' = [todo EXCEPT !["cleaner"] = Entries(pools)]
  /\ Goto("cleaner", "clean")
  /\ UNCHANGED <<pools, stopped, poolVars, client, at, syncVars>>

(* IsEmpty closes and removes some idle connections of a pool, and then    *)
(* looks whether there are any left.                                       *)
CleanPool ==
  /\ pc["cleaner"] = "clean"
  /\ \E e \in todo["cleaner"] : \E closed \in SUBSET members[e[2]] :
       /\ todo' = [todo EXCEPT !["cleaner"] = @ \ {e}]
       /\ open' = open \ closed
       /\ members' = [members EXCEPT ![e[2]] = @ \ closed]
       /\ \/ /\ members[e[2]] = closed
             /\ at' = [at EXCEPT !["cleaner"] = e[2]]
             /\ Goto("cleaner", "collect")
             /\ UNCHANGED fresh
          \/ /\ members[e[2]] # closed
             /\ fresh' = [fresh EXCEPT ![e[1]] = e[2]]
             /\ UNCHANGED <<at, pc>>
  /\ UNCHANGED <<pools, lock, stopped, owner, dead, client, syncVars>>

(* pool.Shutdown.                                                          *)
Drop(p) ==
  /\ dead' = dead \cup {p}
  /\ open' = open \ members[p]
  /\ members' = [members EXCEPT ![p] = {}]
  /\ UNCHANGED owner

(* Mutant of CleanCollect: the empty pool is kept in the map.              *)
CleanCollectKeep ==
  /\ pc["cleaner"] = "collect"
  /\ Drop(at["cleaner"])
  /\ fresh' = [fresh EXCEPT ![owner[at["cleaner"]]] = at["cleaner"]]
  /\ Goto("cleaner", "clean")
  /\ UNCHANGED <<pools, lock, stopped, client, at, todo, syncVars>>

CleanCollect ==
  /\ pc["cleaner"] = "collect"
  /\ Drop(at["cleaner"])
  /\ at' = [at EXCEPT !["cleaner"] = None]
  /\ Goto("cleaner", "clean")
  /\ UNCHANGED <<mapVars, client, todo, syncVars>>

CleanEnd ==
  /\ pc["cleaner"] = "clean" /\ todo["cleaner"] = {}
  /\ pools' = fresh /\ fresh' = NoPools
  /\ lock' = None
  /\ Goto("cleaner", "ready")
  /\ UNCHANGED <<stopped, poolVars, client, at, todo, syncVars>>

-----------------------------------------------------------------------------
(* Server.Shutdown, without s.lock.                                        *)

ShutdownStart ==
  /\ pc["main"] = "ready"
  /\ stopped' = TRUE
  /\ todo' = [todo EXCEPT !["main"] = Entries(pools)]
  /\ Goto("main", "shutdown")
  /\ UNCHANGED <<pools, fresh, lock, poolVars, client, at, syncVars>>

ShutdownPool ==
  /\ pc["main"] = "shutdown"
  /\ \E e \in todo["main"] :
       /\ Drop(e[2])
       /\ todo' = [todo EXCEPT !["main"] = @ \ {e}]
  /\ UNCHANGED <<mapVars, pc, client, at, syncVars>>

ShutdownEnd ==
  /\ pc["main"] = "shutdown" /\ todo["main"] = {}
  /\ pools' = NoPools
  /\ Goto("main", "exit")
  /\ UNCHANGED <<fresh, lock, stopped, poolVars, client, at, todo, syncVars>>

-----------------------------------------------------------------------------
(* PeriodicSync, without s.lock.                                           *)

SyncStart ==
  /\ pc["sync"] = "ready"
  /\ todo' = [todo EXCEPT !["sync"] = Entries(pools)]
  /\ Goto("sync", "ask")
  /\ UNCHANGED <<mapVars, poolVars, client, at, syncVars>>

(* getConnectionStatus looks the client up once more.  A client without a  *)
(* pool or with an empty one is down; with connections it is up if one of  *)
(* them is busy or answers a ping.                                         *)
SyncClient ==
  /\ pc["sync"] = "ask"
  /\ \E e \in todo["sync"], answer \in {"up", "down"} :
       /\ answer = "up" => pools[e[1]] # None /\ members[pools[e[1]]] # {}
       /\ report' = [report EXCEPT ![e[1]] = answer]
       /\ todo' = [todo EXCEPT !["sync"] = @ \ {e}]
  /\ UNCHANGED <<mapVars, poolVars, pc, client, at, known>>

(* A push that arrives: ZkCloud keeps what it knows of a client that the   *)
(* report does not name.                                                   *)
Delivers ==
  known' = {c \in Clients : report[c] = "up" \/ (report[c] = "absent" /\ c \in known)}

(* PushData posts the report; its error is ignored.                        *)
PushData ==
  /\ pc["sync"] = "ask" /\ todo["sync"] = {}
  /\ Delivers \/ UNCHANGED known
  /\ report' = [c \in Clients |-> "absent"]
  /\ Goto("sync", "ready")
  /\ UNCHANGED <<mapVars, poolVars, client, at, todo>>

-----------------------------------------------------------------------------
RegisterStep(r) == RegisterLock(r) \/ FindPool(r) \/ AddConnection(r)
CleanStep == CleanPool \/ CleanCollect \/ CleanEnd
SyncStep == SyncStart \/ SyncClient \/ PushData

Step ==
  \/ \E r \in Conns : Greet(r) \/ RegisterStep(r) \/ Leave(r) \/ CloseConnection(r)
  \/ CleanStart \/ CleanStep
  \/ ShutdownStart \/ ShutdownPool \/ ShutdownEnd
  \/ SyncStep

(* steady follows the rest.                                                *)
Watch ==
  steady' = {c \in Clients : /\ pc'["sync"] = "ask" /\ Connected(c)'
                             /\ c \in steady \/ pc["sync"] = "ready"}

Next == Step /\ Watch

Spec == Init /\ [][Next]_vars

(* A mutex that others take again and again is had in the end; the timers  *)
(* of clean and PeriodicSync fire; a push ends, and not always in an error. *)
Fairness ==
  /\ \A r \in Conns : SF_vars(RegisterStep(r) /\ Watch) /\ WF_vars(CloseConnection(r) /\ Watch)
  /\ SF_vars(CleanStart /\ Watch) /\ WF_vars(CleanStep /\ Watch)
  /\ WF_vars(SyncStep /\ Watch) /\ SF_vars(PushData /\ Delivers /\ Watch)

FairSpec == Spec /\ Fairness

-----------------------------------------------------------------------------
(* Types; a pool holds connections of its own client only.                 *)
TypeOK ==
  /\ pools \in [Clients -> Pools \cup {None}] /\ fresh \in [Clients -> Pools \cup {None}]
  /\ lock \in Conns \cup {"cleaner", None}
  /\ stopped \in BOOLEAN
  /\ owner \in [Pools -> Clients \cup {None}]
  /\ members \in [Pools -> SUBSET Conns]
  /\ dead \subseteq Pools /\ open \subseteq Conns
  /\ \A c \in Clients : pools[c] # None => owner[pools[c]] = c
  /\ \A p \in Pools : \A r \in members[p] : client[r] = owner[p]

(* As long as the server is not shut down, the pool that holds the         *)
(* connections of a client is the one that requests for it find.  clean    *)
(* replaces the whole map, while Register works on it and others read it.  *)
Reachable ==
  ~stopped => \A p \in Pools : members[p] # {} => pools[owner[p]] = p

(* clean never shuts down a pool that got a connection after it was found  *)
(* empty.                                                                  *)
CollectSparesConnected ==
  [][\A p \in dead' \ dead : pc["cleaner"] = "collect" /\ at["cleaner"] = p /\ ~stopped =>
       members[p] = {}]_vars

(* pool.go:49: no registration ends in a pool that was garbage collected,  *)
(* with its websocket left open and unread; only a shutdown may cause it.  *)
RegistrationKept == \A r \in Conns : pc[r] = "orphan" => stopped

(* A round of PeriodicSync reports every client that stays connected       *)
(* during it, whatever clean does to the map it iterates over.             *)
SteadyReported ==
  [][pc["sync"] = "ask" /\ pc'["sync"] = "ready" /\ ~stopped =>
       \A c \in steady : report[c] # "absent"]_vars

(* connectionStatus.go:46: when a client that ZkCloud takes for connected  *)
(* has lost its connections, ZkCloud is told so.                           *)
LossIsReported ==
  \A c \in Clients :
    c \in known /\ ~Connected(c) ~> c \notin known \/ Connected(c) \/ stopped
=============================================================================
