--------------------------- MODULE ConnectionLease ---------------------------
(***************************************************************************)
(* What a pool of WriteConnections promises to those that use it: a        *)
(* connection joins once and dies once, only a live connection is leased,  *)
(* and it is leased to one user at a time.  How the connection travels     *)
(* between users (a channel, locks, a status) is not part of the promise.  *)
(***************************************************************************)
CONSTANTS
  Conns,  \* the connections that may ever exist
  Users   \* who may use one: Request handlers and pings

VARIABLES
  live,   \* connections that were registered and can carry a request
  gone,   \* connections that were closed
  leases  \* pairs <<user, connection>>

leaseVars == <<live, gone, leases>>

Init == live = {} /\ gone = {} /\ leases = {}

(* AddConnection.                                                          *)
Join(c) ==
  /\ c \notin live \cup gone
  /\ live' = live \cup {c}
  /\ UNCHANGED <<gone, leases>>

(* GetIdleWriteConnection.                                                 *)
Lease(u, c) ==
  /\ c \in live
  /\ \A v \in Users : <<v, c>> \notin leases
  /\ \A d \in Conns : <<u, d>> \notin leases
  /\ leases' = leases \cup {<<u, c>>}
  /\ UNCHANGED <<live, gone>>

(* Release.                                                                *)
GiveBack(u, c) ==
  /\ <<u, c>> \in leases
  /\ leases' = leases \ {<<u, c>>}
  /\ UNCHANGED <<live, gone>>

(* Close ends a lease too: its user finds out when it next uses it.        *)
Die(c) ==
  /\ c \in live
  /\ live' = live \ {c}
  /\ gone' = gone \cup {c}
  /\ leases' = {l \in leases : l[2] # c}

Next ==
  \E c \in Conns :
    \/ Join(c) \/ Die(c)
    \/ \E u \in Users : Lease(u, c) \/ GiveBack(u, c)

Spec == Init /\ [][Next]_leaseVars
=============================================================================
