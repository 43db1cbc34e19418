--------------------------- MODULE ConnectionProofs ---------------------------
(***************************************************************************)
(* Lemmas about the actions of WriteConnection: what a reader goroutine    *)
(* and a caller keep true in any pool, whatever else the pool does.  The   *)
(* proofs about the two pools and about Exchange rest on them.             *)
(***************************************************************************)
EXTENDS WriteConnection, TLAPS

USE ConnAssumption DEF ConnAssumption

(* What a reader and its network do, and what a caller does.               *)
Reading(c) == ReaderStep(c) \/ Receive(c) \/ Break(c)
Calling(g) == CallerStep(g) \/ PopTimeout(g) \/ Take(g)
SharedStep == (\E c \in Conns : Reading(c)) \/ (\E g \in Callers : Calling(g))

-----------------------------------------------------------------------------
(* Types.  Where a closer is depends on the pool.                          *)

SharedTypes ==
  /\ status \in [Conns -> Statuses]
  /\ ws \in [Conns -> {"open", "broken", "closed"}]
  /\ connLock \in [Conns -> Goroutines \cup {None}]
  /\ idle \in Seq(Conns) /\ Len(idle) <= PoolMaxSize
  /\ writeConnections \subseteq Conns

(* Where a goroutine of either pool can be.                                *)
Points ==
  ReaderPc \cup CallerPc \cup
  {"isEmpty", "clean", "cleanClosing", "collect", "keep", "shutdown", "shutdownClosing", "drop",
   "exit", "dial", "create", "wait", "serving", "stop", "mark", "panic"}

LocalTypes ==
  /\ pc \in [Goroutines -> Points]
  /\ on \in [Goroutines -> Conns \cup {None}]
  /\ outcome \in [Callers -> Outcomes]
  /\ \A c \in Conns : pc[c] \in ReaderPc /\ on[c] = c
  /\ \A g \in Callers :
       /\ pc[g] \in CallerPc
       /\ on[g] = None => pc[g] \in {"ready", "lock", "pop"}
       /\ pc[g] \in {"ready", "pop"} => on[g] = None
  /\ \A g \in Closers : pc[g] # "offer" /\ (Closing(g) => on[g] \in Conns)

ConnTypes == SharedTypes /\ LocalTypes

(* Whoever is in the middle of a call has a connection.                    *)
LEMMA CallerHas ==
  ASSUME ConnTypes, NEW g \in Callers
  PROVE  /\ g \in Goroutines /\ g \notin Conns /\ g # None
         /\ on[g] \in Conns \cup {None} /\ None \notin Conns
         /\ on[g] # None <=> on[g] \in Conns
         /\ pc[g] \notin {"ready", "lock", "pop"} => on[g] \in Conns
         /\ on[g] # g
BY DEF ConnTypes, LocalTypes, Goroutines

(* A reader moves alone and forgets nothing.                               *)
LEMMA ReaderMoves ==
  ASSUME ConnTypes, NEW c \in Conns, Reading(c)
  PROVE  /\ on' = on /\ outcome' = outcome /\ poolLock' = poolLock
         /\ writeConnections' \subseteq writeConnections
         /\ \E l \in ReaderPc \ {"unborn"} : pc' = [pc EXCEPT ![c] = l] \/ pc' = pc
<1> USE DEF ReaderPc, Goto, ReaderGoto, Return, ConnTypes, LocalTypes
<1>1. CASE Release(c) \/ Offer(c)
  <2>1. [on EXCEPT ![c] = c] = on
    BY DEF Goroutines
  <2> QED BY <1>1, <2>1 DEF Release, Offer
<1>2. CASE Loop(c) \/ ReadError(c) \/ Check(c) \/ AwaitNil(c) \/ Receive(c)
  BY <1>2 DEF Loop, ReadError, Check, AwaitNil, Receive
<1>3. CASE Remove(c) \/ Close(c) \/ Closed(c) \/ Break(c)
  BY <1>3 DEF Remove, Close, Closed, Break
<1> QED BY <1>1, <1>2, <1>3 DEF Reading, ReaderStep

(* A caller moves alone, or with the reader of its connection.             *)
LEMMA CallerMoves ==
  ASSUME ConnTypes, NEW g \in Callers, Calling(g)
  PROVE  /\ \E l \in CallerPc \ {"lock"} :
              \/ pc' = [pc EXCEPT ![g] = l]
              \/ /\ on' = on /\ on[g] \in Conns
                 /\ \/ /\ pc[on[g]] = "await" /\ ws[on[g]] # "closed"
                       /\ <<pc[g], l>> \in {<<"sendHeader", "header">>, <<"sendBody", "body">>}
                       /\ pc' = [pc EXCEPT ![g] = l, ![on[g]] = "serve"]
                    \/ /\ pc[g] \in {"header", "body"}
                       /\ l \in {"sendBody", "release", "close", "aborted"}
                       /\ pc' = [pc EXCEPT ![g] = l, ![on[g]] = "loop"]
         /\ \E c \in Conns \cup {None} : on' = on \/ on' = [on EXCEPT ![g] = c]
         /\ writeConnections' \subseteq writeConnections
         /\ CallerStep(g) => poolLock' = poolLock
<1>a. CallerStep(g) => poolLock' = poolLock
  BY DEF CallerStep, Pop, Inspect, WriteRequest, WritePing, PongReceived, PongTimeout, Close, Closed,
     SendHeaderChannel, SendBodyChannel, SendChannel, ReadHeader, ReadBody, Release, Offer, Remove
<1> SUFFICES /\ \E l \in CallerPc \ {"lock"} :
                   \/ pc' = [pc EXCEPT ![g] = l]
                   \/ /\ on' = on /\ on[g] \in Conns
                      /\ \/ /\ pc[on[g]] = "await" /\ ws[on[g]] # "closed"
                            /\ <<pc[g], l>> \in
                                 {<<"sendHeader", "header">>, <<"sendBody", "body">>}
                            /\ pc' = [pc EXCEPT ![g] = l, ![on[g]] = "serve"]
                         \/ /\ pc[g] \in {"header", "body"}
                            /\ l \in {"sendBody", "release", "close", "aborted"}
                            /\ pc' = [pc EXCEPT ![g] = l, ![on[g]] = "loop"]
             /\ \E c \in Conns \cup {None} : on' = on \/ on' = [on EXCEPT ![g] = c]
             /\ writeConnections' \subseteq writeConnections
  BY <1>a
<1> USE DEF CallerPc, Goto, Return, ConnTypes, LocalTypes, SharedTypes, Goroutines
<1>1. CASE Pop(g)
  <2>1. Head(idle) \in Conns
    BY <1>1 DEF Pop
  <2> QED BY <1>1, <2>1 DEF Pop
<1>2. CASE Inspect(g)
  BY <1>2 DEF Inspect
<1>9. CASE PopTimeout(g)
  BY <1>9 DEF PopTimeout
<1>8. CASE Take(g)
  BY <1>8 DEF Take
<1>3. CASE SendHeaderChannel(g) \/ SendBodyChannel(g)
  <2>1. on[g] \in Conns
    BY <1>3 DEF SendHeaderChannel, SendBodyChannel, SendChannel
  <2> QED BY <1>3, <2>1 DEF SendHeaderChannel, SendBodyChannel, SendChannel
<1>4. CASE ReadHeader(g) \/ ReadBody(g)
  <2>1. on[g] \in Conns
    BY <1>4 DEF ReadHeader, ReadBody
  <2> QED BY <1>4, <2>1 DEF ReadHeader, ReadBody
<1>5. CASE WriteRequest(g) \/ WritePing(g) \/ PongReceived(g) \/ PongTimeout(g)
  BY <1>5 DEF WriteRequest, Fail, WritePing, PongReceived, PongTimeout, PingDone
<1>6. CASE Release(g) \/ Offer(g) \/ Remove(g)
  BY <1>6 DEF Release, Offer, Remove
<1>7. CASE Close(g) \/ Closed(g)
  BY <1>7 DEF Close, Closed
<1> QED BY <1>1, <1>2, <1>3, <1>4, <1>5, <1>6, <1>7, <1>8, <1>9 DEF Calling, CallerStep

(* A closer stays where it is meanwhile.                                   *)
LEMMA ClosersStay ==
  ASSUME ConnTypes, NEW h \in Closers, SharedStep
  PROVE  pc'[h] = pc[h] /\ on'[h] = on[h]
<1>0. h \in Goroutines /\ h \notin Conns /\ h \notin Callers
  BY DEF Goroutines
<1>1. ASSUME NEW c \in Conns, Reading(c) PROVE pc'[h] = pc[h] /\ on'[h] = on[h]
  BY <1>0, <1>1, ReaderMoves DEF ConnTypes, LocalTypes
<1>2. ASSUME NEW g \in Callers, Calling(g) PROVE pc'[h] = pc[h] /\ on'[h] = on[h]
  <2>1. on'[h] = on[h]
    BY <1>0, <1>2, CallerMoves DEF ConnTypes, LocalTypes
  <2>2. PICK l \in CallerPc :
          \/ pc' = [pc EXCEPT ![g] = l]
          \/ on[g] \in Conns /\ \E m \in ReaderPc : pc' = [pc EXCEPT ![g] = l, ![on[g]] = m]
    BY <1>2, CallerMoves DEF ReaderPc
  <2> QED BY <1>0, <2>1, <2>2 DEF ConnTypes, LocalTypes
<1> QED BY <1>1, <1>2 DEF SharedStep

(* Neither registers a connection, ...                                     *)
LEMMA UnbornStays ==
  ASSUME ConnTypes, SharedStep, NEW c \in Conns, pc'[c] = "unborn"
  PROVE  pc[c] = "unborn"
<1>1. ASSUME NEW d \in Conns, Reading(d) PROVE pc[c] = "unborn"
  BY <1>1, ReaderMoves DEF ConnTypes, LocalTypes, Goroutines
<1>2. ASSUME NEW g \in Callers, Calling(g) PROVE pc[c] = "unborn"
  <2>1. PICK l \in CallerPc :
          \/ pc' = [pc EXCEPT ![g] = l]
          \/ /\ on[g] \in Conns
             /\ \E m \in {"serve", "loop"} : pc' = [pc EXCEPT ![g] = l, ![on[g]] = m]
    BY <1>2, CallerMoves
  <2>2. g \notin Conns
    BY CallerHas
  <2> QED BY <2>1, <2>2 DEF ConnTypes, LocalTypes, Goroutines
<1> QED BY <1>1, <1>2 DEF SharedStep

(* ... and neither begins to wait for pool.lock.                           *)
LEMMA NobodyLocks ==
  ASSUME ConnTypes, SharedStep, NEW h \in Callers, pc'[h] = "lock"
  PROVE  pc[h] = "lock" /\ on'[h] = on[h]
<1>0. h \in Goroutines /\ h \notin Conns
  BY DEF Goroutines
<1>1. ASSUME NEW c \in Conns, Reading(c) PROVE pc[h] = "lock" /\ on'[h] = on[h]
  BY <1>0, <1>1, ReaderMoves DEF ConnTypes, LocalTypes
<1>2. ASSUME NEW g \in Callers, Calling(g) PROVE pc[h] = "lock" /\ on'[h] = on[h]
  <2>1. PICK l \in CallerPc \ {"lock"} :
          \/ pc' = [pc EXCEPT ![g] = l]
          \/ on[g] \in Conns /\ \E m \in ReaderPc : pc' = [pc EXCEPT ![g] = l, ![on[g]] = m]
    BY <1>2, CallerMoves DEF ReaderPc
  <2>2. pc[h] = "lock" /\ h # g
    BY <1>0, <2>1 DEF ConnTypes, LocalTypes
  <2>3. on'[h] = on[h]
    BY <1>0, <1>2, <2>2, CallerMoves DEF ConnTypes, LocalTypes
  <2> QED BY <2>2, <2>3
<1> QED BY <1>1, <1>2 DEF SharedStep

(* A step of a reader or of its network keeps the types.                   *)
LEMMA ReaderTypes ==
  ASSUME ConnTypes, NEW c \in Conns, Reading(c)
  PROVE  ConnTypes'
<1>1. SharedTypes'
  <2> USE DEF ConnTypes, SharedTypes, LocalTypes, Goroutines, Statuses
  <2>0. CASE Release(c)
    BY <2>0 DEF Release
  <2>1. CASE Offer(c)
    BY <2>1 DEF Offer
  <2>2. CASE Loop(c) \/ ReadError(c) \/ Check(c) \/ AwaitNil(c) \/ Receive(c)
    BY <2>2 DEF Loop, ReadError, Check, AwaitNil, Receive, ReaderGoto
  <2>3. CASE Remove(c) \/ Close(c) \/ Closed(c) \/ Break(c)
    BY <2>3 DEF Remove, Close, BeginClose, Closed, EndClose, Break
  <2> QED BY <2>0, <2>1, <2>2, <2>3 DEF Reading, ReaderStep
<1>2. LocalTypes'
  BY ReaderMoves DEF ConnTypes, LocalTypes, Closing, Points, Goroutines
<1> QED BY <1>1, <1>2 DEF ConnTypes

(* So does a step of a caller.                                             *)
LEMMA CallerTypes ==
  ASSUME ConnTypes, NEW g \in Callers, Calling(g)
  PROVE  ConnTypes'
<1>0. /\ g \in Goroutines /\ g \notin Conns /\ pc[g] \in CallerPc
      /\ on[g] = None => pc[g] \in {"ready", "lock", "pop"}
      /\ on[g] \in Conns \cup {None}
  BY DEF ConnTypes, LocalTypes, Goroutines
<1>1. SharedTypes'
  <2> USE DEF ConnTypes, SharedTypes, LocalTypes, Goroutines, Statuses
  <2>1. CASE Release(g)
    BY <1>0, <2>1 DEF Release
  <2>2. CASE SendHeaderChannel(g) \/ SendBodyChannel(g) \/ ReadHeader(g) \/ ReadBody(g)
    BY <2>2 DEF SendHeaderChannel, SendBodyChannel, SendChannel, ReadHeader, ReadBody
  <2>3. CASE WriteRequest(g) \/ WritePing(g) \/ PongReceived(g) \/ PongTimeout(g)
    BY <2>3 DEF WriteRequest, WritePing, PongReceived, PongTimeout
  <2>4. CASE Close(g) \/ Remove(g)
    BY <1>0, <2>4 DEF Close, BeginClose, Remove
  <2>9. CASE Closed(g)
    BY <1>0, <2>9 DEF Closed, EndClose
  <2>5. CASE Inspect(g) \/ PopTimeout(g)
    BY <1>0, <2>5 DEF Inspect, PopTimeout
  <2>6. CASE Take(g)
    BY <1>0, <2>6 DEF Take
  <2>7. CASE Pop(g)
    BY <2>7 DEF Pop
  <2>8. CASE Offer(g)
    BY <1>0, <2>8 DEF Offer
  <2> QED BY <2>1, <2>2, <2>3, <2>4, <2>5, <2>6, <2>7, <2>8, <2>9 DEF Calling, CallerStep
<1>2. outcome' \in [Callers -> Outcomes]
  <2> USE DEF ConnTypes, LocalTypes, Outcomes
  <2>1. CASE Release(g) \/ Offer(g) \/ Pop(g) \/ Inspect(g) \/ PopTimeout(g) \/ Take(g)
             \/ Close(g) \/ Closed(g) \/ Remove(g)
    BY <2>1 DEF Release, Offer, Pop, Inspect, PopTimeout, Take, Close, Closed, Remove
  <2>2. CASE SendHeaderChannel(g) \/ SendBodyChannel(g) \/ ReadHeader(g) \/ ReadBody(g)
    BY <2>2 DEF SendHeaderChannel, SendBodyChannel, SendChannel, ReadHeader, ReadBody
  <2>3. CASE WriteRequest(g) \/ WritePing(g) \/ PongReceived(g) \/ PongTimeout(g)
    BY <2>3 DEF WriteRequest, Fail, WritePing, PongReceived, PongTimeout, PingDone
  <2> QED BY <2>1, <2>2, <2>3 DEF Calling, CallerStep
<1>3. /\ on'[g] = None => pc'[g] \in {"ready", "lock", "pop"}
      /\ pc'[g] \in {"ready", "pop"} => on'[g] = None
  <2> USE DEF ConnTypes, LocalTypes, Goto, Return
  <2>1. CASE Pop(g)
    BY <1>0, <2>1 DEF Pop, SharedTypes, Goroutines
  <2>2. CASE Inspect(g) \/ PopTimeout(g) \/ Take(g) \/ Release(g) \/ Offer(g) \/ Remove(g)
    BY <1>0, <2>2 DEF Inspect, PopTimeout, Take, Release, Offer, Remove
  <2>3. CASE SendHeaderChannel(g) \/ SendBodyChannel(g) \/ ReadHeader(g) \/ ReadBody(g)
    BY <1>0, <2>3 DEF SendHeaderChannel, SendBodyChannel, SendChannel, ReadHeader, ReadBody
  <2>4. CASE WriteRequest(g) \/ WritePing(g) \/ PongReceived(g) \/ PongTimeout(g)
    BY <1>0, <2>4 DEF WriteRequest, Fail, WritePing, PongReceived, PongTimeout, PingDone
  <2>5. CASE Close(g) \/ Closed(g)
    BY <1>0, <2>5 DEF Close, Closed
  <2> QED BY <2>1, <2>2, <2>3, <2>4, <2>5 DEF Calling, CallerStep
<1>4. LocalTypes'
  <2>1. /\ \A h \in Callers \cup Closers : h # g => pc'[h] = pc[h]
        /\ pc'[g] \in CallerPc
        /\ \A c \in Conns : pc'[c] \in ReaderPc
        /\ pc' \in [Goroutines -> Points]
    <3>1. {"serve", "loop"} \subseteq ReaderPc
      BY DEF ReaderPc
    <3>2. PICK l \in CallerPc :
            \/ pc' = [pc EXCEPT ![g] = l]
            \/ /\ on[g] \in Conns
               /\ \E m \in {"serve", "loop"} : pc' = [pc EXCEPT ![g] = l, ![on[g]] = m]
      BY CallerMoves
    <3>3. CASE pc' = [pc EXCEPT ![g] = l]
      BY <1>0, <3>3 DEF Points, ConnTypes, LocalTypes, Goroutines
    <3>4. ASSUME on[g] \in Conns, NEW m \in ReaderPc, pc' = [pc EXCEPT ![g] = l, ![on[g]] = m]
          PROVE  /\ \A h \in Callers \cup Closers : h # g => pc'[h] = pc[h]
                 /\ pc'[g] \in CallerPc
                 /\ \A c \in Conns : pc'[c] \in ReaderPc
                 /\ pc' \in [Goroutines -> Points]
      BY <1>0, <3>4 DEF Points, ConnTypes, LocalTypes, Goroutines
    <3> QED BY <3>1, <3>2, <3>3, <3>4
  <2>2. /\ \A h \in Goroutines : h # g => on'[h] = on[h]
        /\ on' \in [Goroutines -> Conns \cup {None}]
    BY <1>0, CallerMoves DEF ConnTypes, LocalTypes
  <2>3. \A c \in Conns : on'[c] = c
    BY <1>0, <2>2 DEF ConnTypes, LocalTypes, Goroutines
  <2>4. \A h \in Closers : pc'[h] # "offer" /\ (Closing(h)' => on'[h] \in Conns)
    BY <1>0, <2>1, <2>2 DEF ConnTypes, LocalTypes, Goroutines, Closing
  <2>5. \A h \in Callers : /\ pc'[h] \in CallerPc
                           /\ on'[h] = None => pc'[h] \in {"ready", "lock", "pop"}
                           /\ pc'[h] \in {"ready", "pop"} => on'[h] = None
    BY <1>0, <1>3, <2>1, <2>2 DEF ConnTypes, LocalTypes, Goroutines
  <2> QED BY <1>2, <2>1, <2>2, <2>3, <2>4, <2>5 DEF LocalTypes
<1> QED BY <1>1, <1>4 DEF ConnTypes

-----------------------------------------------------------------------------
(* One token per connection, and from it exclusive use.  A connection goes *)
(* round as a token: from its reader into pool.idle, to the caller that    *)
(* receives it there, and back with Release.  The argument needs neither   *)
(* Status nor connection.lock.                                             *)

(* A step that leaves pool.idle alone, and lets nobody carry a connection  *)
(* it did not carry before, keeps one token per connection.                *)
LEMMA TokenFrame ==
  ASSUME OneToken, idle' = idle,
         \A g \in Goroutines : Carries(g)' => Carries(g) /\ on'[g] = on[g]
  PROVE  OneToken'
  BY DEF OneToken

(* Offer turns the token of a carrier into the last entry of pool.idle.    *)
LEMMA TokenOffer ==
  ASSUME ConnTypes, OneToken, NEW g \in Conns \cup Callers, Offer(g)
  PROVE  OneToken'
<1> USE DEF ConnTypes, SharedTypes, LocalTypes
<1>0. g \in Goroutines /\ on[g] \in Conns /\ Carries(g)
  BY DEF Offer, Carries, Goroutines
<1>1. ~Carries(g)'
  BY <1>0 DEF Offer, Return, Goto, Carries, Goroutines
<1>2. \A h \in Goroutines : Carries(h)' => h # g /\ Carries(h) /\ on'[h] = on[h]
  BY <1>0, <1>1 DEF Offer, Return, Goto, Carries, Goroutines, Callers
<1>3. /\ DOMAIN idle' = 1 .. Len(idle) + 1
      /\ \A i \in 1 .. Len(idle) : idle'[i] = idle[i]
      /\ idle'[Len(idle) + 1] = on[g]
      /\ DOMAIN idle = 1 .. Len(idle) /\ Len(idle) \in Nat
  BY <1>0, <1>1 DEF Offer
<1>4. \A i \in 1 .. Len(idle) : idle[i] # on[g]
  BY <1>0, <1>1, <1>3 DEF OneToken
<1>5. \A i, j \in DOMAIN idle' : idle'[i] = idle'[j] => i = j
  BY <1>3, <1>4 DEF OneToken
<1>6. \A h \in Goroutines : Carries(h)' => \A i \in DOMAIN idle' : idle'[i] # on'[h]
  BY <1>0, <1>1, <1>2, <1>3 DEF OneToken
<1>7. \A h, k \in Goroutines : Carries(h)' /\ Carries(k)' /\ on'[h] = on'[k] => h = k
  BY <1>2 DEF OneToken
<1> QED BY <1>5, <1>6, <1>7 DEF OneToken

(* Pop turns the first entry of pool.idle into the token of a caller.      *)
LEMMA TokenPop ==
  ASSUME ConnTypes, OneToken, NEW g \in Callers, Pop(g)
  PROVE  OneToken'
<1> USE DEF ConnTypes, SharedTypes, LocalTypes
<1>1. ~Carries(g) /\ g \in Goroutines /\ on'[g] = Head(idle)
  BY DEF Pop, Goto, Carries, Goroutines, Callers
<1>2. \A h \in Goroutines : Carries(h)' => h = g \/ (Carries(h) /\ on'[h] = on[h])
  BY DEF Pop, Goto, Carries, Goroutines, Callers
<1>3. /\ DOMAIN idle = 1 .. Len(idle) /\ Len(idle) \in Nat /\ Len(idle) > 0
      /\ Head(idle) = idle[1]
      /\ DOMAIN idle' = 1 .. Len(idle) - 1
      /\ \A i \in 1 .. Len(idle) - 1 : idle'[i] = idle[i + 1]
  BY DEF Pop
<1>4. /\ 1 \in DOMAIN idle
      /\ \A i \in DOMAIN idle' :
           i + 1 \in DOMAIN idle /\ i + 1 # 1 /\ idle'[i] = idle[i + 1]
  BY <1>3
<1>5. \A i, j \in DOMAIN idle' : idle'[i] = idle'[j] => i = j
  <2> SUFFICES ASSUME NEW i \in DOMAIN idle', NEW j \in DOMAIN idle',
                      idle'[i] = idle'[j]
               PROVE  i = j
    OBVIOUS
  <2>1. i + 1 = j + 1 BY <1>4 DEF OneToken
  <2> QED BY <2>1, <1>3
<1>6. \A h \in Goroutines : Carries(h)' => \A i \in DOMAIN idle' : idle'[i] # on'[h]
  <2> SUFFICES ASSUME NEW h \in Goroutines, Carries(h)', NEW i \in DOMAIN idle'
               PROVE  idle'[i] # on'[h]
    OBVIOUS
  <2>1. CASE h = g BY <2>1, <1>1, <1>3, <1>4 DEF OneToken
  <2>2. CASE h # g BY <2>2, <1>2, <1>4 DEF OneToken
  <2> QED BY <2>1, <2>2
<1>7. \A h, k \in Goroutines : Carries(h)' /\ Carries(k)' /\ on'[h] = on'[k] => h = k
  BY <1>1, <1>2, <1>3, <1>4 DEF OneToken
<1> QED BY <1>5, <1>6, <1>7 DEF OneToken

(* A reader drops its token or keeps it, except where it offers it.        *)
LEMMA TokenReader ==
  ASSUME ConnTypes, OneToken, NEW c \in Conns,
         Reading(c)
  PROVE  OneToken'
<1> USE DEF ConnTypes, LocalTypes, Goto, Carries, Goroutines, Callers
<1>1. CASE Release(c)
  <2>1. on' = on
    BY <1>1, ReaderMoves DEF Reading, ReaderStep
  <2>2. \A h \in Goroutines : Carries(h)' => Carries(h)
    BY <1>1, <2>1 DEF Release, Return
  <2> QED BY <1>1, <2>1, <2>2, TokenFrame DEF Release
<1>2. CASE Offer(c) BY <1>2, TokenOffer
<1>3. CASE Loop(c) BY <1>3, TokenFrame DEF Loop, ReaderGoto
<1>4. CASE ReadError(c) BY <1>4, TokenFrame DEF ReadError, ReaderGoto
<1>5. CASE Check(c) BY <1>5, TokenFrame DEF Check, ReaderGoto
<1>6. CASE AwaitNil(c) BY <1>6, TokenFrame DEF AwaitNil, ReaderGoto
<1>7. CASE Remove(c) BY <1>7, TokenFrame DEF Remove, Return
<1>8. CASE Close(c) BY <1>8, TokenFrame DEF Close, BeginClose
<1>9. CASE Closed(c) BY <1>9, TokenFrame DEF Closed, EndClose
<1>10. CASE Receive(c) BY <1>10, TokenFrame DEF Receive, ReaderGoto
<1>11. CASE Break(c) BY <1>11, TokenFrame DEF Break
<1> QED BY <1>1, <1>2, <1>3, <1>4, <1>5, <1>6, <1>7, <1>8, <1>9, <1>10, <1>11 DEF Reading, ReaderStep

(* A caller drops its token or keeps it, except where it offers it or      *)
(* receives one.                                                           *)
LEMMA TokenCaller ==
  ASSUME ConnTypes, OneToken, NEW g \in Callers, Calling(g)
  PROVE  OneToken'
<1> USE DEF ConnTypes, LocalTypes, Goto, Carries, Goroutines, Callers
<1>1. CASE Pop(g) BY <1>1, TokenPop
<1>2. CASE Inspect(g) BY <1>2, TokenFrame DEF Inspect
<1>3. CASE WriteRequest(g) BY <1>3, TokenFrame DEF WriteRequest, Fail
<1>4. CASE SendHeaderChannel(g) BY <1>4, TokenFrame DEF SendHeaderChannel,
       SendChannel, Return
<1>5. CASE ReadHeader(g) BY <1>5, TokenFrame DEF ReadHeader
<1>6. CASE SendBodyChannel(g) BY <1>6, TokenFrame DEF SendBodyChannel,
       SendChannel, Return
<1>7. CASE ReadBody(g) BY <1>7, TokenFrame DEF ReadBody
<1>8. CASE WritePing(g) BY <1>8, TokenFrame DEF WritePing, PingDone
<1>9. CASE PongReceived(g) BY <1>9, TokenFrame DEF PongReceived, PingDone
<1>10. CASE PongTimeout(g) BY <1>10, TokenFrame DEF PongTimeout, PingDone
<1>11. CASE Release(g) BY <1>11, TokenFrame DEF Release, Return
<1>12. CASE Offer(g) BY <1>12, TokenOffer
<1>13. CASE Close(g) BY <1>13, TokenFrame DEF Close, BeginClose
<1>14. CASE Closed(g) BY <1>14, TokenFrame DEF Closed, EndClose
<1>15. CASE Remove(g) BY <1>15, TokenFrame DEF Remove, Return
<1>16. CASE PopTimeout(g) BY <1>16, TokenFrame DEF PopTimeout, Return
<1>17. CASE Take(g) BY <1>17, TokenFrame DEF Take, Return
<1> QED BY <1>1, <1>2, <1>3, <1>4, <1>5, <1>6, <1>7, <1>8, <1>9, <1>10, <1>11,
       <1>12, <1>13, <1>14, <1>15, <1>16, <1>17
       DEF Calling, CallerStep

(* Two callers never use the same websocket.                               *)
LEMMA TokenExclusive ==
  ASSUME ConnTypes, OneToken
  PROVE  ExclusiveLease
  BY DEF ConnTypes, LocalTypes, OneToken, ExclusiveLease, Leases, Carries, Goroutines, Callers

-----------------------------------------------------------------------------
(* A caller that reads an answer has a reader that waits for it.           *)
Meets ==
  \A g \in Callers : pc[g] \in {"header", "body"} => pc[on[g]] = "serve"

(* Meets, first where no caller begins to read.                            *)
LEMMA MeetFrame ==
  ASSUME ConnTypes, Meets,
         \A g \in Callers : pc'[g] \in {"header", "body"} => pc[g] = pc'[g] /\ on'[g] = on[g],
         \A c \in Conns : pc[c] = "serve" => pc'[c] = "serve"
  PROVE  Meets'
<1> SUFFICES ASSUME NEW g \in Callers, pc'[g] \in {"header", "body"}
             PROVE  pc'[on'[g]] = "serve"
  BY DEF Meets
<1>1. on[g] \in Conns
  BY DEF ConnTypes, LocalTypes, Goroutines
<1> QED BY <1>1 DEF Meets

(* A reader that passes on a channel waits for nobody else yet.            *)
LEMMA MeetSend ==
  ASSUME ConnTypes, OneToken, Meets, NEW g \in Callers,
         SendHeaderChannel(g) \/ SendBodyChannel(g)
  PROVE  Meets'
<1> USE DEF ConnTypes, LocalTypes, Goroutines, SendHeaderChannel, SendBodyChannel,
            SendChannel
<1>1. on[g] \in Conns /\ g \in Goroutines
  OBVIOUS
<1>2. CASE ws[on[g]] = "closed"
  BY <1>1, <1>2, MeetFrame DEF Return, Goto
<1>3. CASE ws[on[g]] # "closed"
  <2>1. PICK label \in CallerPc : pc' = [pc EXCEPT ![g] = label, ![on[g]] = "serve"]
    BY <1>3 DEF CallerPc
  <2>2. pc[on[g]] = "await" /\ on' = on
    BY <1>3
  <2>3. ASSUME NEW h \in Callers, h # g, pc'[h] \in {"header", "body"}
        PROVE  pc'[on[h]] = "serve"
    <3>1. h \in Goroutines /\ h # on[g] /\ pc'[h] = pc[h]
      BY <1>1, <2>1, <2>3, CallerHas
    <3>2. on[h] \in Conns
      BY <2>3, <3>1, CallerHas
    <3> QED BY <1>1, <2>1, <2>3, <3>1, <3>2 DEF Meets
  <2>4. pc'[on[g]] = "serve"
    BY <1>1, <2>1
  <2> QED BY <2>2, <2>3, <2>4 DEF Meets
<1> QED BY <1>2, <1>3

(* A reader that is freed by its caller has no other.                      *)
LEMMA MeetRead ==
  ASSUME ConnTypes, OneToken, Meets, NEW g \in Callers, ReadHeader(g) \/ ReadBody(g)
  PROVE  Meets'
<1> USE DEF ConnTypes, LocalTypes, Goroutines, ReadHeader, ReadBody
<1>1. on[g] \in Conns /\ g \in Goroutines /\ on' = on
  OBVIOUS
<1>2. PICK label \in {"sendBody", "release", "close", "aborted"} :
        pc' = [pc EXCEPT ![g] = label, ![on[g]] = "loop"]
  OBVIOUS
<1>3. pc'[g] = label
  BY <1>1, <1>2
<1>4. ASSUME NEW h \in Callers, h # g, pc'[h] \in {"header", "body"}
      PROVE  pc'[on[h]] = "serve"
  <2>0. h \in Goroutines /\ h # on[g] /\ pc'[h] = pc[h]
    BY <1>1, <1>2, <1>4, CallerHas
  <2>1. pc'[h] = pc[h] /\ on[h] \in Conns
    BY <1>4, <2>0, CallerHas
  <2>2. on[h] # on[g]
    BY <1>1, <1>4, <2>1 DEF OneToken, Carries
  <2> QED BY <1>1, <1>2, <1>4, <2>1, <2>2 DEF Meets
<1> QED BY <1>1, <1>3, <1>4 DEF Meets

(* A step of a reader leaves its caller in peace.                          *)
LEMMA MeetReader ==
  ASSUME ConnTypes, Meets, NEW c \in Conns, Reading(c)
  PROVE  Meets'
<1> USE DEF ConnTypes, LocalTypes, Goto, Goroutines
<1>1. pc[c] = "serve" => pc' = pc
  BY DEF Reading, ReaderStep, Release, Offer, Loop, ReadError, Check, AwaitNil, Remove, Close,
     Closed, Receive, Break
<1> QED BY <1>1, ReaderMoves, MeetFrame

(* So does a step of a caller.                                             *)
LEMMA MeetCaller ==
  ASSUME ConnTypes, OneToken, Meets, NEW g \in Callers, Calling(g)
  PROVE  Meets'
<1> USE DEF ConnTypes, LocalTypes, Goto, Goroutines, Callers
<1>1. CASE SendHeaderChannel(g) \/ SendBodyChannel(g) \/ ReadHeader(g) \/ ReadBody(g)
  BY <1>1, MeetSend, MeetRead
<1>2. CASE WriteRequest(g) \/ WritePing(g) \/ PongReceived(g) \/ PongTimeout(g)
  BY <1>2, MeetFrame DEF WriteRequest, Fail, WritePing, PongReceived, PongTimeout, PingDone
<1>3. CASE Release(g) \/ Offer(g) \/ Close(g) \/ Closed(g) \/ Remove(g)
  BY <1>3, MeetFrame DEF Release, Offer, Close, Closed, Remove, Return
<1>4. CASE Pop(g)
  BY <1>4, MeetFrame DEF Pop
<1>5. CASE Inspect(g)
  BY <1>5, MeetFrame DEF Inspect
<1>6. CASE PopTimeout(g) \/ Take(g)
  BY <1>6, MeetFrame DEF PopTimeout, Take, Return
<1> QED BY <1>1, <1>2, <1>3, <1>4, <1>5, <1>6 DEF Calling, CallerStep

-----------------------------------------------------------------------------
(* Whoever closes a connection or offers it holds its lock; Close closes   *)
(* the websocket first and sets Status last.                               *)
Holds ==
  \A g \in Goroutines :
    /\ Closing(g) \/ pc[g] = "offer" => connLock[on[g]] = g
    /\ Closing(g) => status[on[g]] # "CLOSED" /\ ws[on[g]] = "closed"

(* Status follows the websocket: it is CLOSED only when the websocket is,  *)
(* and meanwhile somebody is about to set it.                              *)
Follows ==
  \A c \in Conns :
    /\ status[c] = "CLOSED" => ws[c] = "closed"
    /\ ws[c] = "closed" /\ status[c] # "CLOSED" =>
         \E g \in Goroutines : Closing(g) /\ on[g] = c

(* A connection that was not registered yet is known to no closer.         *)
Unborn ==
  \A c \in Conns : pc[c] = "unborn" =>
    /\ status[c] = "ABSENT"
    /\ c \notin writeConnections
    /\ \A g \in Closers : on[g] # c

CloseInv == Holds /\ Follows /\ Unborn

(* CLOSED and its websocket stay so.                                       *)
Final ==
  \A c \in Conns : status[c] = "CLOSED" => status'[c] = "CLOSED" /\ ws'[c] = "closed"

-----------------------------------------------------------------------------
(* The kinds of steps: one that neither locks nor closes, the two halves   *)
(* of Release and the two halves of Close.                                 *)

(* The goroutines other than g stay where they are.                        *)
Others(g) ==
  \A h \in Goroutines : h # g => pc'[h] = pc[h] /\ on'[h] = on[h]

(* No connection is registered but with its reader.                        *)
NoneLearned ==
  /\ \A c \in Conns : pc'[c] = "unborn" => pc[c] = "unborn" /\ status'[c] = status[c]
  /\ \A c \in writeConnections' : c \in writeConnections \/ pc'[c] # "unborn"

(* Whatever a caller or a closer works on was registered.                  *)
LEMMA Registered ==
  ASSUME ConnTypes, OneToken, Unborn, NEW g \in Goroutines, on[g] \in Conns,
         g \in Conns => pc[g] # "unborn"
  PROVE  pc[on[g]] # "unborn"
<1>1. CASE g \in Conns
  BY <1>1 DEF ConnTypes, LocalTypes
<1>2. CASE g \in Callers
  <2>1. on[on[g]] = on[g] /\ g # on[g] /\ on[g] # None /\ on[g] \in Goroutines
    BY <1>2 DEF ConnTypes, LocalTypes, Goroutines
  <2>2. Carries(g)
    BY <1>2, <2>1 DEF Carries
  <2> QED BY <2>1, <2>2 DEF OneToken, Carries
<1>3. CASE g \in Closers
  BY <1>3 DEF Unborn
<1> QED BY <1>1, <1>2, <1>3 DEF Goroutines

(* Whoever closes or offers has a connection to close or offer.            *)
LEMMA Works ==
  ASSUME ConnTypes, NEW g \in Goroutines, Closing(g) \/ pc[g] = "offer"
  PROVE  on[g] \in Conns
<1> USE DEF ConnTypes, LocalTypes, Closing
<1>1. CASE g \in Conns
  BY <1>1
<1>2. CASE g \in Callers
  BY <1>2 DEF Goroutines
<1>3. CASE g \in Closers
  BY <1>3
<1> QED BY <1>1, <1>2, <1>3 DEF Goroutines

(* A step that neither locks, nor closes, nor sets CLOSED.                 *)
LEMMA OtherStep ==
  ASSUME CloseInv, connLock' = connLock,
         \A c \in Conns : /\ status'[c] = "CLOSED" <=> status[c] = "CLOSED"
                          /\ ws'[c] = "closed" <=> ws[c] = "closed",
         \A g \in Goroutines : /\ Closing(g)' <=> Closing(g)
                               /\ Closing(g) => on'[g] = on[g] /\ on[g] \in Conns
                               /\ pc'[g] = "offer" => pc[g] = "offer" /\ on'[g] = on[g],
         \A g \in Closers : on'[g] = on[g],
         NoneLearned
  PROVE  CloseInv' /\ Final
<1>1. Holds'
  BY DEF CloseInv, Holds
<1>2. Follows' /\ Final
  BY DEF CloseInv, Follows, Final
<1>3. Unborn'
  BY DEF CloseInv, Unborn, NoneLearned
<1> QED BY <1>1, <1>2, <1>3 DEF CloseInv

(* Release marks a connection that is not CLOSED, and whose lock is free:  *)
(* nobody is closing it.                                                   *)
LEMMA ReleaseStep ==
  ASSUME ConnTypes, OneToken, CloseInv, NEW g \in Conns \cup Callers, NEW c \in Conns,
         on[g] = c, connLock[c] = None, status[c] # "CLOSED",
         status' = [status EXCEPT ![c] = "IDLE"],
         connLock' = [connLock EXCEPT ![c] = g],
         pc[g] = "release", pc' = [pc EXCEPT ![g] = "offer"],
         UNCHANGED <<ws, on, writeConnections>>
  PROVE  CloseInv' /\ Final
<1>0. \A h \in Goroutines : Closing(h) \/ pc[h] = "offer" => on[h] \in Conns
  BY Works
<1> USE DEF ConnTypes, SharedTypes, LocalTypes, Closing, Goroutines
<1>1. pc[c] # "unborn"
  BY Registered DEF CloseInv
<1>2. Holds'
  BY <1>0 DEF CloseInv, Holds
<1>3. Follows' /\ Final
  BY DEF CloseInv, Holds, Follows, Final
<1>4. Unborn'
  BY <1>1 DEF CloseInv, Unborn
<1> QED BY <1>2, <1>3, <1>4 DEF CloseInv

(* Offer unlocks.                                                          *)
LEMMA OfferStep ==
  ASSUME ConnTypes, CloseInv, NEW g \in Conns \cup Callers, Offer(g)
  PROVE  CloseInv' /\ Final
<1>0. \A h \in Goroutines : Closing(h) \/ pc[h] = "offer" => on[h] \in Conns
  BY Works
<1> USE DEF ConnTypes, SharedTypes, LocalTypes, Closing, Goroutines, Callers, Offer, Return, Goto
<1>1. Holds'
  BY <1>0 DEF CloseInv, Holds
<1>2. Follows' /\ Final
  BY DEF CloseInv, Follows, Final
<1>3. Unborn'
  BY DEF CloseInv, Unborn
<1> QED BY <1>1, <1>2, <1>3 DEF CloseInv

(* The first half of Close: lock and websocket.                            *)
LEMMA BeginStep ==
  ASSUME ConnTypes, CloseInv, NEW g \in Goroutines, NEW c \in Conns,
         BeginClose(g, c), connLock[c] = None, status[c] # "CLOSED", pc[c] # "unborn",
         ~Closing(g), pc[g] # "offer", Closing(g)', pc'[g] # "offer", on'[g] = c, Others(g),
         writeConnections' = writeConnections
  PROVE  CloseInv' /\ Final
<1>0. \A h \in Goroutines : Closing(h) \/ pc[h] = "offer" => on[h] \in Conns
  BY Works
<1> USE DEF ConnTypes, SharedTypes, LocalTypes, Closing, Goroutines, BeginClose, Others
<1>1. Holds'
  BY <1>0 DEF CloseInv, Holds
<1>2. Follows' /\ Final
  <2>1. ASSUME NEW h \in Goroutines, Closing(h) PROVE Closing(h)' /\ on'[h] = on[h]
    BY <2>1
  <2>2. Closing(g)' /\ on'[g] = c
    OBVIOUS
  <2> QED BY <2>1, <2>2 DEF CloseInv, Follows, Final
<1>3. Unborn'
  <2>1. \A d \in Conns : pc'[d] = "unborn" => pc[d] = "unborn" /\ d # c
    OBVIOUS
  <2> QED BY <2>1 DEF CloseInv, Unborn
<1> QED BY <1>1, <1>2, <1>3 DEF CloseInv

(* The second half: whoever set about it is the only one that does.        *)
LEMMA EndStep ==
  ASSUME ConnTypes, OneToken, CloseInv, NEW g \in Goroutines, NEW c \in Conns,
         on[g] = c, EndClose(c), Closing(g),
         ~Closing(g)', pc'[g] \notin {"offer", "unborn"}, Others(g),
         on'[g] \in {c, None}, writeConnections' \subseteq writeConnections
  PROVE  CloseInv' /\ Final
<1>0. \A h \in Goroutines : Closing(h) \/ pc[h] = "offer" => on[h] \in Conns
  BY Works
<1> USE DEF ConnTypes, SharedTypes, LocalTypes, Closing, Goroutines, EndClose, Others
<1>1. pc[c] # "unborn"
  BY Registered DEF CloseInv
<1>2. Holds'
  BY <1>0 DEF CloseInv, Holds
<1>3. Follows' /\ Final
  <2>1. ASSUME NEW h \in Goroutines, Closing(h), on[h] = c PROVE h = g
    BY <2>1 DEF CloseInv, Holds
  <2>2. ASSUME NEW d \in Conns, d # c, NEW h \in Goroutines, Closing(h), on[h] = d
        PROVE  Closing(h)' /\ on'[h] = d
    BY <2>2
  <2>3. ws[c] = "closed"
    BY DEF CloseInv, Holds, Follows
  <2> QED BY <2>2, <2>3 DEF CloseInv, Follows, Final
<1>4. Unborn'
  <2>1. \A h \in Goroutines : pc'[h] = "unborn" => pc[h] = "unborn"
    OBVIOUS
  <2>2. \A h \in Goroutines : on'[h] = on[h] \/ on'[h] = None
    OBVIOUS
  <2>3. \A d \in Conns : d # c => status'[d] = status[d] /\ d # None
    OBVIOUS
  <2> QED BY <1>1, <2>1, <2>2, <2>3 DEF CloseInv, Unborn
<1> QED BY <1>2, <1>3, <1>4 DEF CloseInv

-----------------------------------------------------------------------------
(* A step of a reader goroutine, or of the network.                        *)
LEMMA CloseReader ==
  ASSUME ConnTypes, OneToken, CloseInv, NEW c \in Conns, Reading(c)
  PROVE  CloseInv' /\ Final
<1>0. /\ on[c] = c /\ c \in Goroutines /\ pc[c] \in ReaderPc
      /\ \A g \in Goroutines : Closing(g) \/ pc[g] = "offer" => on[g] \in Conns
  BY Works DEF ConnTypes, LocalTypes, Goroutines
<1> USE DEF ConnTypes, SharedTypes, LocalTypes, Goto, Closing, Goroutines
<1>1. CASE Release(c)
  <2>1. CASE status[c] = "CLOSED"
    BY <1>0, <1>1, <2>1, OtherStep DEF Release, Return, NoneLearned
  <2>2. CASE status[c] # "CLOSED"
    BY <1>0, <1>1, <2>2, ReleaseStep DEF Release
  <2> QED BY <2>1, <2>2
<1>2. CASE Offer(c)
  BY <1>0, <1>2, OfferStep
<1>3. CASE Loop(c)
  BY <1>0, <1>3, OtherStep DEF Loop, ReaderGoto, NoneLearned
<1>4. CASE ReadError(c)
  BY <1>0, <1>4, OtherStep DEF ReadError, ReaderGoto, NoneLearned
<1>5. CASE Check(c)
  BY <1>0, <1>5, OtherStep DEF Check, ReaderGoto, NoneLearned
<1>6. CASE AwaitNil(c)
  BY <1>0, <1>6, OtherStep DEF AwaitNil, ReaderGoto, NoneLearned
<1>7. CASE Remove(c)
  BY <1>0, <1>7, OtherStep DEF Remove, NoneLearned
<1>8. CASE Close(c)
  <2>1. CASE status[c] = "CLOSED"
    BY <1>0, <1>8, <2>1, OtherStep DEF Close, NoneLearned
  <2>2. CASE status[c] # "CLOSED"
    BY <1>0, <1>8, <2>2, BeginStep DEF Close, Others
  <2> QED BY <2>1, <2>2
<1>9. CASE Closed(c)
  BY <1>0, <1>9, EndStep DEF Closed, Others
<1>10. CASE Receive(c)
  BY <1>0, <1>10, OtherStep DEF Receive, ReaderGoto, NoneLearned
<1>11. CASE Break(c)
  BY <1>0, <1>11, OtherStep DEF Break, NoneLearned
<1> QED BY <1>1, <1>2, <1>3, <1>4, <1>5, <1>6, <1>7, <1>8, <1>9, <1>10, <1>11
        DEF Reading, ReaderStep

(* A caller and the reader of its connection move together.                *)
LEMMA BothMove ==
  ASSUME ConnTypes, CloseInv, NEW g \in Callers, on[g] \in Conns,
         NEW l \in {"header", "body", "sendBody", "release", "close", "aborted"},
         NEW m \in {"serve", "loop"},
         pc[g] \in {"sendHeader", "header", "sendBody", "body"},
         pc[on[g]] \in {"await", "serve"},
         pc' = [pc EXCEPT ![g] = l, ![on[g]] = m],
         UNCHANGED <<status, ws, connLock, writeConnections, on>>
  PROVE  CloseInv' /\ Final
<1>0. \A h \in Goroutines : Closing(h) \/ pc[h] = "offer" => on[h] \in Conns
  BY Works
<1>1. \A h \in Goroutines : h # g /\ h # on[g] => pc'[h] = pc[h]
  BY DEF ConnTypes, LocalTypes
<1>2. g \in Goroutines /\ on[g] \in Goroutines /\ g # on[g] /\ pc'[g] = l /\ pc'[on[g]] = m
  BY DEF ConnTypes, LocalTypes, Goroutines
<1>3. \A h \in Goroutines : /\ Closing(h)' <=> Closing(h)
                            /\ pc'[h] = "offer" => pc[h] = "offer"
                            /\ pc'[h] = "unborn" => pc[h] = "unborn"
  BY <1>1, <1>2 DEF Closing
<1>4. NoneLearned
  BY <1>3 DEF NoneLearned, Goroutines
<1> QED BY <1>0, <1>3, <1>4, OtherStep

(* A step of a caller.                                                     *)
LEMMA CloseCaller ==
  ASSUME ConnTypes, OneToken, Meets, CloseInv, NEW g \in Callers, Calling(g)
  PROVE  CloseInv' /\ Final
<1>0. /\ g \in Goroutines /\ g \notin Conns /\ g \notin Closers /\ pc[g] \in CallerPc
      /\ on[g] \in Conns \cup {None}
      /\ pc[g] \notin {"ready", "lock", "pop"} => on[g] \in Conns
      /\ \A h \in Goroutines : Closing(h) \/ pc[h] = "offer" => on[h] \in Conns
  BY Works, CallerHas DEF ConnTypes, LocalTypes
<1> USE DEF ConnTypes, SharedTypes, LocalTypes, Goto, Closing, Goroutines
<1>1. CASE Release(g)
  <2>1. CASE status[on[g]] = "CLOSED"
    BY <1>0, <1>1, <2>1, OtherStep DEF Release, Return, NoneLearned
  <2>2. CASE status[on[g]] # "CLOSED"
    BY <1>0, <1>1, <2>2, ReleaseStep DEF Release
  <2> QED BY <2>1, <2>2
<1>2. CASE Offer(g)
  BY <1>0, <1>2, OfferStep
<1>3. CASE Close(g)
  <2>1. CASE status[on[g]] = "CLOSED"
    BY <1>0, <1>3, <2>1, OtherStep DEF Close, NoneLearned
  <2>2. CASE status[on[g]] # "CLOSED"
    BY <1>0, <1>3, <2>2, BeginStep, Registered DEF Close, Others, CloseInv
  <2> QED BY <2>1, <2>2
<1>4. CASE Closed(g)
  BY <1>0, <1>4, EndStep DEF Closed, Others
<1>5. CASE Pop(g)
  BY <1>0, <1>5, OtherStep DEF Pop, NoneLearned
<1>6. CASE Inspect(g)
  BY <1>0, <1>6, OtherStep DEF Inspect, NoneLearned
<1>7. CASE WriteRequest(g)
  BY <1>0, <1>7, OtherStep DEF WriteRequest, Fail, NoneLearned
<1>8. CASE SendHeaderChannel(g)
  <2>1. CASE ws[on[g]] = "closed"
    BY <1>0, <1>8, <2>1, OtherStep DEF SendHeaderChannel, SendChannel, Return, NoneLearned
  <2>2. CASE ws[on[g]] # "closed"
    BY <1>0, <1>8, <2>2, BothMove DEF SendHeaderChannel, SendChannel
  <2> QED BY <2>1, <2>2
<1>9. CASE ReadHeader(g)
  BY <1>0, <1>9, BothMove DEF ReadHeader, Meets
<1>10. CASE SendBodyChannel(g)
  <2>1. CASE ws[on[g]] = "closed"
    BY <1>0, <1>10, <2>1, OtherStep DEF SendBodyChannel, SendChannel, Return, NoneLearned
  <2>2. CASE ws[on[g]] # "closed"
    BY <1>0, <1>10, <2>2, BothMove DEF SendBodyChannel, SendChannel
  <2> QED BY <2>1, <2>2
<1>11. CASE ReadBody(g)
  BY <1>0, <1>11, BothMove DEF ReadBody, Meets
<1>12. CASE WritePing(g)
  BY <1>0, <1>12, OtherStep DEF WritePing, PingDone, NoneLearned
<1>13. CASE PongReceived(g)
  BY <1>0, <1>13, OtherStep DEF PongReceived, PingDone, NoneLearned
<1>14. CASE PongTimeout(g)
  BY <1>0, <1>14, OtherStep DEF PongTimeout, PingDone, NoneLearned
<1>15. CASE Remove(g)
  BY <1>0, <1>15, OtherStep DEF Remove, Return, NoneLearned
<1>16. CASE PopTimeout(g)
  BY <1>0, <1>16, OtherStep DEF PopTimeout, Return, NoneLearned
<1>17. CASE Take(g)
  BY <1>0, <1>17, OtherStep, Registered DEF Take, Return, NoneLearned, CloseInv
<1> QED BY <1>1, <1>2, <1>3, <1>4, <1>5, <1>6, <1>7, <1>8, <1>9, <1>10,
       <1>11, <1>12, <1>13, <1>14, <1>15, <1>16, <1>17 DEF Calling, CallerStep

(* A connection that is not locked and not CLOSED has its websocket.       *)
LEMMA FreeIsOpen ==
  ASSUME CloseInv, NEW c \in Conns, connLock[c] = None, status[c] # "CLOSED"
  PROVE  ws[c] # "closed"
BY DEF CloseInv, Follows, Holds, Goroutines

-----------------------------------------------------------------------------
(* The abstract state of ConnectionLease, element by element.              *)
IsLive(c) == status[c] # "ABSENT" /\ ws[c] # "closed"
IsLeased(g, c) == Leases(g) /\ on[g] = c /\ ws[c] # "closed"

(* A connection that has no status yet has no reader yet.                  *)
Born == \A c \in Conns : status[c] = "ABSENT" => pc[c] = "unborn"

(* A step of the promise, or none.                                         *)
Promised == [Abstract!Next]_(Abstract!leaseVars)

(* Nothing that a user of the pool can see.                                *)
LEMMA SameStep ==
  ASSUME \A c \in Conns : /\ IsLive(c)' <=> IsLive(c)
                          /\ ws'[c] = "closed" <=> ws[c] = "closed",
         \A g \in Callers, c \in Conns : IsLeased(g, c)' <=> IsLeased(g, c)
  PROVE  Promised
<1>1. UNCHANGED Abstract!leaseVars
  BY DEF Abstract!leaseVars, IsLive, IsLeased
<1> QED BY <1>1 DEF Promised

(* A connection that is registered becomes live.                           *)
LEMMA JoinStep ==
  ASSUME NEW c \in Conns, status[c] = "ABSENT", ws[c] # "closed", ws' = ws,
         \A d \in Conns : IsLive(d)' <=> IsLive(d) \/ d = c,
         \A g \in Callers, d \in Conns : IsLeased(g, d)' <=> IsLeased(g, d)
  PROVE  Promised
<1>1. Abstract!Join(c)
  BY DEF Abstract!Join, IsLive, IsLeased
<1> QED BY <1>1 DEF Promised, Abstract!Next

(* A connection dies, and the lease of it ends, if there is one.           *)
LEMMA DieStep ==
  ASSUME ConnTypes, NEW c \in Conns, IsLive(c),
         ws' = [ws EXCEPT ![c] = "closed"], status' = status,
         \A g \in Callers, d \in Conns : IsLeased(g, d)' <=> IsLeased(g, d) /\ d # c
  PROVE  Promised
<1>1. Abstract!Die(c)
  BY DEF Abstract!Die, IsLive, IsLeased, ConnTypes, SharedTypes
<1> QED BY <1>1 DEF Promised, Abstract!Next

(* A user takes a live connection that nobody has.                         *)
LEMMA LeaseStep ==
  ASSUME NEW u \in Callers, NEW c \in Conns, IsLive(c), ws' = ws,
         \A d \in Conns : IsLive(d)' <=> IsLive(d),
         \A v \in Callers : ~IsLeased(v, c),
         \A d \in Conns : ~IsLeased(u, d),
         \A g \in Callers, d \in Conns :
           IsLeased(g, d)' <=> IsLeased(g, d) \/ (g = u /\ d = c)
  PROVE  Promised
<1>1. Abstract!Lease(u, c)
  BY DEF Abstract!Lease, IsLive, IsLeased
<1> QED BY <1>1 DEF Promised, Abstract!Next

(* A user gives its connection back alive.                                 *)
LEMMA GiveBackStep ==
  ASSUME NEW u \in Callers, NEW c \in Conns, IsLeased(u, c), ws' = ws,
         \A d \in Conns : IsLive(d)' <=> IsLive(d),
         \A g \in Callers, d \in Conns :
           IsLeased(g, d)' <=> IsLeased(g, d) /\ ~(g = u /\ d = c)
  PROVE  Promised
<1>1. Abstract!GiveBack(u, c)
  BY DEF Abstract!GiveBack, IsLive, IsLeased
<1> QED BY <1>1 DEF Promised, Abstract!Next

(* Status becomes something with the registration and stays so.            *)
LEMMA BornFrame ==
  ASSUME Born,
         \A c \in Conns : status'[c] = "ABSENT" => status[c] = "ABSENT",
         \A c \in Conns : pc[c] = "unborn" => pc'[c] = "unborn" \/ status'[c] # "ABSENT"
  PROVE  Born'
BY DEF Born

(* A step of a reader goroutine, or of the network.                        *)
LEMMA BornReader ==
  ASSUME ConnTypes, Born, NEW c \in Conns, Reading(c)
  PROVE  Born'
<1> USE DEF ConnTypes, SharedTypes, LocalTypes, Goto, Goroutines, BeginClose, EndClose
<1>1. CASE Release(c) \/ Offer(c) \/ Loop(c) \/ ReadError(c) \/ Check(c) \/ AwaitNil(c)
  BY <1>1, BornFrame DEF Release, Offer, Return, Loop, ReadError, Check, AwaitNil, ReaderGoto
<1>2. CASE Remove(c) \/ Close(c) \/ Closed(c) \/ Receive(c) \/ Break(c)
  BY <1>2, BornFrame DEF Remove, Close, Closed, Receive, Break, ReaderGoto
<1> QED BY <1>1, <1>2 DEF Reading, ReaderStep

(* A step of a caller.                                                     *)
LEMMA BornCaller ==
  ASSUME ConnTypes, Meets, Born, NEW g \in Callers, Calling(g)
  PROVE  Born'
<1>0. g \in Goroutines /\ g \notin Conns
  BY CallerHas
<1> USE DEF ConnTypes, SharedTypes, LocalTypes, Goto, Goroutines, BeginClose, EndClose
<1>1. CASE SendHeaderChannel(g) \/ SendBodyChannel(g)
  BY <1>0, <1>1, BornFrame DEF SendHeaderChannel, SendBodyChannel, SendChannel, Return
<1>2. CASE ReadHeader(g) \/ ReadBody(g)
  BY <1>0, <1>2, BornFrame DEF ReadHeader, ReadBody, Meets
<1>3. CASE WriteRequest(g) \/ WritePing(g) \/ PongReceived(g) \/ PongTimeout(g)
  BY <1>0, <1>3, BornFrame DEF WriteRequest, Fail, WritePing, PongReceived, PongTimeout, PingDone
<1>4. CASE Release(g) \/ Offer(g) \/ Close(g) \/ Closed(g) \/ Remove(g)
  BY <1>0, <1>4, BornFrame DEF Release, Offer, Close, Closed, Remove, Return
<1>5. CASE Pop(g) \/ Inspect(g) \/ PopTimeout(g) \/ Take(g)
  BY <1>0, <1>5, BornFrame DEF Pop, Inspect, PopTimeout, Take, Return
<1> QED BY <1>1, <1>2, <1>3, <1>4, <1>5 DEF Calling, CallerStep

-----------------------------------------------------------------------------
(* The state in which a step begins.                                       *)
LeaseInv == ConnTypes /\ OneToken /\ Meets /\ CloseInv /\ Born

(* A step of a reader goroutine, or of the network, keeps the promise.     *)
LEMMA LeaseReader ==
  ASSUME LeaseInv, NEW c \in Conns, Reading(c)
  PROVE  Promised
<1>0. /\ on[c] = c /\ c \in Goroutines /\ c \notin Callers /\ pc[c] \in ReaderPc
  BY DEF LeaseInv, ConnTypes, LocalTypes, Goroutines
<1> USE DEF LeaseInv, ConnTypes, SharedTypes, LocalTypes, Goto, Goroutines, IsLive, IsLeased,
            Leases
<1>1. CASE Release(c)
  BY <1>0, <1>1, SameStep DEF Release, Return, Born
<1>2. CASE Offer(c)
  BY <1>0, <1>2, SameStep DEF Offer, Return
<1>3. CASE Loop(c) \/ ReadError(c) \/ Check(c) \/ AwaitNil(c) \/ Receive(c)
  BY <1>0, <1>3, SameStep DEF Loop, ReadError, Check, AwaitNil, Receive, ReaderGoto
<1>4. CASE Remove(c)
  BY <1>0, <1>4, SameStep DEF Remove
<1>5. CASE Close(c)
  <2>1. CASE status[c] = "CLOSED"
    BY <1>0, <1>5, <2>1, SameStep DEF Close
  <2>2. CASE status[c] # "CLOSED"
    <3>1. IsLive(c)
      BY <1>0, <1>5, <2>2, FreeIsOpen DEF Close, Born
    <3> QED BY <1>0, <1>5, <2>2, <3>1, DieStep DEF Close, BeginClose
  <2> QED BY <2>1, <2>2
<1>6. CASE Closed(c)
  <2>1. ws[c] = "closed"
    BY <1>0, <1>6 DEF Closed, CloseInv, Holds, Closing
  <2> QED BY <1>0, <1>6, <2>1, SameStep DEF Closed, EndClose
<1>7. CASE Break(c)
  BY <1>0, <1>7, SameStep DEF Break
<1> QED BY <1>1, <1>2, <1>3, <1>4, <1>5, <1>6, <1>7 DEF Reading, ReaderStep

(* A caller has a lease at the labels of Leases; SameMoves says that the   *)
(* moves of a step leave all leases alone.                                 *)
SameMoves ==
  \A g \in Callers :
    /\ Leases(g)' <=> Leases(g)
    /\ Leases(g) => on'[g] = on[g]

(* A step that moves somebody and does not touch the connections.          *)
LEMMA MoveStep ==
  ASSUME SameMoves, UNCHANGED <<status, ws>>
  PROVE  Promised
BY SameStep DEF SameMoves, IsLive, IsLeased

(* Only the lease of g ends, if its connection was not closed before.      *)
LEMMA EndOfLease ==
  ASSUME LeaseInv, NEW g \in Callers, on[g] \in Conns, Leases(g), ~Leases(g)',
         \A h \in Callers : h # g => pc'[h] = pc[h] /\ on'[h] = on[h],
         ws' = ws, \A d \in Conns : IsLive(d)' <=> IsLive(d)
  PROVE  Promised
<1>1. CASE ws[on[g]] = "closed"
  <2>1. \A h \in Callers, d \in Conns : IsLeased(h, d)' <=> IsLeased(h, d)
    BY <1>1 DEF IsLeased, Leases
  <2> QED BY <2>1, SameStep
<1>2. CASE ws[on[g]] # "closed"
  <2>1. IsLeased(g, on[g])
    BY <1>2 DEF IsLeased
  <2>2. \A h \in Callers, d \in Conns :
          IsLeased(h, d)' <=> IsLeased(h, d) /\ ~(h = g /\ d = on[g])
    BY DEF IsLeased, Leases
  <2> QED BY <2>1, <2>2, GiveBackStep
<1> QED BY <1>1, <1>2

(* A step of a caller keeps the promise.                                   *)
LEMMA LeaseCaller ==
  ASSUME LeaseInv, NEW g \in Callers, Calling(g)
  PROVE  Promised
<1>0. /\ g \in Goroutines /\ g \notin Conns /\ pc[g] \in CallerPc
      /\ on[g] \in Conns \cup {None} /\ on[g] \in Conns => pc[on[g]] # "unborn"
      /\ pc[g] \notin {"ready", "lock", "pop"} => on[g] \in Conns
  BY Registered, CallerHas DEF LeaseInv, ConnTypes, LocalTypes, CloseInv
<1> USE DEF LeaseInv, ConnTypes, SharedTypes, LocalTypes, Goto, Goroutines
<1>1. CASE Release(g)
  <2>1. pc' = [pc EXCEPT ![g] = "offer"] \/ pc' = [pc EXCEPT ![g] = "ready"]
    BY <1>0, <1>1 DEF Release, Return
  <2>2. \A d \in Conns : IsLive(d)' <=> IsLive(d)
    BY <1>0, <1>1 DEF Release, Return, Born, IsLive
  <2> QED BY <1>0, <1>1, <2>1, <2>2, EndOfLease DEF Release, Return, Leases
<1>2. CASE Offer(g) \/ Inspect(g) \/ Remove(g) \/ PopTimeout(g)
  BY <1>0, <1>2, MoveStep DEF Offer, Return, Inspect, Remove, PopTimeout, SameMoves, Leases
<1>9. CASE Pop(g)
  BY <1>0, <1>9, MoveStep DEF Pop, SameMoves, Leases
<1>3. CASE WriteRequest(g) \/ WritePing(g) \/ PongReceived(g) \/ PongTimeout(g)
  BY <1>0, <1>3, MoveStep DEF WriteRequest, Fail, WritePing, PongReceived, PongTimeout, PingDone,
     SameMoves, Leases
<1>4. CASE SendHeaderChannel(g) \/ SendBodyChannel(g)
  <2>1. CASE ws[on[g]] = "closed"
    BY <1>0, <1>4, <2>1, EndOfLease DEF SendHeaderChannel, SendBodyChannel, SendChannel, Return,
       Leases, IsLive
  <2>2. CASE ws[on[g]] # "closed"
    BY <1>0, <1>4, <2>2, MoveStep DEF SendHeaderChannel, SendBodyChannel, SendChannel, SameMoves,
       Leases
  <2> QED BY <2>1, <2>2
<1>5. CASE ReadHeader(g) \/ ReadBody(g)
  BY <1>0, <1>5, MoveStep DEF ReadHeader, ReadBody, SameMoves, Leases
<1>6. CASE Close(g)
  <2>1. CASE status[on[g]] = "CLOSED"
    BY <1>0, <1>6, <2>1, EndOfLease DEF Close, Leases, IsLive
  <2>2. CASE status[on[g]] # "CLOSED"
    <3>1. IsLive(on[g])
      BY <1>0, <1>6, <2>2, FreeIsOpen DEF Close, Born, IsLive
    <3>2. \A h \in Callers, d \in Conns :
            IsLeased(h, d)' <=> IsLeased(h, d) /\ d # on[g]
      BY <1>0, <1>6, <2>2 DEF Close, BeginClose, IsLeased, Leases
    <3> QED BY <1>0, <1>6, <2>2, <3>1, <3>2, DieStep DEF Close, BeginClose
  <2> QED BY <2>1, <2>2
<1>7. CASE Closed(g)
  <2>1. ws[on[g]] = "closed"
    BY <1>0, <1>7 DEF Closed, CloseInv, Holds, Closing
  <2>2. \A h \in Callers, d \in Conns : IsLeased(h, d)' <=> IsLeased(h, d)
    BY <1>0, <1>7 DEF Closed, EndClose, IsLeased, Leases
  <2> QED BY <1>0, <1>7, <2>1, <2>2, SameStep DEF Closed, EndClose, IsLive
<1>8. CASE Take(g)
  <2>1. CASE status[on[g]] \in {"CLOSED", "BUSY"}
    BY <1>0, <1>8, <2>1, MoveStep DEF Take, Return, SameMoves, Leases
  <2>2. CASE status[on[g]] \notin {"CLOSED", "BUSY"}
    <3>1. IsLive(on[g])
      BY <1>0, <1>8, <2>2, FreeIsOpen DEF Take, Born, IsLive
    <3>2. \A v \in Callers : ~IsLeased(v, on[g])
      BY <1>0, <1>8 DEF Take, IsLeased, Leases, OneToken, Carries
    <3>3. \A d \in Conns : ~IsLeased(g, d)
      BY <1>0, <1>8 DEF Take, IsLeased, Leases
    <3>4. \A h \in Callers, d \in Conns :
            IsLeased(h, d)' <=> IsLeased(h, d) \/ (h = g /\ d = on[g])
      BY <1>0, <1>8, <2>2, <3>1 DEF Take, IsLive, IsLeased, Leases
    <3>5. \A d \in Conns : IsLive(d)' <=> IsLive(d)
      BY <1>0, <1>8, <2>2, <3>1 DEF Take, IsLive
    <3> QED BY <1>0, <1>8, <3>1, <3>2, <3>3, <3>4, <3>5, LeaseStep DEF Take
  <2> QED BY <2>1, <2>2
<1> QED BY <1>1, <1>2, <1>3, <1>4, <1>5, <1>6, <1>7, <1>8, <1>9 DEF Calling, CallerStep

-----------------------------------------------------------------------------
(* What is leased is BUSY, unless it was closed; and who removes a         *)
(* connection after its use has closed it.                                 *)
Uses ==
  \A g \in Callers :
    /\ Leases(g) => status[on[g]] \in {"BUSY", "CLOSED"}
    /\ pc[g] = "remove" => ws[on[g]] = "closed"

UseInv == Uses /\ NoLostConnection

(* The three places where NoLostConnection finds a connection.             *)
Queued(c) == \E i \in DOMAIN idle : idle[i] = c
Carried(c) == \E g \in Goroutines : Carries(g) /\ on[g] = c
Used(c) == \E g \in Callers : Leases(g) /\ on[g] = c

(* What it takes to lose no connection in a step.                          *)
LEMMA LossFrame ==
  ASSUME NoLostConnection,
         \A c \in Conns : ws'[c] # "closed" =>
           /\ ws[c] # "closed"
           /\ status'[c] = "IDLE" => status[c] = "IDLE" \/ Carried(c)'
           /\ status'[c] = "BUSY" => status[c] = "BUSY" \/ Used(c)'
           /\ status'[c] = "IDLE" /\ (Queued(c) \/ Carried(c)) => Queued(c)' \/ Carried(c)'
           /\ status'[c] = "BUSY" /\ Used(c) => Used(c)'
  PROVE  NoLostConnection'
BY DEF NoLostConnection, Queued, Carried, Used

(* Nobody gets rid of a connection that is not closed.                     *)
LEMMA KeepFrame ==
  ASSUME NoLostConnection, idle' = idle,
         \A c \in Conns : ws'[c] # "closed" =>
           ws[c] # "closed" /\ (status'[c] = status[c] \/ status'[c] = "CLOSED"),
         \A g \in Goroutines : Carries(g) /\ status[on[g]] = "IDLE" /\ ws'[on[g]] # "closed" =>
           Carries(g)' /\ on'[g] = on[g],
         \A g \in Callers : Leases(g) /\ ws'[on[g]] # "closed" => Leases(g)' /\ on'[g] = on[g]
  PROVE  NoLostConnection'
<1>1. \A c \in Conns : Queued(c) => Queued(c)'
  BY DEF Queued
<1>2. \A c \in Conns : Carried(c) /\ status[c] = "IDLE" /\ ws'[c] # "closed" => Carried(c)'
  BY DEF Carried
<1>3. \A c \in Conns : Used(c) /\ ws'[c] # "closed" => Used(c)'
  BY DEF Used
<1> QED BY <1>1, <1>2, <1>3, LossFrame

(* A send on the channel.                                                  *)
LEMMA Offered ==
  ASSUME idle \in Seq(Conns), NEW c \in Conns, idle' = Append(idle, c)
  PROVE  \A d \in Conns : Queued(d) \/ d = c => Queued(d)'
<1>1. \A i \in DOMAIN idle : i \in DOMAIN idle' /\ idle'[i] = idle[i]
  OBVIOUS
<1>2. Len(idle) + 1 \in DOMAIN idle' /\ idle'[Len(idle) + 1] = c
  OBVIOUS
<1> QED BY <1>1, <1>2 DEF Queued

(* A receive from it.                                                      *)
LEMMA Popped ==
  ASSUME idle \in Seq(Conns), idle # <<>>, idle' = Tail(idle)
  PROVE  \A d \in Conns : Queued(d) => Queued(d)' \/ d = Head(idle)
<1> SUFFICES ASSUME NEW i \in DOMAIN idle, idle[i] # Head(idle)
             PROVE  \E j \in DOMAIN idle' : idle'[j] = idle[i]
  BY DEF Queued
<1>1. i - 1 \in DOMAIN idle' /\ idle'[i - 1] = idle[i]
  OBVIOUS
<1> QED BY <1>1

(* Release, by a reader or a caller.                                       *)
LEMMA UseRelease ==
  ASSUME LeaseInv, UseInv, NEW g \in Conns \cup Callers, Release(g)
  PROVE  UseInv'
<1>0. on[g] \in Conns /\ g \in Goroutines /\ Carries(g)
  BY CallerHas DEF LeaseInv, ConnTypes, LocalTypes, Goroutines, Release, Carries
<1> USE DEF LeaseInv, ConnTypes, SharedTypes, LocalTypes, Goto, Goroutines, Release
<1>1. CASE status[on[g]] = "CLOSED"
  <2>1. ws[on[g]] = "closed"
    BY <1>0, <1>1 DEF CloseInv, Follows
  <2>2. NoLostConnection'
    BY <1>0, <1>1, <2>1, KeepFrame DEF Return, UseInv, Carries, Leases
  <2>3. Uses'
    BY <1>0, <1>1 DEF Return, UseInv, Uses, Leases
  <2> QED BY <2>2, <2>3 DEF UseInv
<1>2. CASE status[on[g]] # "CLOSED"
  <2>1. \A h \in Goroutines : Carries(h) => Carries(h)' /\ on'[h] = on[h]
    BY <1>0, <1>2 DEF Carries
  <2>2. \A h \in Callers : h # g /\ Leases(h) => Leases(h)' /\ on[h] # on[g] /\ on[h] \in Conns
    BY <1>0, <1>2 DEF Leases, OneToken, Carries
  <2>3. \A h \in Callers : Leases(h)' => h # g /\ Leases(h)
    BY <1>0, <1>2 DEF Leases
  <2>4. \A c \in Conns : Queued(c) => Queued(c)'
    BY DEF Queued
  <2>5. \A c \in Conns : Carried(c) \/ c = on[g] => Carried(c)'
    BY <1>0, <2>1 DEF Carried
  <2>6. \A c \in Conns : Used(c) /\ c # on[g] => Used(c)'
    BY <1>2, <2>2 DEF Used
  <2>7. NoLostConnection'
    BY <1>0, <1>2, <2>4, <2>5, <2>6, LossFrame DEF UseInv
  <2>8. Uses'
    BY <1>0, <1>2, <2>2, <2>3 DEF UseInv, Uses
  <2> QED BY <2>7, <2>8 DEF UseInv
<1> QED BY <1>1, <1>2

(* Offer moves a connection from who carries it to the channel.            *)
LEMMA UseOffer ==
  ASSUME LeaseInv, UseInv, NEW g \in Conns \cup Callers, Offer(g)
  PROVE  UseInv'
<1>0. /\ on[g] \in Conns /\ g \in Goroutines /\ idle \in Seq(Conns)
      /\ idle' = Append(idle, on[g]) /\ status' = status /\ ws' = ws
  BY Works DEF LeaseInv, ConnTypes, SharedTypes, Goroutines, Offer
<1> USE DEF LeaseInv, ConnTypes, LocalTypes, Goto, Goroutines, Offer, Return
<1>1. \A c \in Conns : Queued(c) \/ c = on[g] => Queued(c)'
  BY <1>0, Offered
<1>2. \A h \in Goroutines : h # g /\ Carries(h) => Carries(h)' /\ on'[h] = on[h]
  BY <1>0 DEF Carries
<1>3. \A h \in Callers : Leases(h) => Leases(h)' /\ on'[h] = on[h]
  BY <1>0 DEF Leases
<1>4. \A c \in Conns : Carried(c) => Carried(c)' \/ c = on[g]
  BY <1>2 DEF Carried
<1>5. \A c \in Conns : Used(c) => Used(c)'
  BY <1>3 DEF Used
<1>6. NoLostConnection'
  BY <1>0, <1>1, <1>4, <1>5, LossFrame DEF UseInv
<1>7. Uses'
  BY <1>0 DEF UseInv, Uses, Leases
<1> QED BY <1>6, <1>7 DEF UseInv

(* A step that keeps every connection where it is, closed ones apart.      *)
LEMMA UseFrame ==
  ASSUME LeaseInv, UseInv, idle' = idle,
         \A c \in Conns : /\ ws[c] = "closed" => ws'[c] = "closed"
                          /\ status'[c] = status[c] \/ (status'[c] = "CLOSED" /\ ws[c] = "closed"),
         \A g \in Goroutines : Carries(g) /\ status[on[g]] = "IDLE" /\ ws'[on[g]] # "closed" =>
           Carries(g)' /\ on'[g] = on[g],
         \A g \in Callers : Leases(g) /\ ws'[on[g]] # "closed" => Leases(g)' /\ on'[g] = on[g],
         \A g \in Callers : /\ Leases(g)' => Leases(g) /\ on'[g] = on[g]
                            /\ pc'[g] = "remove" => on'[g] = on[g] /\ on[g] \in Conns
                                                    /\ ws[on[g]] = "closed"
  PROVE  UseInv'
<1>1. \A g \in Callers : Leases(g) => on[g] \in Conns
  BY DEF LeaseInv, ConnTypes, LocalTypes, Goroutines, Leases
<1>2. Uses'
  BY <1>1 DEF UseInv, Uses
<1>3. NoLostConnection'
  BY KeepFrame DEF UseInv
<1> QED BY <1>2, <1>3 DEF UseInv

(* A step of a reader goroutine, or of the network, loses no connection.   *)
LEMMA UseReader ==
  ASSUME LeaseInv, UseInv, NEW c \in Conns, Reading(c)
  PROVE  UseInv'
<1>0. /\ on[c] = c /\ c \in Goroutines /\ c \notin Callers /\ pc[c] \in ReaderPc
      /\ \A g \in Callers : pc[g] = "remove" => on[g] \in Conns /\ ws[on[g]] = "closed"
  BY DEF LeaseInv, ConnTypes, LocalTypes, Goroutines, UseInv, Uses
<1> USE DEF ConnTypes, SharedTypes, LocalTypes, Goto, Goroutines, Carries, Leases
<1>1. CASE Loop(c) \/ ReadError(c) \/ Check(c) \/ AwaitNil(c) \/ Receive(c) \/ Remove(c)
  BY <1>0, <1>1, UseFrame DEF Loop, ReadError, Check, AwaitNil, Receive, ReaderGoto, Remove,
     LeaseInv
<1>2. CASE Close(c)
  BY <1>0, <1>2, UseFrame DEF Close, BeginClose, LeaseInv
<1>3. CASE Closed(c)
  <2>1. ws[c] = "closed"
    BY <1>0, <1>3 DEF Closed, LeaseInv, CloseInv, Holds, Closing
  <2> QED BY <1>0, <1>3, <2>1, UseFrame DEF Closed, EndClose, LeaseInv
<1>4. CASE Break(c)
  BY <1>0, <1>4, UseFrame DEF Break, LeaseInv
<1> QED BY <1>1, <1>2, <1>3, <1>4, UseRelease, UseOffer DEF Reading, ReaderStep

(* A step of a caller loses none either.                                   *)
LEMMA UseCaller ==
  ASSUME LeaseInv, UseInv, NEW g \in Callers, Calling(g)
  PROVE  UseInv'
<1>0. /\ g \in Goroutines /\ g \notin Conns /\ pc[g] \in CallerPc
      /\ on[g] \in Conns \cup {None}
      /\ pc[g] \notin {"ready", "lock", "pop"} => on[g] \in Conns
      /\ pc[g] \in {"ready", "pop"} => on[g] = None
      /\ \A h \in Callers : pc[h] = "remove" => on[h] \in Conns /\ ws[on[h]] = "closed"
  BY CallerHas DEF LeaseInv, ConnTypes, LocalTypes, UseInv, Uses
<1> USE DEF ConnTypes, SharedTypes, LocalTypes, Goto, Goroutines
<1>1. CASE WriteRequest(g) \/ WritePing(g) \/ PongReceived(g) \/ PongTimeout(g)
  BY <1>0, <1>1, UseFrame DEF WriteRequest, Fail, WritePing, PongReceived, PongTimeout, PingDone,
     Carries, Leases, LeaseInv
<1>2. CASE SendHeaderChannel(g) \/ SendBodyChannel(g)
  BY <1>0, <1>2, UseFrame DEF SendHeaderChannel, SendBodyChannel, SendChannel, Return, Carries,
     Leases, LeaseInv
<1>3. CASE ReadHeader(g) \/ ReadBody(g)
  <2>1. PICK label \in {"sendBody", "release", "close", "aborted"} :
          pc' = [pc EXCEPT ![g] = label, ![on[g]] = "loop"]
    BY <1>3 DEF ReadHeader, ReadBody
  <2>2. on[g] \in Conns /\ pc[g] \in {"header", "body"} /\ pc[on[g]] = "serve"
    BY <1>0, <1>3 DEF ReadHeader, ReadBody, LeaseInv, Meets
  <2>3. UNCHANGED <<status, ws, idle, on>>
    BY <1>3 DEF ReadHeader, ReadBody
  <2>4. \A h \in Goroutines : Carries(h) => Carries(h)'
    BY <1>0, <2>1, <2>2, <2>3 DEF Carries, LeaseInv
  <2>5. \A h \in Callers : Leases(h)' <=> Leases(h)
    BY <1>0, <2>1, <2>2, <2>3 DEF Leases, LeaseInv
  <2>6. \A h \in Callers : pc'[h] = "remove" => pc[h] = "remove"
    BY <1>0, <2>1, <2>2 DEF LeaseInv
  <2> QED BY <1>0, <2>3, <2>4, <2>5, <2>6, UseFrame
<1>4. CASE Close(g)
  <2>1. status[on[g]] = "CLOSED" => ws[on[g]] = "closed"
    BY <1>0, <1>4 DEF Close, LeaseInv, CloseInv, Follows
  <2> QED BY <1>0, <1>4, <2>1, UseFrame DEF Close, BeginClose, Carries, Leases, LeaseInv
<1>5. CASE Closed(g)
  <2>1. ws[on[g]] = "closed"
    BY <1>0, <1>5 DEF Closed, LeaseInv, CloseInv, Holds, Closing
  <2> QED BY <1>0, <1>5, <2>1, UseFrame DEF Closed, EndClose, Carries, Leases, LeaseInv
<1>6. CASE Inspect(g) \/ Remove(g) \/ PopTimeout(g)
  BY <1>0, <1>6, UseFrame DEF Inspect, Remove, Return, PopTimeout, Carries, Leases, LeaseInv
<1>7. CASE Pop(g)
  <2>0. on[g] = None /\ Head(idle) \in Conns
    BY <1>0, <1>7 DEF Pop, LeaseInv
  <2>1. on'[g] = Head(idle) /\ Carries(g)' /\ idle' = Tail(idle) /\ status' = status /\ ws' = ws
    BY <1>0, <1>7, <2>0 DEF Pop, Carries, LeaseInv
  <2>2. \A c \in Conns : Queued(c) => Queued(c)' \/ Carried(c)'
    BY <1>0, <1>7, <2>1, Popped DEF Pop, Carried, LeaseInv
  <2>3. \A c \in Conns : Carried(c) => Carried(c)'
    BY <1>0, <1>7, <2>0 DEF Pop, Carries, Carried, LeaseInv
  <2>4. \A c \in Conns : Used(c) => Used(c)'
    BY <1>0, <1>7 DEF Pop, Leases, Used, LeaseInv
  <2>5. NoLostConnection'
    BY <2>1, <2>2, <2>3, <2>4, LossFrame DEF UseInv
  <2>6. Uses'
    BY <1>0, <1>7 DEF Pop, Leases, Uses, UseInv, LeaseInv
  <2> QED BY <2>5, <2>6 DEF UseInv
<1>8. CASE Take(g)
  <2>1. CASE status[on[g]] \in {"CLOSED", "BUSY"}
    <3>1. \/ ws[on[g]] = "closed"
          \/ status[on[g]] = "BUSY" /\ \E h \in Callers : h # g /\ Leases(h) /\ on[h] = on[g]
      BY <1>0, <1>8, <2>1 DEF Take, LeaseInv, CloseInv, Follows, UseInv, NoLostConnection, Leases
    <3>2. ws[on[g]] = "closed"
      BY <1>0, <1>8, <3>1 DEF Take, LeaseInv, OneToken, Carries, Leases
    <3> QED BY <1>0, <1>8, <2>1, <3>2, UseFrame DEF Take, Return, Carries, Leases, LeaseInv
  <2>2. CASE status[on[g]] \notin {"CLOSED", "BUSY"}
    <3>0. /\ on[g] \in Conns /\ connLock[on[g]] = None
          /\ status' = [status EXCEPT ![on[g]] = "BUSY"]
          /\ UNCHANGED <<ws, idle, on>> /\ pc[g] = "take"
          /\ \E label \in {"write", "ping"} : pc' = [pc EXCEPT ![g] = label]
      BY <1>0, <1>8, <2>2 DEF Take
    <3>1. \A h \in Goroutines : Carries(h) => Carries(h)'
      BY <1>0, <3>0 DEF Carries, LeaseInv
    <3>2. \A h \in Callers : Leases(h)' <=> Leases(h) \/ h = g
      BY <1>0, <3>0 DEF Leases, LeaseInv
    <3>3. \A c \in Conns : /\ Queued(c) => Queued(c)'
                           /\ Carried(c) => Carried(c)'
                           /\ Used(c) \/ c = on[g] => Used(c)'
      BY <3>0, <3>1, <3>2 DEF Queued, Carried, Used
    <3>4. NoLostConnection'
      BY <3>0, <3>3, LossFrame DEF UseInv, LeaseInv
    <3>5. \A h \in Callers : Leases(h) => on[h] \in Conns
      BY DEF Leases, LeaseInv
    <3>6. Uses'
      BY <1>0, <3>0, <3>2, <3>5 DEF UseInv, Uses, LeaseInv
    <3> QED BY <3>4, <3>6 DEF UseInv
  <2> QED BY <2>1, <2>2
<1> QED BY <1>1, <1>2, <1>3, <1>4, <1>5, <1>6, <1>7, <1>8, UseRelease, UseOffer
        DEF Calling, CallerStep

-----------------------------------------------------------------------------
(* All of it together, step by step.                                       *)
ConnInv == LeaseInv /\ UseInv

Kept == ConnInv' /\ Final /\ Promised

(* A step of a reader goroutine, or of the network.                        *)
LEMMA ReaderKeeps ==
  ASSUME ConnInv, NEW c \in Conns, Reading(c)
  PROVE  Kept
<1>1. ConnTypes /\ OneToken /\ Meets /\ CloseInv /\ Born /\ LeaseInv /\ UseInv
  BY DEF ConnInv, LeaseInv
<1>2. ConnTypes' /\ OneToken' /\ Meets' /\ CloseInv' /\ Final
  BY <1>1, ReaderTypes, TokenReader, MeetReader, CloseReader
<1>3. Born' /\ Promised /\ UseInv'
  BY <1>1, BornReader, LeaseReader, UseReader
<1> QED BY <1>2, <1>3 DEF Kept, ConnInv, LeaseInv

(* A step of a caller.                                                     *)
LEMMA CallerKeeps ==
  ASSUME ConnInv, NEW g \in Callers, Calling(g)
  PROVE  Kept
<1>1. ConnTypes /\ OneToken /\ Meets /\ CloseInv /\ Born /\ LeaseInv /\ UseInv
  BY DEF ConnInv, LeaseInv
<1>2. ConnTypes' /\ OneToken' /\ Meets' /\ CloseInv' /\ Final
  BY <1>1, CallerTypes, TokenCaller, MeetCaller, CloseCaller
<1>3. Born' /\ Promised /\ UseInv'
  BY <1>1, BornCaller, LeaseCaller, UseCaller
<1> QED BY <1>2, <1>3 DEF Kept, ConnInv, LeaseInv

(* A step that does not touch the connections: no goroutine moves, or a    *)
(* caller that has none, or a closer that is not closing one.              *)
LEMMA QuietKeeps ==
  ASSUME ConnInv, UNCHANGED <<status, ws, connLock, idle, on>>,
         writeConnections' \subseteq writeConnections, outcome' \in [Callers -> Outcomes],
         \/ pc' = pc
         \/ \E g \in Callers : /\ on[g] = None /\ pc[g] \in {"ready", "lock"}
                               /\ \E l \in {"lock", "pop"} : pc' = [pc EXCEPT ![g] = l]
         \/ \E g \in Closers : /\ ~Closing(g) /\ ~Closing(g)' /\ pc'[g] # "offer"
                               /\ \E l \in Points : pc' = [pc EXCEPT ![g] = l]
  PROVE  Kept
<1> USE DEF ConnInv, LeaseInv, ConnTypes, SharedTypes, LocalTypes
<1>0. \A h \in Goroutines :
        /\ Closing(h)' <=> Closing(h)
        /\ pc'[h] = "offer" <=> pc[h] = "offer"
        /\ Carries(h)' <=> Carries(h)
        /\ h \in Callers => (Leases(h)' <=> Leases(h)) /\ (pc'[h] = "remove" <=> pc[h] = "remove")
        /\ h \in Conns => pc'[h] = pc[h]
  BY DEF Closing, Carries, Leases, Goroutines
<1>1. ConnTypes'
  BY <1>0 DEF Points, CallerPc, Closing, Goroutines
<1>2. OneToken'
  BY <1>0, TokenFrame
<1>3. Meets'
  BY <1>0, MeetFrame DEF Goroutines
<1>4. CloseInv' /\ Final
  BY <1>0, Works, OtherStep DEF NoneLearned, Goroutines
<1>5. Born'
  BY <1>0, BornFrame DEF Goroutines
<1>6. UseInv'
  BY <1>0, UseFrame DEF UseInv, Uses, Goroutines
<1>7. Promised
  BY <1>0, MoveStep DEF SameMoves, Goroutines
<1> QED BY <1>1, <1>2, <1>3, <1>4, <1>5, <1>6, <1>7 DEF Kept

(* AddConnection of either pool: the reader starts and will offer the      *)
(* connection.                                                             *)
LEMMA JoinKeeps ==
  ASSUME ConnInv, NEW c \in Conns, pc[c] = "unborn",
         NEW s \in {"CONNECTING", "IDLE"}, status' = [status EXCEPT ![c] = s],
         writeConnections' = writeConnections \cup {c}, pc' = [pc EXCEPT ![c] = "release"],
         UNCHANGED <<ws, connLock, idle, on, outcome>>
  PROVE  Kept
<1> USE DEF ConnInv, LeaseInv, ConnTypes, SharedTypes, LocalTypes
<1>0. /\ c \in Goroutines /\ on[c] = c /\ c \notin Callers /\ c \notin Closers /\ Carries(c)
      /\ status[c] = "ABSENT"
      /\ \A h \in Goroutines : /\ Closing(h)' <=> Closing(h)
                               /\ pc'[h] = "offer" => pc[h] = "offer"
                               /\ Carries(h)' <=> Carries(h)
                               /\ h # c => pc'[h] = pc[h]
      /\ \A g \in Callers : on[g] # c
  BY DEF Closing, Carries, Goroutines, Callers, CloseInv, Unborn, OneToken
<1>1. ConnTypes'
  BY <1>0 DEF Points, ReaderPc, Statuses, Closing, Goroutines
<1>2. OneToken'
  BY <1>0, TokenFrame
<1>3. Meets'
  BY <1>0, MeetFrame DEF Goroutines
<1>4. CloseInv' /\ Final
  BY <1>0, Works, OtherStep DEF NoneLearned, Goroutines
<1>5. Born'
  BY <1>0, BornFrame
<1>6. UseInv'
  <2>1. NoLostConnection'
    BY <1>0, LossFrame DEF UseInv, Queued, Carried, Used, Leases, Goroutines
  <2>2. Uses'
    BY <1>0 DEF UseInv, Uses, Leases, Goroutines
  <2> QED BY <2>1, <2>2 DEF UseInv
<1>7. Promised
  <2>1. ws[c] # "closed"
    <3>1. \A g \in Goroutines : Closing(g) => on[g] # c
      BY <1>0, Registered, Works DEF CloseInv, Closing
    <3> QED BY <1>0, <3>1 DEF CloseInv, Follows
  <2> QED BY <1>0, <2>1, JoinStep DEF IsLive, IsLeased, Leases, Goroutines
<1> QED BY <1>1, <1>2, <1>3, <1>4, <1>5, <1>6, <1>7 DEF Kept

(* A closer sets about closing a connection ...                            *)
LEMMA BeginKeeps ==
  ASSUME ConnInv, NEW g \in Closers, NEW c \in Conns, ~Closing(g),
         connLock[c] = None, status[c] # "CLOSED", pc[c] # "unborn", BeginClose(g, c),
         NEW l \in {"closing", "cleanClosing", "shutdownClosing"},
         pc' = [pc EXCEPT ![g] = l], on' = [on EXCEPT ![g] = c],
         UNCHANGED <<idle, writeConnections, outcome>>
  PROVE  Kept
<1> USE DEF ConnInv, LeaseInv, ConnTypes, SharedTypes, LocalTypes
<1>0. /\ g \in Goroutines /\ g \notin Callers /\ g \notin Conns /\ Closing(g)' /\ pc[g] # "offer"
      /\ \A h \in Goroutines : h # g => pc'[h] = pc[h] /\ on'[h] = on[h]
      /\ \A h \in Goroutines : Carries(h)' <=> Carries(h)
      /\ ws' = [ws EXCEPT ![c] = "closed"] /\ status' = status
      /\ IsLive(c)
  BY FreeIsOpen DEF Closing, Carries, Goroutines, Callers, BeginClose, Born, IsLive
<1>1. ConnTypes'
  BY <1>0 DEF Points, BeginClose, ReaderPc, CallerPc, Closing, Goroutines
<1>2. OneToken'
  BY <1>0, TokenFrame DEF Carries
<1>3. Meets'
  BY <1>0, MeetFrame DEF Goroutines
<1>4. CloseInv' /\ Final
  BY <1>0, BeginStep DEF Others
<1>5. Born'
  BY <1>0, BornFrame DEF Goroutines
<1>6. UseInv'
  BY <1>0, UseFrame DEF UseInv, Uses, Leases, Carries, Goroutines
<1>7. Promised
  <2>1. \A h \in Callers : (Leases(h)' <=> Leases(h)) /\ on'[h] = on[h]
    BY <1>0 DEF Leases, Goroutines
  <2>2. \A h \in Callers, d \in Conns : IsLeased(h, d)' <=> IsLeased(h, d) /\ d # c
    BY <1>0, <2>1 DEF IsLeased
  <2> QED BY <1>0, <2>2, DieStep
<1> QED BY <1>1, <1>2, <1>3, <1>4, <1>5, <1>6, <1>7 DEF Kept

(* ... and ends.                                                           *)
LEMMA EndKeeps ==
  ASSUME ConnInv, NEW g \in Closers, Closing(g), EndClose(on[g]),
         NEW l \in Points \ {"offer", "unborn", "closing", "cleanClosing", "shutdownClosing"},
         pc' = [pc EXCEPT ![g] = l], on' = [on EXCEPT ![g] = None],
         writeConnections' \subseteq writeConnections,
         UNCHANGED <<idle, outcome>>
  PROVE  Kept
<1> USE DEF ConnInv, LeaseInv, ConnTypes, SharedTypes, LocalTypes
<1>0. /\ g \in Goroutines /\ g \notin Callers /\ g \notin Conns /\ ~Closing(g)'
      /\ \A h \in Goroutines : h # g => pc'[h] = pc[h] /\ on'[h] = on[h]
      /\ \A h \in Goroutines : Carries(h)' <=> Carries(h)
      /\ ws' = ws /\ status' = [status EXCEPT ![on[g]] = "CLOSED"]
      /\ on[g] \in Conns /\ ws[on[g]] = "closed" /\ None \notin Conns
  BY DEF Closing, Carries, Goroutines, Callers, EndClose, CloseInv, Holds
<1>1. ConnTypes'
  BY <1>0 DEF EndClose, Statuses, Closing, Goroutines
<1>2. OneToken'
  BY <1>0, TokenFrame DEF Carries
<1>3. Meets'
  BY <1>0, MeetFrame DEF Goroutines
<1>4. CloseInv' /\ Final
  BY <1>0, EndStep DEF Others
<1>5. Born'
  BY <1>0, BornFrame DEF Goroutines
<1>6. UseInv'
  BY <1>0, UseFrame DEF UseInv, Uses, Leases, Carries, Goroutines
<1>7. Promised
  BY <1>0, SameStep DEF IsLive, IsLeased, Leases, Goroutines
<1> QED BY <1>1, <1>2, <1>3, <1>4, <1>5, <1>6, <1>7 DEF Kept

-----------------------------------------------------------------------------
(* What the invariant is for.                                              *)
LEMMA ConnSafety ==
  ASSUME ConnInv
  PROVE  OneToken /\ ExclusiveLease /\ CloseOnce /\ NoLostConnection
<1>1. OneToken /\ ExclusiveLease
  BY TokenExclusive DEF ConnInv, LeaseInv
<1>2. CloseOnce
  BY DEF ConnInv, LeaseInv, CloseInv, Holds, Follows, CloseOnce
<1> QED BY <1>1, <1>2 DEF ConnInv, UseInv

(* It begins with no connection at all.                                    *)
LEMMA ConnBegins ==
  ASSUME ConnInit
  PROVE  ConnInv /\ Abstract!Init
<1>0. \A g \in Goroutines : /\ pc[g] \in {"unborn", "ready"} /\ pc[g] = "unborn" <=> g \in Conns
                            /\ on[g] = IF g \in Conns THEN g ELSE None
  BY DEF ConnInit
<1>1. ConnTypes
  <2>1. SharedTypes
    <3>1. idle \in Seq(Conns) /\ Len(idle) <= PoolMaxSize
      BY DEF ConnInit
    <3>2. connLock \in [Conns -> Goroutines \cup {None}]
      BY DEF ConnInit
    <3> QED BY <3>1, <3>2 DEF ConnInit, SharedTypes, Statuses
  <2>2. LocalTypes
    BY <1>0 DEF ConnInit, LocalTypes, Goroutines, Points, ReaderPc, CallerPc, Outcomes, Closing
  <2> QED BY <2>1, <2>2 DEF ConnTypes
<1>2. OneToken /\ Meets
  BY <1>0 DEF ConnInit, OneToken, Meets, Carries, Goroutines
<1>3. CloseInv /\ Born
  BY <1>0 DEF ConnInit, CloseInv, Holds, Follows, Unborn, Closing, Born, Goroutines
<1>4. UseInv
  BY <1>0 DEF ConnInit, UseInv, Uses, NoLostConnection, Leases, Goroutines
<1>5. Abstract!Init
  BY <1>0 DEF ConnInit, Abstract!Init, Leases, Goroutines
<1> QED BY <1>1, <1>2, <1>3, <1>4, <1>5 DEF ConnInv, LeaseInv

(* Nobody else changes Status while a closer closes.                       *)
LEMMA LockedStays ==
  ASSUME ConnInv, NEW h \in Closers, Closing(h), SharedStep
  PROVE  status'[on[h]] = status[on[h]]
<1>0. /\ h \in Goroutines /\ h \notin Conns /\ h \notin Callers /\ on[h] \in Conns
      /\ connLock[on[h]] = h /\ h # None
      /\ \A g \in Conns \cup Callers : pc[g] = "closing" => connLock[on[g]] = g /\ on[g] \in Conns
  BY Works DEF ConnInv, LeaseInv, CloseInv, Holds, Goroutines, Closing
<1>1. /\ status \in [Conns -> Statuses] /\ \A c \in Conns : on[c] = c
      /\ \A g \in Callers : g \notin Conns
  BY CallerHas DEF ConnInv, LeaseInv, ConnTypes, SharedTypes, LocalTypes
<1>2. ASSUME NEW c \in Conns, Reading(c) PROVE status'[on[h]] = status[on[h]]
  <2>1. CASE Release(c) \/ Offer(c) \/ Loop(c) \/ ReadError(c) \/ Check(c) \/ AwaitNil(c)
    BY <1>0, <1>1, <2>1 DEF Release, Offer, Loop, ReadError, Check, AwaitNil, ReaderGoto
  <2>2. CASE Remove(c) \/ Close(c) \/ Closed(c) \/ Receive(c) \/ Break(c)
    BY <1>0, <1>1, <2>2 DEF Remove, Close, BeginClose, Closed, EndClose, Receive, Break, ReaderGoto
  <2> QED BY <1>2, <2>1, <2>2 DEF Reading, ReaderStep
<1>3. ASSUME NEW g \in Callers, Calling(g) PROVE status'[on[h]] = status[on[h]]
  <2>1. CASE Release(g) \/ Offer(g) \/ Pop(g) \/ Inspect(g) \/ PopTimeout(g) \/ Take(g)
    BY <1>0, <1>1, <2>1 DEF Release, Offer, Pop, Inspect, PopTimeout, Take
  <2>2. CASE SendHeaderChannel(g) \/ SendBodyChannel(g) \/ ReadHeader(g) \/ ReadBody(g)
             \/ WriteRequest(g) \/ WritePing(g) \/ PongReceived(g) \/ PongTimeout(g)
    BY <2>2 DEF SendHeaderChannel, SendBodyChannel, SendChannel, ReadHeader, ReadBody,
       WriteRequest, WritePing, PongReceived, PongTimeout
  <2>3. CASE Close(g) \/ Closed(g) \/ Remove(g)
    BY <1>0, <1>1, <2>3 DEF Close, BeginClose, Closed, EndClose, Remove
  <2> QED BY <1>3, <2>1, <2>2, <2>3 DEF Calling, CallerStep
<1> QED BY <1>2, <1>3 DEF SharedStep
=============================================================================
