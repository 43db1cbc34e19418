---------------------------- MODULE WspLoginProofs ----------------------------
(* That a login is alone, for any number of goroutines that ask for one.   *)
EXTENDS WspLogin, TLAPS

USE LoginAssumption DEF LoginAssumption

(* What makes SingleFlight inductive: only a goroutine that set            *)
(* refreshInProgress is between the two critical sections, and the answer  *)
(* it has not stored yet is that to the last login that was accepted.      *)
Flag ==
  \A g \in Goroutines : Refreshing(g) => refreshInProgress

LastLogin ==
  /\ stored <= issued
  /\ \A g \in Goroutines : pc[g] \in {"mark", "store"} => answer[g].login = issued

IInv == TypeOK /\ SingleFlight /\ Flag /\ NoLoginAfterKill /\ LastLogin

(* Where the goroutines are after a call returned.                         *)
LEMMA ReturnAt ==
  ASSUME NEW g \in Goroutines, NEW failed, pc \in [Goroutines -> Pc], Return(g, failed)
  PROVE  /\ pc' \in [Goroutines -> Pc]
         /\ pc'[g] \in {"ready", "exit"}
         /\ g # Main => pc'[g] = "ready"
         /\ \A h \in Goroutines : h # g => pc'[h] = "ready" \/ pc'[h] = pc[h]
<1>1. CASE g # Main
  BY <1>1 DEF Return, Pc
<1>2. CASE g = Main /\ failed
  BY <1>2 DEF Return, Pc
<1>3. CASE g = Main /\ ~failed
  BY <1>3 DEF Return, Pc
<1> QED BY <1>1, <1>2, <1>3

(* A goroutine goes on to the next point of its call.                      *)
LEMMA GotoAt ==
  ASSUME NEW g \in Goroutines, NEW label \in Pc, pc \in [Goroutines -> Pc],
         Goto(g, label)
  PROVE  /\ pc' \in [Goroutines -> Pc]
         /\ pc'[g] = label
         /\ \A h \in Goroutines : h # g => pc'[h] = pc[h]
BY DEF Goto

(* Nobody has logged in at first.                                          *)
LEMMA InvInit == Init => IInv
<1> SUFFICES ASSUME Init PROVE IInv
  OBVIOUS
<1>1. \A g \in Goroutines : pc[g] \in {"begin", "off"}
  BY DEF Init
<1>2. TypeOK
  <2>1. [login |-> 0, token |-> 0, killed |-> FALSE] \in Answers
    BY DEF Answers
  <2>2. answer \in [Goroutines -> Answers]
    BY <2>1 DEF Init
  <2>3. pc \in [Goroutines -> Pc]
    BY DEF Init, Pc
  <2>4. authToken \in 0..MaxTokens /\ stored \in 0..MaxTokens /\ issued \in 0..MaxTokens
    BY DEF Init
  <2>5. refreshInProgress \in BOOLEAN /\ killed \in BOOLEAN
    BY DEF Init
  <2> QED BY <1>1, <2>2, <2>3, <2>4, <2>5 DEF TypeOK, Goroutines
<1>3. SingleFlight /\ Flag /\ NoLoginAfterKill /\ LastLogin
  <2>1. \A g \in Goroutines : ~Refreshing(g)
    BY <1>1 DEF Refreshing
  <2> QED BY <1>1, <2>1 DEF Init, SingleFlight, Flag, NoLoginAfterKill, LastLogin
<1> QED BY <1>2, <1>3 DEF IInv

(* Every step keeps the invariant.                                         *)
LEMMA InvStep == IInv /\ [Next]_vars => IInv'
<1> SUFFICES ASSUME IInv, [Next]_vars PROVE IInv'
  OBVIOUS
<1> USE DEF IInv
<1>1. ASSUME NEW g \in Goroutines, Call(g) PROVE IInv'
  <2>1. /\ pc' \in [Goroutines -> Pc] /\ pc'[g] = "begin"
        /\ \A h \in Goroutines : h # g => pc'[h] = pc[h]
    BY <1>1, GotoAt DEF Call, TypeOK, Pc
  <2>2. TypeOK'
    BY <1>1, <2>1 DEF Call, TypeOK, Goroutines
  <2>3. SingleFlight' /\ Flag'
    BY <1>1, <2>1 DEF Call, SingleFlight, Flag, Refreshing
  <2>4. NoLoginAfterKill' /\ LastLogin'
    BY <1>1, <2>1 DEF Call, NoLoginAfterKill, LastLogin
  <2> QED BY <2>2, <2>3, <2>4
<1>2. ASSUME NEW g \in Goroutines, Begin(g) PROVE IInv'
  <2>1. CASE refreshInProgress
    <3>1. /\ pc' \in [Goroutines -> Pc] /\ pc'[g] \in {"ready", "exit"}
          /\ g # Main => pc'[g] = "ready"
          /\ \A h \in Goroutines : h # g => pc'[h] = "ready" \/ pc'[h] = pc[h]
      BY <1>2, <2>1, ReturnAt DEF Begin, TypeOK
    <3>2. TypeOK'
      BY <1>2, <2>1, <3>1 DEF Begin, TypeOK, Goroutines
    <3>3. SingleFlight' /\ Flag'
      BY <1>2, <2>1, <3>1 DEF Begin, SingleFlight, Flag, Refreshing
    <3>4. NoLoginAfterKill' /\ LastLogin'
      BY <1>2, <2>1, <3>1 DEF Begin, NoLoginAfterKill, LastLogin
    <3> QED BY <3>2, <3>3, <3>4
  <2>2. CASE ~refreshInProgress
    <3>1. /\ pc' \in [Goroutines -> Pc] /\ pc'[g] = "check"
          /\ \A h \in Goroutines : h # g => pc'[h] = pc[h]
      BY <1>2, <2>2, GotoAt DEF Begin, TypeOK, Pc
    <3>2. TypeOK'
      BY <1>2, <2>2, <3>1 DEF Begin, TypeOK, Goroutines
    <3>3. SingleFlight' /\ Flag'
      BY <1>2, <2>2, <3>1 DEF Begin, SingleFlight, Flag, Refreshing
    <3>4. NoLoginAfterKill' /\ LastLogin'
      BY <1>2, <2>2, <3>1 DEF Begin, NoLoginAfterKill, LastLogin
    <3> QED BY <3>2, <3>3, <3>4
  <2> QED BY <2>1, <2>2
<1>3. ASSUME NEW g \in Goroutines, CheckKilled(g) PROVE IInv'
  <2>1. CASE killed
    <3>1. /\ pc' \in [Goroutines -> Pc] /\ pc'[g] \in {"ready", "exit"}
          /\ g # Main => pc'[g] = "ready"
          /\ \A h \in Goroutines : h # g => pc'[h] = "ready" \/ pc'[h] = pc[h]
      BY <1>3, <2>1, ReturnAt DEF CheckKilled, TypeOK
    <3>2. TypeOK'
      BY <1>3, <2>1, <3>1 DEF CheckKilled, TypeOK, Goroutines
    <3>3. SingleFlight' /\ Flag'
      BY <1>3, <2>1, <3>1 DEF CheckKilled, SingleFlight, Flag, Refreshing
    <3>4. NoLoginAfterKill' /\ LastLogin'
      BY <1>3, <2>1, <3>1 DEF CheckKilled, NoLoginAfterKill, LastLogin
    <3> QED BY <3>2, <3>3, <3>4
  <2>2. CASE ~killed
    <3>1. /\ pc' \in [Goroutines -> Pc] /\ pc'[g] = "api" /\ pc[g] = "check"
          /\ \A h \in Goroutines : h # g => pc'[h] = pc[h]
      BY <1>3, <2>2, GotoAt DEF CheckKilled, TypeOK, Pc
    <3>2. TypeOK'
      BY <1>3, <2>2, <3>1 DEF CheckKilled, TypeOK, Goroutines
    <3>3. SingleFlight' /\ Flag'
      BY <1>3, <2>2, <3>1 DEF CheckKilled, SingleFlight, Flag, Refreshing
    <3>4. NoLoginAfterKill' /\ LastLogin'
      BY <1>3, <2>2, <3>1 DEF CheckKilled, NoLoginAfterKill, LastLogin
    <3> QED BY <3>2, <3>3, <3>4
  <2> QED BY <2>1, <2>2
<1>4. ASSUME NEW g \in Goroutines, LoginFails(g) PROVE IInv'
  <2>1. /\ pc' \in [Goroutines -> Pc] /\ pc'[g] = "fail" /\ pc[g] = "api"
        /\ \A h \in Goroutines : h # g => pc'[h] = pc[h]
    BY <1>4, GotoAt DEF LoginFails, TypeOK, Pc
  <2>2. TypeOK'
    BY <1>4, <2>1 DEF LoginFails, TypeOK, Goroutines
  <2>3. SingleFlight' /\ Flag'
    BY <1>4, <2>1 DEF LoginFails, SingleFlight, Flag, Refreshing
  <2>4. NoLoginAfterKill' /\ LastLogin'
    BY <1>4, <2>1 DEF LoginFails, NoLoginAfterKill, LastLogin
  <2> QED BY <2>2, <2>3, <2>4
<1>5. ASSUME NEW g \in Goroutines, Login(g) PROVE IInv'
  <2>1. /\ pc' \in [Goroutines -> Pc] /\ pc'[g] = "mark" /\ pc[g] = "api"
        /\ \A h \in Goroutines : h # g => pc'[h] = pc[h]
    BY <1>5, GotoAt DEF Login, TypeOK, Pc
  <2>2. PICK k \in BOOLEAN, token \in {0, issued + 1} :
          answer' = [answer EXCEPT ![g] = [login |-> issued + 1, token |-> token, killed |-> k]]
    BY <1>5 DEF Login
  <2>3. TypeOK'
    <3>1. issued' = issued + 1 /\ issued' \in 0..MaxTokens
      BY <1>5 DEF Login, TypeOK
    <3>2. [login |-> issued + 1, token |-> token, killed |-> k] \in Answers
      BY <3>1 DEF Answers
    <3> QED BY <1>5, <2>1, <2>2, <3>1, <3>2 DEF Login, TypeOK, Goroutines
  <2>4. SingleFlight' /\ Flag'
    BY <1>5, <2>1 DEF Login, SingleFlight, Flag, Refreshing
  <2>5. NoLoginAfterKill'
    BY <1>5, <2>1 DEF Login, NoLoginAfterKill
  <2>6. \A h \in Goroutines : pc'[h] \in {"mark", "store"} => h = g
    BY <2>1 DEF SingleFlight, Refreshing
  <2>7. LastLogin'
    BY <1>5, <2>2, <2>6 DEF Login, LastLogin, TypeOK
  <2> QED BY <2>3, <2>4, <2>5, <2>7
<1>6. ASSUME NEW g \in Goroutines, MarkKilled(g) PROVE IInv'
  <2>1. /\ pc' \in [Goroutines -> Pc] /\ pc'[g] = "store" /\ pc[g] = "mark"
        /\ \A h \in Goroutines : h # g => pc'[h] = pc[h]
    BY <1>6, GotoAt DEF MarkKilled, TypeOK, Pc
  <2>2. TypeOK'
    BY <1>6, <2>1 DEF MarkKilled, TypeOK, Goroutines, Answers
  <2>3. SingleFlight' /\ Flag' /\ LastLogin'
    BY <1>6, <2>1 DEF MarkKilled, SingleFlight, Flag, Refreshing, LastLogin
  <2>4. \A h \in Goroutines : pc'[h] # "api"
    BY <2>1 DEF SingleFlight, Refreshing
  <2> QED BY <2>2, <2>3, <2>4 DEF NoLoginAfterKill
<1>7. ASSUME NEW g \in Goroutines, StoreToken(g) PROVE IInv'
  <2>1. /\ pc' \in [Goroutines -> Pc] /\ pc'[g] = "finish" /\ pc[g] = "store"
        /\ \A h \in Goroutines : h # g => pc'[h] = pc[h]
    BY <1>7, GotoAt DEF StoreToken, TypeOK, Pc
  <2>2. TypeOK'
    BY <1>7, <2>1 DEF StoreToken, TypeOK, Goroutines, Answers
  <2>3. SingleFlight' /\ Flag' /\ NoLoginAfterKill'
    BY <1>7, <2>1 DEF StoreToken, SingleFlight, Flag, Refreshing, NoLoginAfterKill
  <2>4. LastLogin'
    BY <1>7, <2>1 DEF StoreToken, LastLogin, TypeOK
  <2> QED BY <2>2, <2>3, <2>4
<1>8. ASSUME NEW g \in Goroutines, Finish(g) PROVE IInv'
  <2>1. /\ pc' \in [Goroutines -> Pc] /\ pc'[g] \in {"ready", "exit"}
        /\ g # Main => pc'[g] = "ready"
        /\ \A h \in Goroutines : h # g => pc'[h] = "ready" \/ pc'[h] = pc[h]
    BY <1>8, ReturnAt DEF Finish, TypeOK
  <2>2. TypeOK'
    BY <1>8, <2>1 DEF Finish, TypeOK, Goroutines
  <2>3. \A h \in Goroutines : ~Refreshing(h)'
    BY <1>8, <2>1 DEF Finish, SingleFlight, Refreshing
  <2>4. SingleFlight' /\ Flag'
    BY <2>3 DEF SingleFlight, Flag
  <2>5. NoLoginAfterKill' /\ LastLogin'
    BY <1>8, <2>1 DEF Finish, NoLoginAfterKill, LastLogin
  <2> QED BY <2>2, <2>4, <2>5
<1>9. CASE UNCHANGED vars
  BY <1>9 DEF vars, TypeOK, SingleFlight, Flag, NoLoginAfterKill, LastLogin, Refreshing
<1> QED BY <1>1, <1>2, <1>3, <1>4, <1>5, <1>6, <1>7, <1>8, <1>9 DEF Next, RefreshStep

(* The invariant holds in every reachable state.                           *)
THEOREM InvCorrect == Spec => []IInv
BY InvInit, InvStep, PTL DEF Spec

(* The types of the login's state.                                         *)
THEOREM LoginTypeCorrect == Spec => []TypeOK
BY InvCorrect, PTL DEF IInv

(* Two goroutines never log in at the same time.                           *)
THEOREM LoginAlone == Spec => []SingleFlight
BY InvCorrect, PTL DEF IInv

(* No login goes on once the client knows that its cluster is killed.      *)
THEOREM KilledNotAsked == Spec => []NoLoginAfterKill
BY InvCorrect, PTL DEF IInv

(* The token of a login never replaces that of a later one.                *)
THEOREM TokenOrder == Spec => TokenNeverGoesBack
<1>1. IInv /\ [Next]_vars => [stored' >= stored]_vars
  <2> SUFFICES ASSUME IInv, [Next]_vars PROVE [stored' >= stored]_vars
    OBVIOUS
  <2>1. ASSUME NEW g \in Goroutines, StoreToken(g) PROVE stored' >= stored
    BY <2>1 DEF IInv, StoreToken, LastLogin, TypeOK
  <2>2. ASSUME NEW g \in Goroutines,
               \/ Call(g) \/ Begin(g) \/ CheckKilled(g) \/ LoginFails(g)
               \/ Login(g) \/ MarkKilled(g) \/ Finish(g)
        PROVE  stored' >= stored
    <3>1. stored' = stored
      BY <2>2 DEF Call, Begin, CheckKilled, LoginFails, Login, MarkKilled, Finish
    <3> QED BY <3>1 DEF IInv, TypeOK
  <2>3. CASE Next
    BY <2>1, <2>2, <2>3 DEF Next, RefreshStep
  <2> QED BY <2>3
<1> QED BY <1>1, InvCorrect, PTL DEF Spec, TokenNeverGoesBack

-----------------------------------------------------------------------------
(* The first login.                                                        *)

(* Until main has a client nobody else logs in, and the login of main that *)
(* does not fail has stored its answer before it returns.  An answer that  *)
(* was accepted is stored, unless a goroutine is about to do so.           *)
FirstLogin ==
  /\ \A g \in Refreshers : pc[g] # "off" => stored # 0
  /\ pc[Main] = "begin" => ~refreshInProgress /\ \A g \in Refreshers : pc[g] = "off"
  /\ pc[Main] = "finish" => stored # 0
  /\ \A g \in Goroutines : pc[g] \in {"mark", "store"} => issued # 0
  /\ (\A g \in Goroutines : pc[g] \notin {"mark", "store"}) => stored = issued

(* Steps at which no call returns.                                         *)
LEMMA FirstGoto ==
  ASSUME IInv, FirstLogin, NEW g \in Goroutines,
         Call(g) \/ LoginFails(g) \/ Login(g) \/ MarkKilled(g) \/ StoreToken(g)
  PROVE  FirstLogin'
<1> USE DEF IInv, FirstLogin, Goroutines
<1>1. CASE Call(g)
  <2>1. /\ pc'[g] = "begin" /\ pc[g] = "ready" /\ g # Main
        /\ \A h \in Goroutines : h # g => pc'[h] = pc[h]
    BY <1>1, GotoAt DEF Call, TypeOK, Pc
  <2> QED BY <1>1, <2>1 DEF Call
<1>2. CASE LoginFails(g)
  <2>1. /\ pc'[g] = "fail" /\ pc[g] = "api"
        /\ \A h \in Goroutines : h # g => pc'[h] = pc[h]
    BY <1>2, GotoAt DEF LoginFails, TypeOK, Pc
  <2> QED BY <1>2, <2>1 DEF LoginFails
<1>3. CASE Login(g)
  <2>1. /\ pc'[g] = "mark" /\ pc[g] = "api"
        /\ \A h \in Goroutines : h # g => pc'[h] = pc[h]
    BY <1>3, GotoAt DEF Login, TypeOK, Pc
  <2>2. issued' # 0
    BY <1>3 DEF Login, TypeOK
  <2> QED BY <1>3, <2>1, <2>2 DEF Login
<1>4. CASE MarkKilled(g)
  <2>1. /\ pc'[g] = "store" /\ pc[g] = "mark"
        /\ \A h \in Goroutines : h # g => pc'[h] = pc[h]
    BY <1>4, GotoAt DEF MarkKilled, TypeOK, Pc
  <2> QED BY <1>4, <2>1 DEF MarkKilled
<1>5. CASE StoreToken(g)
  <2>1. /\ pc'[g] = "finish" /\ pc[g] = "store"
        /\ \A h \in Goroutines : h # g => pc'[h] = pc[h]
    BY <1>5, GotoAt DEF StoreToken, TypeOK, Pc
  <2>2. stored' # 0 /\ stored' = issued'
    BY <1>5, <2>1 DEF StoreToken, LastLogin
  <2> QED BY <1>5, <2>1, <2>2 DEF StoreToken
<1> QED BY <1>1, <1>2, <1>3, <1>4, <1>5

(* A call returns: that of main lets requests come only after a login.     *)
LEMMA FirstReturn ==
  ASSUME IInv, FirstLogin, NEW g \in Goroutines, NEW failed, Return(g, failed),
         pc[g] \notin {"off", "mark", "store"}, g = Main => failed \/ stored # 0,
         UNCHANGED <<stored, issued>>,
         pc[Main] = "begin" => g = Main,
         g = Main => \A h \in Goroutines : pc[h] \notin {"mark", "store"}
  PROVE  FirstLogin'
<1>1. /\ pc'[g] \in {"ready", "exit"}
      /\ g # Main => pc'[g] = "ready"
      /\ \A h \in Goroutines : h # g => pc'[h] = "ready" \/ pc'[h] = pc[h]
  BY ReturnAt DEF IInv, TypeOK
<1>2. g # Main \/ failed => \A h \in Goroutines : h # g => pc'[h] = pc[h]
  BY DEF Return, IInv, TypeOK
<1>3. pc'[Main] # "begin"
  BY <1>1, <1>2 DEF Goroutines
<1>4. (\A h \in Goroutines : pc'[h] \notin {"mark", "store"}) => stored' = issued'
  BY <1>2 DEF FirstLogin, Goroutines
<1> QED BY <1>1, <1>2, <1>3, <1>4 DEF FirstLogin, Goroutines

(* Every step keeps FirstLogin.                                            *)
LEMMA FirstStep ==
  ASSUME IInv, FirstLogin, [Next]_vars
  PROVE  FirstLogin'
<1>1. ASSUME NEW g \in Goroutines, Begin(g) PROVE FirstLogin'
  <2>1. CASE refreshInProgress
    <3>1. g # Main /\ pc[Main] # "begin"
      BY <1>1, <2>1 DEF Begin, FirstLogin
    <3> QED BY <1>1, <2>1, <3>1, FirstReturn DEF Begin
  <2>2. CASE ~refreshInProgress
    <3>1. /\ pc'[g] = "check" /\ pc[g] = "begin"
          /\ \A h \in Goroutines : h # g => pc'[h] = pc[h]
      BY <1>1, <2>2, GotoAt DEF Begin, IInv, TypeOK, Pc
    <3> QED BY <1>1, <3>1 DEF Begin, FirstLogin, Goroutines
  <2> QED BY <2>1, <2>2
<1>2. ASSUME NEW g \in Goroutines, CheckKilled(g) PROVE FirstLogin'
  <2>1. CASE killed
    <3>1. g # Main => pc[Main] # "begin"
      BY <1>2 DEF CheckKilled, FirstLogin, Goroutines
    <3>2. \A h \in Goroutines : pc[h] \notin {"mark", "store"}
      BY <1>2 DEF CheckKilled, IInv, SingleFlight, Refreshing
    <3>3. pc[g] \notin {"off", "mark", "store"} /\ Return(g, TRUE) /\ UNCHANGED <<stored, issued>>
      BY <1>2, <2>1 DEF CheckKilled
    <3> QED BY <3>1, <3>2, <3>3, FirstReturn
  <2>2. CASE ~killed
    <3>1. /\ pc'[g] = "api" /\ pc[g] = "check"
          /\ \A h \in Goroutines : h # g => pc'[h] = pc[h]
      BY <1>2, <2>2, GotoAt DEF CheckKilled, IInv, TypeOK, Pc
    <3> QED BY <1>2, <3>1 DEF CheckKilled, FirstLogin, Goroutines
  <2> QED BY <2>1, <2>2
<1>3. ASSUME NEW g \in Goroutines, Finish(g) PROVE FirstLogin'
  <2>1. g # Main => pc[Main] # "begin"
    BY <1>3 DEF Finish, FirstLogin, Goroutines
  <2>2. g = Main => pc[g] = "fail" \/ stored # 0
    BY <1>3 DEF Finish, FirstLogin
  <2>3. \A h \in Goroutines : pc[h] \notin {"mark", "store"}
    BY <1>3 DEF Finish, IInv, SingleFlight, Refreshing
  <2>4. /\ pc[g] \notin {"off", "mark", "store"} /\ Return(g, pc[g] = "fail")
        /\ UNCHANGED <<stored, issued>>
    BY <1>3 DEF Finish
  <2> QED BY <2>1, <2>2, <2>3, <2>4, FirstReturn
<1>4. CASE UNCHANGED vars
  BY <1>4 DEF vars, FirstLogin
<1> QED BY <1>1, <1>2, <1>3, <1>4, FirstGoto DEF Next, RefreshStep

(* A client that serves requests has logged in, and while it does not do   *)
(* so again it holds what ZkCloud answered last.                           *)
THEOREM ServesOnlyLoggedIn == Spec => []ServesLoggedIn
<1>1. Init => FirstLogin
  BY DEF Init, FirstLogin, Goroutines
<1>2. IInv /\ FirstLogin /\ [Next]_vars => FirstLogin'
  BY FirstStep
<1>3. IInv /\ FirstLogin => ServesLoggedIn
  <2> SUFFICES ASSUME IInv, FirstLogin, NEW g \in Refreshers, pc[g] # "off"
               PROVE  /\ stored # 0
                      /\ (\A h \in Goroutines : ~Refreshing(h)) => stored = issued
    BY DEF ServesLoggedIn
  <2>1. stored # 0
    BY DEF FirstLogin
  <2>2. (\A h \in Goroutines : ~Refreshing(h)) => stored = issued
    BY DEF FirstLogin, Refreshing
  <2> QED BY <2>1, <2>2
<1> QED BY <1>1, <1>2, <1>3, InvCorrect, PTL DEF Spec
=============================================================================
