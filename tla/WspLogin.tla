------------------------------- MODULE WspLogin -------------------------------
(***************************************************************************)
(* The login of the client at ZkCloud: WspLogin.RefreshWspToken, called by *)
(* main when it creates the client and afterwards by a goroutine of its    *)
(* own for every request that is answered with "unauthorized" or "session  *)
(* expired".  At most one of them may talk to ZkCloud at a time.           *)
(*                                                                         *)
(* refreshInProgress is read and written in critical sections of           *)
(* refreshTokenMutex that do nothing else, so each is one action here.     *)
(* killed and authToken are plain fields that the goroutines share.        *)
(***************************************************************************)
EXTENDS Naturals, FiniteSets

CONSTANTS
  Main,        \* the goroutine that creates the client
  Refreshers,  \* the goroutines that Request starts
  MaxTokens    \* bound of the model: the logins ZkCloud answers

ASSUME LoginAssumption ==
  /\ Main \notin Refreshers
  /\ MaxTokens \in Nat

Goroutines == Refreshers \cup {Main}

VARIABLES
  refreshInProgress,
  killed,             \* WspLogin.killed
  authToken,          \* 0 for the empty token, else the number of its login
  stored,             \* the login whose answer the fields hold, 0 before one
  issued,             \* the number of logins ZkCloud accepted
  answer,             \* what ZkCloud answered to each goroutine
  pc                  \* where each goroutine is; "off" before the client exists

vars == <<refreshInProgress, killed, authToken, stored, issued, answer, pc>>

Pc == {"off", "ready", "begin", "check", "api", "mark", "store", "finish",
       "fail", "exit"}

Answers == [login : 0..MaxTokens, token : 0..MaxTokens, killed : BOOLEAN]

Init ==
  /\ refreshInProgress = FALSE
  /\ killed = FALSE
  /\ authToken = 0
  /\ stored = 0
  /\ issued = 0
  /\ answer = [g \in Goroutines |-> [login |-> 0, token |-> 0, killed |-> FALSE]]
  /\ pc = [g \in Goroutines |-> IF g = Main THEN "begin" ELSE "off"]

Goto(g, label) == pc' = [pc EXCEPT ![g] = label]

(* Mutants of Return: an error in a refresh is fatal for its goroutine, and *)
(* an error of the first login is only logged.                             *)
ReturnOrExit(g, failed) ==
  pc' = IF failed THEN [pc EXCEPT ![g] = "exit"]
        ELSE IF g # Main THEN [pc EXCEPT ![g] = "ready"]
        ELSE [h \in Goroutines |-> "ready"]

ReturnServing(g, failed) ==
  pc' = IF g # Main THEN [pc EXCEPT ![g] = "ready"]
        ELSE [h \in Goroutines |-> "ready"]

(* The call returns.  Main has a client if it was given no error, and lets *)
(* requests come; with an error it ends the process.                       *)
Return(g, failed) ==
  pc' = IF g # Main THEN [pc EXCEPT ![g] = "ready"]
        ELSE IF failed THEN [pc EXCEPT ![g] = "exit"]
        ELSE [h \in Goroutines |-> "ready"]

-----------------------------------------------------------------------------
(* A request was answered with a code that asks for a new token.           *)
Call(g) ==
  /\ g # Main /\ pc[g] = "ready"
  /\ Goto(g, "begin")
  /\ UNCHANGED <<refreshInProgress, killed, authToken, stored, issued, answer>>

(* Mutant of Begin: without the test of refreshInProgress.                 *)
BeginAlways(g) ==
  /\ pc[g] = "begin"
  /\ refreshInProgress' = TRUE
  /\ Goto(g, "check")
  /\ UNCHANGED <<killed, authToken, stored, issued, answer>>

(* A refresh under way is enough; the call returns without an error.       *)
Begin(g) ==
  /\ pc[g] = "begin"
  /\ \/ refreshInProgress /\ Return(g, FALSE) /\ UNCHANGED refreshInProgress
     \/ ~refreshInProgress /\ refreshInProgress' = TRUE /\ Goto(g, "check")
  /\ UNCHANGED <<killed, authToken, stored, issued, answer>>

(* Mutant of CheckKilled: a killed cluster logs in again.                  *)
CheckKilledLate(g) ==
  /\ pc[g] = "check"
  /\ Goto(g, "api")
  /\ UNCHANGED <<refreshInProgress, killed, authToken, stored, issued, answer>>

(* On a killed cluster the call returns an error, and refreshInProgress    *)
(* stays set.                                                              *)
CheckKilled(g) ==
  /\ pc[g] = "check"
  /\ IF killed THEN Return(g, TRUE) ELSE Goto(g, "api")
  /\ UNCHANGED <<refreshInProgress, killed, authToken, stored, issued, answer>>

(* updateAuthTokenFromZkCloud: the secret cannot be read, the post fails,  *)
(* or its answer is not usable ...                                         *)
LoginFails(g) ==
  /\ pc[g] = "api"
  /\ Goto(g, "fail")
  /\ UNCHANGED <<refreshInProgress, killed, authToken, stored, issued, answer>>

(* ... or ZkCloud accepts the login and says whether the cluster is killed. *)
(* Nothing asks whether the answer has a token, for a killed cluster or    *)
(* for any other: it is then the empty one.                                *)
Login(g) ==
  /\ pc[g] = "api"
  /\ issued < MaxTokens
  /\ issued' = issued + 1
  /\ \E k \in BOOLEAN, token \in {0, issued + 1} :
       answer' = [answer EXCEPT ![g] = [login |-> issued + 1, token |-> token, killed |-> k]]
  /\ Goto(g, "mark")
  /\ UNCHANGED <<refreshInProgress, killed, authToken, stored>>

MarkKilled(g) ==
  /\ pc[g] = "mark"
  /\ killed' = (killed \/ answer[g].killed)
  /\ Goto(g, "store")
  /\ UNCHANGED <<refreshInProgress, authToken, stored, issued, answer>>

StoreToken(g) ==
  /\ pc[g] = "store"
  /\ authToken' = answer[g].token
  /\ stored' = answer[g].login
  /\ Goto(g, "finish")
  /\ UNCHANGED <<refreshInProgress, killed, issued, answer>>

(* Mutant of Finish: an early return after an error.                       *)
FinishUnlessFailed(g) ==
  /\ pc[g] \in {"finish", "fail"}
  /\ refreshInProgress' = (pc[g] = "fail")
  /\ Return(g, pc[g] = "fail")
  /\ UNCHANGED <<killed, authToken, stored, issued, answer>>

Finish(g) ==
  /\ pc[g] \in {"finish", "fail"}
  /\ refreshInProgress' = FALSE
  /\ Return(g, pc[g] = "fail")
  /\ UNCHANGED <<killed, authToken, stored, issued, answer>>

-----------------------------------------------------------------------------
RefreshStep(g) ==
  \/ Begin(g) \/ CheckKilled(g) \/ LoginFails(g) \/ Login(g)
  \/ MarkKilled(g) \/ StoreToken(g) \/ Finish(g)

Next == \E g \in Goroutines : Call(g) \/ RefreshStep(g)

Spec == Init /\ [][Next]_vars

(* A goroutine that can go on does; ZkCloud answers or the post fails.     *)
FairSpec == Spec /\ \A g \in Goroutines : WF_vars(RefreshStep(g))

-----------------------------------------------------------------------------
(* Properties.                                                             *)

TypeOK ==
  /\ refreshInProgress \in BOOLEAN /\ killed \in BOOLEAN
  /\ authToken \in 0..MaxTokens /\ stored \in 0..MaxTokens /\ issued \in 0..MaxTokens
  /\ answer \in [Goroutines -> Answers]
  /\ pc \in [Goroutines -> Pc]
  /\ \A g \in Refreshers : pc[g] # "exit"

Refreshing(g) == pc[g] \in {"check", "api", "mark", "store", "finish", "fail"}

(* Between its two critical sections, RefreshWspToken is alone: two        *)
(* goroutines never log in at the same time, although the mutex is not     *)
(* held during the login.                                                  *)
SingleFlight ==
  \A g, h \in Goroutines : Refreshing(g) /\ Refreshing(h) => g = h

(* A login never overwrites the token of a later login, although the       *)
(* answers are stored without a lock.                                      *)
TokenNeverGoesBack == [][stored' >= stored]_vars

(* Once the client knows that the cluster is killed, no login is under way *)
(* or started: no refresh that tested the flag before still goes on.       *)
NoLoginAfterKill == killed => \A g \in Goroutines : pc[g] # "api"

(* The client serves requests only after ZkCloud accepted a login: with an *)
(* error of the first one CreateWspLogin gives main no client.  And what   *)
(* it sends along with them is the answer to the last login that ZkCloud   *)
(* accepted, except while a refresh is under way.  It may be the empty     *)
(* token: RefreshWspToken takes an answer without a token for a login.     *)
ServesLoggedIn ==
  (\E g \in Refreshers : pc[g] # "off") =>
    /\ stored # 0
    /\ (\A g \in Goroutines : ~Refreshing(g)) => stored = issued

(* A refresh gives way to later ones however it ends, errors of ZkCloud    *)
(* and of the Kubernetes secret included, unless the cluster is killed.    *)
RefreshEnds == refreshInProgress ~> ~refreshInProgress \/ killed
=============================================================================
