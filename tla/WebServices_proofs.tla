------------------------- MODULE WebServices_proofs -------------------------
(***************************************************************************)
(* Proofs about the local login, the ingress rules of remotely managed     *)
(* tunnels, the fallback between transports, the log streams and the       *)
(* signals of the process.                                                 *)
(***************************************************************************)
EXTENDS LocalLogin, TunnelIngress, ProtocolFallback, LogBroadcaster, ProcessSignals,
        FiniteSets, FiniteSetTheorems, SequenceTheorems, TLAPS

-----------------------------------------------------------------------------
(***************************************************************************)
(* Proofs about LocalLogin, for any number of requests, clients, sessions, *)
(* passwords and restarts.                                                 *)
(*                                                                         *)
(* SessionsMatchPassword is not inductive: it needs that a request which   *)
(* has checked a password still holds Store.mu (Exclusive), and that       *)
(* therefore the password it checked still holds (Checked).                *)
(* GuessesAreBounded counts: a guess was an attempt the limiter admitted   *)
(* (CountInv).                                                             *)
(***************************************************************************)
USE DEF LoginOps

\* Who checks a password or works on what it allows holds the lock.
Exclusive == \A r \in LoginRequests : call[r].pc \in {"verify", "commit"} => storeMu = r

\* What a request has checked still holds.
Checked ==
  \A r \in LoginRequests : call[r].pc = "commit" /\ call[r].op # "setup"
                             => enabled /\ call[r].given = password

LoginInv == LoginTypeOK /\ Exclusive /\ Checked /\ SessionsMatchPassword

LEMMA KeyOfToken == \A t \in 0..MaxTokens : [token |-> t] \in Keys
  BY DEF Keys

LEMMA KeyOfClient == \A c \in Clients : [client |-> c] \in Keys
  BY DEF Keys

\* An idle request has the types of a request.
LEMMA NoCallIsTyped == NoCall \in CallTypes
  BY LoginAssumption, KeyOfToken DEF NoCall, CallTypes, Passwords

LEMMA LoginInitiallyInv == LoginInit => LoginInv
<1> SUFFICES ASSUME LoginInit PROVE LoginInv
  OBVIOUS
<1>1. LoginTypeOK
  <2>1. password \in Passwords /\ tokens \in 0..MaxTokens
    BY LoginAssumption DEF LoginInit, Passwords
  <2>6. enabled \in BOOLEAN
    BY Zenon DEF LoginInit
  <2>2. logins \subseteq 1..tokens /\ expired \subseteq Tokens
    BY DEF LoginInit
  <2>3. madeWith \in [Tokens -> Passwords]
    BY LoginAssumption DEF LoginInit, Passwords
  <2>4. call \in [LoginRequests -> CallTypes] /\ storeMu = NoRequest
    BY NoCallIsTyped DEF LoginInit
  <2>5. attempts \in [Keys -> 0..Attempts] /\ guesses \in [Keys -> Nat]
    BY LoginAssumption DEF LoginInit
  <2> QED
    BY <2>1, <2>2, <2>3, <2>4, <2>5, <2>6 DEF LoginTypeOK
<1>2. Exclusive /\ Checked /\ SessionsMatchPassword
  BY DEF LoginInit, NoCall, Exclusive, Checked, SessionsMatchPassword
<1> QED
  BY <1>1, <1>2 DEF LoginInv

-----------------------------------------------------------------------------
(***************************************************************************)
(* Type correctness.                                                       *)
(***************************************************************************)
\* A request that moves on or answers keeps its types.
LEMMA LoginMovesAreTyped ==
  ASSUME LoginTypeOK, NEW r \in LoginRequests,
         NEW place \in {"idle", "enabled", "session", "limit", "lock", "verify",
                        "commit", "success", "delete"}
  PROVE  /\ Proceed(r, place) => call' \in [LoginRequests -> CallTypes]
         /\ Reply(r) => call' \in [LoginRequests -> CallTypes]
<1>1. call[r] \in CallTypes
  BY DEF LoginTypeOK
<1>2. [call[r] EXCEPT !.pc = place] \in CallTypes
  BY <1>1 DEF CallTypes
<1> QED
  BY <1>2, NoCallIsTyped DEF LoginTypeOK, Proceed, Reply

LEMMA UncountedIsTyped ==
  ASSUME LoginTypeOK, NEW k \in Keys
  PROVE  Uncounted(k) \in [LoginRequests -> CallTypes]
<1> SUFFICES ASSUME NEW q \in LoginRequests
             PROVE  [call[q] EXCEPT !.counted = FALSE] \in CallTypes /\ call[q] \in CallTypes
  BY DEF Uncounted
<1>1. call[q] \in CallTypes
  BY DEF LoginTypeOK
<1> QED
  BY <1>1 DEF CallTypes

LEMMA ArrivalIsTyped ==
  ASSUME LoginTypeOK, NEW r \in LoginRequests, NEW op \in LoginOps, NEW p \in Passwords,
         NEW t \in 0..tokens, NEW c \in Clients, Arrive(r, op, p, t, c)
  PROVE  LoginTypeOK'
<1>1. t \in 0..MaxTokens
  BY LoginAssumption DEF LoginTypeOK
<1> DEFINE arrived ==
      [pc      |-> CASE op = "setup" -> "lock" [] op = "login" -> "limit"
                     [] op = "logout" -> "delete" [] OTHER -> "enabled",
       op      |-> op,
       given   |-> p,
       token   |-> t,
       key     |-> IF op = "login" THEN [client |-> c] ELSE [token |-> t],
       counted |-> FALSE]
<1>2. arrived \in CallTypes
  BY <1>1, KeyOfToken, KeyOfClient DEF CallTypes
<1>3. call' = [call EXCEPT ![r] = arrived]
  BY DEF Arrive
<1>4. call' \in [LoginRequests -> CallTypes]
  BY <1>2, <1>3 DEF LoginTypeOK
<1> QED
  BY <1>4 DEF LoginTypeOK, Arrive, Settings, SessionTable, Limiters

\* An entry of a limiter that goes leaves the counters typed.
LEMMA DropIsTyped ==
  ASSUME LoginTypeOK, NEW k \in Keys, Drop(k)
  PROVE  attempts' \in [Keys -> 0..Attempts] /\ guesses' \in [Keys -> Nat]
  BY LoginAssumption DEF LoginTypeOK, Drop

\* Steps that only move a request on.
LEMMA QuietStepIsTyped ==
  ASSUME LoginTypeOK, NEW r \in LoginRequests,
         UNCHANGED <<Settings, SessionTable, storeMu, Limiters, Bounds>>,
         call' \in [LoginRequests -> CallTypes]
  PROVE  LoginTypeOK'
  BY DEF LoginTypeOK, Settings, SessionTable, Limiters, Bounds

LEMMA MiddlewareIsTyped ==
  ASSUME LoginTypeOK, NEW r \in LoginRequests,
         ReadEnabled(r) \/ AuthenticateSession(r) \/ allow(r) \/ Refuse(r)
           \/ BadRequest(r) \/ DeleteSession(r)
  PROVE  LoginTypeOK'
<1>1. CASE ReadEnabled(r)
  <2>1. call' \in [LoginRequests -> CallTypes]
    BY <1>1, LoginMovesAreTyped DEF ReadEnabled
  <2> QED
    BY <1>1, <2>1, QuietStepIsTyped DEF ReadEnabled
<1>2. CASE AuthenticateSession(r)
  <2>1. call' \in [LoginRequests -> CallTypes]
    BY <1>2, LoginMovesAreTyped DEF AuthenticateSession
  <2>2. logins' \subseteq logins
    BY <1>2 DEF AuthenticateSession
  <2> QED
    BY <1>2, <2>1, <2>2 DEF AuthenticateSession, LoginTypeOK, Settings, Limiters, Bounds
<1>3. CASE allow(r)
  <2>1. call[r] \in CallTypes
    BY DEF LoginTypeOK
  <2>2. [call[r] EXCEPT !.pc = "lock", !.counted = TRUE] \in CallTypes
    BY <2>1 DEF CallTypes
  <2>3. call' = [call EXCEPT ![r] = [call[r] EXCEPT !.pc = "lock", !.counted = TRUE]]
    BY <1>3 DEF allow
  <2>4. call' \in [LoginRequests -> CallTypes]
    BY <2>2, <2>3 DEF LoginTypeOK
  <2>5. attempts' \in [Keys -> 0..Attempts]
    BY <1>3, <2>1, LoginAssumption DEF allow, LoginTypeOK, CallTypes
  <2> QED
    BY <1>3, <2>4, <2>5 DEF allow, LoginTypeOK, Settings, SessionTable, Bounds
<1>4. CASE Refuse(r) \/ BadRequest(r)
  <2>1. call' \in [LoginRequests -> CallTypes]
    BY <1>4, LoginMovesAreTyped DEF Refuse, BadRequest
  <2> QED
    BY <1>4, <2>1, QuietStepIsTyped DEF Refuse, BadRequest
<1>5. CASE DeleteSession(r)
  <2>1. call' \in [LoginRequests -> CallTypes]
    BY <1>5, LoginMovesAreTyped DEF DeleteSession
  <2> QED
    BY <1>5, <2>1 DEF DeleteSession, LoginTypeOK, Settings, Limiters, Bounds
<1> QED
  BY <1>1, <1>2, <1>3, <1>4, <1>5

LEMMA LockedStepsAreTyped ==
  ASSUME LoginTypeOK, NEW r \in LoginRequests,
         Lock(r) \/ Verify(r) \/ VerifyFails(r) \/ CommitFails(r) \/ success(r)
  PROVE  LoginTypeOK'
<1>0. call[r] \in CallTypes /\ call[r].key \in Keys
  BY DEF LoginTypeOK, CallTypes
<1>1. CASE Lock(r)
  <2>1. call' \in [LoginRequests -> CallTypes]
    BY <1>1, LoginMovesAreTyped DEF Lock
  <2> QED
    BY <1>1, <2>1 DEF Lock, LoginTypeOK, Settings, SessionTable, Limiters, Bounds
<1>2. CASE Verify(r)
  <2>1. call' \in [LoginRequests -> CallTypes]
    BY <1>2, LoginMovesAreTyped DEF Verify
  <2> QED
    BY <1>2, <2>1, QuietStepIsTyped DEF Verify
<1>3. CASE VerifyFails(r) \/ CommitFails(r)
  <2>1. call' \in [LoginRequests -> CallTypes] /\ storeMu' = NoRequest
    BY <1>3, LoginMovesAreTyped DEF VerifyFails, CommitFails, Unlock
  <2>2. guesses' \in [Keys -> Nat] /\ UNCHANGED attempts
    BY <1>3, <1>0 DEF VerifyFails, CommitFails, LoginTypeOK, Limiters
  <2> QED
    BY <1>3, <2>1, <2>2 DEF VerifyFails, CommitFails, LoginTypeOK, Settings, SessionTable, Bounds
<1>4. CASE success(r)
  <2>1. call' \in [LoginRequests -> CallTypes]
    BY <1>0, <1>4, UncountedIsTyped, NoCallIsTyped DEF success
  <2>2. attempts' \in [Keys -> 0..Attempts] /\ guesses' \in [Keys -> Nat]
    BY <1>0, <1>4, DropIsTyped DEF success
  <2> QED
    BY <1>4, <2>1, <2>2 DEF success, LoginTypeOK, Settings, SessionTable, Bounds
<1> QED
  BY <1>1, <1>2, <1>3, <1>4

LEMMA CommitsAreTyped ==
  ASSUME LoginTypeOK, NEW r \in LoginRequests,
         Setup(r) \/ Login(r) \/ ChangePassword(r) \/ RevokeOtherSessions(r) \/ Disable(r)
  PROVE  LoginTypeOK'
<1>0. call[r] \in CallTypes /\ call[r].given \in Passwords
  BY DEF LoginTypeOK, CallTypes
<1>1. CASE Setup(r)
  <2>1. call' \in [LoginRequests -> CallTypes] /\ storeMu' = NoRequest
    BY <1>1, LoginMovesAreTyped DEF Setup, Unlock
  <2>2. password' \in Passwords /\ logins' = {} /\ enabled' = TRUE
    BY <1>1, LoginAssumption DEF Setup, LoginTypeOK, Passwords
  <2> QED
    BY <1>1, <2>1, <2>2 DEF Setup, LoginTypeOK, Limiters, Bounds
<1>2. CASE Login(r)
  <2>1. call' \in [LoginRequests -> CallTypes] /\ storeMu' = NoRequest
    BY <1>2, LoginMovesAreTyped DEF Login
  <2>2. tokens' \in 0..MaxTokens /\ tokens' \in Tokens /\ logins' \subseteq 1..tokens'
    BY <1>2, LoginAssumption DEF Login, LoginTypeOK, Tokens
  <2>3. madeWith' \in [Tokens -> Passwords]
    BY <1>2, <1>0 DEF Login, LoginTypeOK
  <2> QED
    BY <1>2, <2>1, <2>2, <2>3 DEF Login, LoginTypeOK, Settings, Limiters, Bounds
<1>3. CASE ChangePassword(r)
  <2>1. call' \in [LoginRequests -> CallTypes] /\ storeMu' = NoRequest
    BY <1>3, LoginMovesAreTyped DEF ChangePassword, Unlock
  <2>2. tokens' \in 0..MaxTokens /\ logins' \subseteq 1..tokens' /\ password' \in Passwords
    BY <1>3, LoginAssumption DEF ChangePassword, LoginTypeOK, Passwords
  <2>3. madeWith' \in [Tokens -> Passwords]
    BY <1>3, <2>2 DEF ChangePassword, LoginTypeOK
  <2> QED
    BY <1>3, <2>1, <2>2, <2>3 DEF ChangePassword, LoginTypeOK, Limiters, Bounds
<1>4. CASE RevokeOtherSessions(r)
  <2>1. call' \in [LoginRequests -> CallTypes] /\ storeMu' = NoRequest
    BY <1>4, LoginMovesAreTyped DEF RevokeOtherSessions, Unlock
  <2>2. logins' \subseteq logins
    BY <1>4 DEF RevokeOtherSessions
  <2> QED
    BY <1>4, <2>1, <2>2 DEF RevokeOtherSessions, LoginTypeOK, Settings, Limiters, Bounds
<1>5. CASE Disable(r)
  <2>1. call' \in [LoginRequests -> CallTypes] /\ storeMu' = NoRequest
    BY <1>5, LoginMovesAreTyped DEF Disable, Unlock
  <2> QED
    BY <1>5, <2>1 DEF Disable, LoginTypeOK, Limiters, Bounds
<1> QED
  BY <1>1, <1>2, <1>3, <1>4, <1>5

LEMMA EnvironmentIsTyped ==
  ASSUME LoginTypeOK,
         (\E k \in Keys : WindowEnds(k)) \/ (\E t \in Tokens : SessionExpires(t)) \/ LoginCrash
  PROVE  LoginTypeOK'
<1>1. CASE \E k \in Keys : WindowEnds(k)
  <2>1. PICK k \in Keys : WindowEnds(k)
    BY <1>1
  <2>2. call' \in [LoginRequests -> CallTypes]
    BY <2>1, UncountedIsTyped DEF WindowEnds
  <2>3. attempts' \in [Keys -> 0..Attempts] /\ guesses' \in [Keys -> Nat]
    BY <2>1, DropIsTyped DEF WindowEnds
  <2> QED
    BY <2>1, <2>2, <2>3 DEF WindowEnds, LoginTypeOK, Settings, SessionTable
<1>2. CASE \E t \in Tokens : SessionExpires(t)
  BY <1>2 DEF SessionExpires, LoginTypeOK, Settings, SessionTable, Limiters
<1>3. CASE LoginCrash
  <2>1. call' \in [LoginRequests -> CallTypes] /\ storeMu' = NoRequest
    BY <1>3, NoCallIsTyped DEF LoginCrash
  <2>2. attempts' \in [Keys -> 0..Attempts] /\ guesses' \in [Keys -> Nat]
    BY <1>3, LoginAssumption DEF LoginCrash
  <2> QED
    BY <1>3, <2>1, <2>2 DEF LoginCrash, LoginTypeOK, Settings, SessionTable
<1> QED
  BY <1>1, <1>2, <1>3

LEMMA NextIsTyped ==
  ASSUME LoginTypeOK, [LoginNext]_loginVars
  PROVE  LoginTypeOK'
<1>1. CASE \E r \in LoginRequests : LocalLoginStep(r)
  <2>1. PICK r \in LoginRequests : LocalLoginStep(r)
    BY <1>1
  <2>2. CASE \E op \in LoginOps, p \in Passwords, t \in 0..tokens, c \in Clients :
               Arrive(r, op, p, t, c)
    BY <2>2, ArrivalIsTyped
  <2> QED
    BY <2>1, <2>2, MiddlewareIsTyped, LockedStepsAreTyped, CommitsAreTyped DEF LocalLoginStep
<1>2. CASE UNCHANGED loginVars
  BY <1>2 DEF LoginTypeOK, loginVars
<1> QED
  BY <1>1, <1>2, EnvironmentIsTyped DEF LoginNext

-----------------------------------------------------------------------------
(***************************************************************************)
(* The lock and what is checked under it.                                  *)
(***************************************************************************)
\* Steps of a request that neither take nor hold the lock, and after which it
\* is not in the locked section.
LEMMA UnlockedStepsKeepInv ==
  ASSUME LoginInv, NEW r \in LoginRequests,
         call[r].pc \notin {"verify", "commit"},
         \A q \in LoginRequests : q # r => call'[q].pc = call[q].pc /\ call'[q].op = call[q].op
                                          /\ call'[q].given = call[q].given,
         call'[r].pc \notin {"verify", "commit"},
         UNCHANGED <<Settings, storeMu, madeWith>>, logins' \subseteq logins
  PROVE  (Exclusive /\ Checked /\ SessionsMatchPassword)'
  BY DEF LoginInv, Exclusive, Checked, SessionsMatchPassword, Settings

LEMMA PublicStepsKeepInv ==
  ASSUME LoginInv, NEW r \in LoginRequests,
         \/ \E op \in LoginOps, p \in Passwords, t \in 0..tokens, c \in Clients :
              Arrive(r, op, p, t, c)
         \/ ReadEnabled(r) \/ AuthenticateSession(r) \/ allow(r) \/ Refuse(r)
         \/ BadRequest(r) \/ success(r) \/ DeleteSession(r)
  PROVE  (Exclusive /\ Checked /\ SessionsMatchPassword)'
<1> USE DEF LoginInv, LoginTypeOK
<1>1. CASE \E op \in LoginOps, p \in Passwords, t \in 0..tokens, c \in Clients :
             Arrive(r, op, p, t, c)
  <2>1. PICK op \in LoginOps, p \in Passwords, t \in 0..tokens, c \in Clients :
          Arrive(r, op, p, t, c)
    BY <1>1
  <2>2. call[r].pc \notin {"verify", "commit"} /\ call'[r].pc \notin {"verify", "commit"}
    BY <2>1 DEF Arrive
  <2>3. \A q \in LoginRequests : q # r => call'[q] = call[q]
    BY <2>1 DEF Arrive
  <2> QED
    BY <2>1, <2>2, <2>3, UnlockedStepsKeepInv DEF Arrive, Settings, SessionTable
<1>2. CASE ReadEnabled(r) \/ AuthenticateSession(r) \/ allow(r) \/ Refuse(r)
             \/ BadRequest(r) \/ DeleteSession(r)
  <2>1. call[r].pc \notin {"verify", "commit"}
    BY <1>2 DEF ReadEnabled, AuthenticateSession, allow, Refuse, BadRequest, DeleteSession
  <2>2. call'[r].pc \notin {"verify", "commit"}
    <3>1. CASE Reply(r)
      BY <3>1 DEF Reply, NoCall
    <3>2. CASE \E place \in {"session", "limit"} : Proceed(r, place)
      BY <3>2 DEF Proceed
    <3>3. CASE allow(r)
      BY <3>3 DEF allow
    <3> QED
      BY <1>2, <3>1, <3>2, <3>3 DEF ReadEnabled, AuthenticateSession, Refuse, BadRequest,
                                    DeleteSession
  <2>3. \A q \in LoginRequests : q # r => call'[q] = call[q]
    BY <1>2 DEF ReadEnabled, AuthenticateSession, allow, Refuse, BadRequest, DeleteSession,
                Proceed, Reply
  <2>4. UNCHANGED <<Settings, storeMu, madeWith>> /\ logins' \subseteq logins
    BY <1>2 DEF ReadEnabled, AuthenticateSession, allow, Refuse, BadRequest, DeleteSession,
                Settings, SessionTable
  <2> QED
    BY <2>1, <2>2, <2>3, <2>4, UnlockedStepsKeepInv
<1>3. CASE success(r)
  <2>1. call[r].pc \notin {"verify", "commit"} /\ call'[r].pc \notin {"verify", "commit"}
    BY <1>3 DEF success, NoCall, Uncounted
  <2>2. \A q \in LoginRequests : q # r => /\ call'[q].pc = call[q].pc
                                          /\ call'[q].op = call[q].op
                                          /\ call'[q].given = call[q].given
    BY <1>3 DEF success, Uncounted, CallTypes
  <2> QED
    BY <1>3, <2>1, <2>2, UnlockedStepsKeepInv DEF success, Settings, SessionTable
<1> QED
  BY <1>1, <1>2, <1>3

\* While r holds the lock, no other request is in the locked section.
LEMMA HolderIsAlone ==
  ASSUME LoginInv, NEW r \in LoginRequests, call[r].pc \in {"verify", "commit"}
  PROVE  \A q \in LoginRequests : q # r => call[q].pc \notin {"verify", "commit"}
  BY DEF LoginInv, Exclusive

LEMMA LockedStepsKeepInv ==
  ASSUME LoginInv, NEW r \in LoginRequests,
         Lock(r) \/ Verify(r) \/ VerifyFails(r) \/ CommitFails(r)
  PROVE  (Exclusive /\ Checked /\ SessionsMatchPassword)'
<1> USE DEF LoginInv, LoginTypeOK
<1>1. CASE Lock(r)
  <2>1. \A q \in LoginRequests : call[q].pc \notin {"verify", "commit"}
    BY <1>1, LoginAssumption DEF Lock, Exclusive
  <2>2. \A q \in LoginRequests : q # r => call'[q] = call[q]
    BY <1>1 DEF Lock, Proceed
  <2>3. call'[r].pc = "commit" => call'[r].op = "setup"
    BY <1>1 DEF Lock, Proceed
  <2>4. storeMu' = r /\ UNCHANGED <<enabled, password, logins, madeWith>>
    BY <1>1 DEF Lock, Settings, SessionTable
  <2> QED
    BY <2>1, <2>2, <2>3, <2>4 DEF Exclusive, Checked, SessionsMatchPassword
<1>2. CASE Verify(r)
  <2>1. \A q \in LoginRequests : q # r => call'[q] = call[q]
    BY <1>2 DEF Verify, Proceed
  <2>2. call'[r].given = password /\ call[r].pc = "verify"
    BY <1>2 DEF Verify, Proceed
  <2>3. UNCHANGED <<enabled, password, logins, madeWith, storeMu>>
    BY <1>2 DEF Verify, Settings, SessionTable
  <2>4. enabled
    BY <1>2, Zenon DEF Verify
  <2> QED
    BY <2>1, <2>2, <2>3, <2>4 DEF Exclusive, Checked, SessionsMatchPassword
<1>3. CASE VerifyFails(r) \/ CommitFails(r)
  <2>1. call[r].pc \in {"verify", "commit"}
    BY <1>3 DEF VerifyFails, CommitFails
  <2>2. \A q \in LoginRequests : q # r => call'[q] = call[q]
    BY <1>3 DEF VerifyFails, CommitFails, Unlock, Reply
  <2>3. call'[r].pc = "idle"
    BY <1>3 DEF VerifyFails, CommitFails, Unlock, Reply, NoCall
  <2>4. UNCHANGED <<enabled, password, logins, madeWith>>
    BY <1>3 DEF VerifyFails, CommitFails, Settings, SessionTable
  <2> QED
    BY <2>1, <2>2, <2>3, <2>4, HolderIsAlone DEF Exclusive, Checked, SessionsMatchPassword
<1> QED
  BY <1>1, <1>2, <1>3

\* A transaction: it runs alone, and what it relies on was checked.
LEMMA CommitsKeepInv ==
  ASSUME LoginInv, NEW r \in LoginRequests,
         Setup(r) \/ Login(r) \/ ChangePassword(r) \/ RevokeOtherSessions(r) \/ Disable(r)
  PROVE  (Exclusive /\ Checked /\ SessionsMatchPassword)'
<1> USE DEF LoginInv, LoginTypeOK
<1>1. call[r].pc = "commit"
  BY DEF Setup, Login, ChangePassword, RevokeOtherSessions, Disable
<1>2. \A q \in LoginRequests : call'[q].pc \notin {"verify", "commit"}
  <2>1. \A q \in LoginRequests : q # r => call'[q] = call[q]
    BY DEF Setup, Login, ChangePassword, RevokeOtherSessions, Disable, Unlock, Reply, Proceed
  <2>2. call'[r].pc \notin {"verify", "commit"}
    <3>1. CASE Reply(r)
      BY <3>1 DEF Reply, NoCall
    <3>2. CASE Proceed(r, "success")
      BY <3>2 DEF Proceed
    <3> QED
      BY <3>1, <3>2 DEF Setup, Login, ChangePassword, RevokeOtherSessions, Disable, Unlock
  <2> QED
    BY <1>1, <2>1, <2>2, HolderIsAlone
<1>3. (Exclusive /\ Checked)'
  BY <1>2 DEF Exclusive, Checked
<1>4. SessionsMatchPassword'
  <2>1. CASE Setup(r) \/ Disable(r)
    BY <2>1 DEF Setup, Disable, SessionsMatchPassword
  <2>2. CASE Login(r)
    <3>1. enabled /\ call[r].given = password
      BY <1>1, <2>2 DEF Login, Checked
    <3>2. tokens' \in Tokens /\ tokens' \notin logins
      BY <2>2, LoginAssumption DEF Login, Tokens
    <3>3. \A t \in logins' : t \in logins \/ t = tokens'
      BY <2>2 DEF Login
    <3>4. madeWith'[tokens'] = password /\ \A t \in logins : madeWith'[t] = madeWith[t]
      BY <2>2, <3>1, <3>2 DEF Login
    <3>5. UNCHANGED <<enabled, password>>
      BY <2>2 DEF Login, Settings
    <3> QED
      BY <3>1, <3>3, <3>4, <3>5 DEF SessionsMatchPassword
  <2>3. CASE ChangePassword(r)
    <3>1. tokens' \in Tokens
      BY <2>3, LoginAssumption DEF ChangePassword, Tokens
    <3>2. logins' = {tokens'} /\ madeWith'[tokens'] = password'
      BY <2>3, <3>1 DEF ChangePassword
    <3>3. enabled'
      BY <2>3, Zenon DEF ChangePassword
    <3> QED
      BY <3>2, <3>3 DEF SessionsMatchPassword
  <2>4. CASE RevokeOtherSessions(r)
    <3>1. logins' \subseteq logins /\ UNCHANGED <<enabled, password, madeWith>>
      BY <2>4 DEF RevokeOtherSessions, Settings
    <3> QED
      BY <3>1 DEF SessionsMatchPassword
  <2> QED
    BY <2>1, <2>2, <2>3, <2>4
<1> QED
  BY <1>3, <1>4

LEMMA EnvironmentKeepsInv ==
  ASSUME LoginInv,
         (\E k \in Keys : WindowEnds(k)) \/ (\E t \in Tokens : SessionExpires(t)) \/ LoginCrash
  PROVE  (Exclusive /\ Checked /\ SessionsMatchPassword)'
<1> USE DEF LoginInv, LoginTypeOK
<1>1. CASE \E k \in Keys : WindowEnds(k)
  <2>1. \A q \in LoginRequests : /\ call'[q].pc = call[q].pc
                                 /\ call'[q].op = call[q].op
                                 /\ call'[q].given = call[q].given
    BY <1>1 DEF WindowEnds, Uncounted, CallTypes
  <2>2. UNCHANGED <<enabled, password, logins, madeWith, storeMu>>
    BY <1>1 DEF WindowEnds, Settings, SessionTable
  <2> QED
    BY <2>1, <2>2 DEF Exclusive, Checked, SessionsMatchPassword
<1>2. CASE \E t \in Tokens : SessionExpires(t)
  BY <1>2 DEF SessionExpires, Exclusive, Checked, SessionsMatchPassword, Settings, SessionTable
<1>3. CASE LoginCrash
  <2>1. \A q \in LoginRequests : call'[q].pc = "idle"
    BY <1>3 DEF LoginCrash, NoCall
  <2>2. UNCHANGED <<enabled, password, logins, madeWith>>
    BY <1>3 DEF LoginCrash, Settings, SessionTable
  <2> QED
    BY <2>1, <2>2 DEF Exclusive, Checked, SessionsMatchPassword
<1> QED
  BY <1>1, <1>2, <1>3

LEMMA NextKeepsInv ==
  ASSUME LoginInv, [LoginNext]_loginVars
  PROVE  LoginInv'
<1>1. LoginTypeOK'
  BY NextIsTyped DEF LoginInv
<1>2. (Exclusive /\ Checked /\ SessionsMatchPassword)'
  <2>1. CASE \E r \in LoginRequests : LocalLoginStep(r)
    <3>1. PICK r \in LoginRequests : LocalLoginStep(r)
      BY <2>1
    <3> QED
      BY <3>1, PublicStepsKeepInv, LockedStepsKeepInv, CommitsKeepInv DEF LocalLoginStep
  <2>2. CASE UNCHANGED loginVars
    BY <2>2 DEF LoginInv, Exclusive, Checked, SessionsMatchPassword, loginVars
  <2> QED
    BY <2>1, <2>2, EnvironmentKeepsInv DEF LoginNext
<1> QED
  BY <1>1, <1>2 DEF LoginInv

-----------------------------------------------------------------------------
(***************************************************************************)
(* The theorems.                                                           *)
(***************************************************************************)
\* The invariant holds throughout: the password that a request has checked
\* under Store.mu holds until its transaction is over.
THEOREM LoginInvariance == LoginSpec => []LoginInv
  BY LoginInitiallyInv, NextKeepsInv, PTL DEF LoginSpec

\* The variables keep their types.
THEOREM LoginTypeCorrect == LoginSpec => []LoginTypeOK
<1>1. LoginInv => LoginTypeOK
  BY DEF LoginInv
<1> QED
  BY <1>1, LoginInvariance, PTL

\* No session outlives the password it was made with: the comment of Login
\* in internal/localauth/store.go, for any number of requests and restarts.
THEOREM SessionsFollowPassword == LoginSpec => []SessionsMatchPassword
<1>1. LoginInv => SessionsMatchPassword
  BY DEF LoginInv
<1> QED
  BY <1>1, LoginInvariance, PTL

-----------------------------------------------------------------------------
(***************************************************************************)
(* Wrong passwords.  Every request that may still bring one has been       *)
(* counted by the limiter before, so the wrong passwords the store was     *)
(* asked about and the attempts still at work are together no more than    *)
(* the attempts the limiter has admitted.                                  *)
(***************************************************************************)
\* Requests at work that the entry of a key has counted.
Counted(k) == {r \in LoginRequests : call[r].counted /\ call[r].key = k}

CountsAdmitted(k) ==
  IsFiniteSet(Counted(k)) /\ guesses[k] + Cardinality(Counted(k)) <= attempts[k]

CountInv == \A k \in Keys : CountsAdmitted(k)

\* Neither a guess nor an admission: at most counted requests go.
LEMMA FewerCounted ==
  ASSUME LoginTypeOK, CountInv, NEW k \in Keys, Counted(k)' \subseteq Counted(k),
         guesses'[k] = guesses[k], attempts'[k] = attempts[k]
  PROVE  CountsAdmitted(k)'
<1>1. IsFiniteSet(Counted(k)) /\ guesses[k] + Cardinality(Counted(k)) <= attempts[k]
  BY DEF CountInv, CountsAdmitted
<1>2. IsFiniteSet(Counted(k)') /\ Cardinality(Counted(k)') <= Cardinality(Counted(k))
  BY <1>1, FS_Subset
<1>3. Cardinality(Counted(k)') \in Nat /\ Cardinality(Counted(k)) \in Nat
  BY <1>1, <1>2, FS_CardinalityType
<1>4. guesses[k] \in Nat /\ attempts[k] \in Nat
  BY LoginAssumption DEF LoginTypeOK
<1> QED BY <1>1, <1>2, <1>3, <1>4 DEF CountsAdmitted

\* A key whose counted requests are forgotten along with its entry.
LEMMA NoneCounted ==
  ASSUME NEW k \in Keys, Counted(k)' = {}, guesses'[k] = 0, attempts'[k] = 0
  PROVE  CountsAdmitted(k)'
BY FS_EmptySet DEF CountsAdmitted

\* A step of r that goes on as it was counted, or answers.
LEMMA QuietCount ==
  ASSUME LoginTypeOK, CountInv, NEW r \in LoginRequests, UNCHANGED Limiters,
         \A q \in LoginRequests : q # r => call'[q] = call[q],
         call'[r].counted => call[r].counted /\ call'[r].key = call[r].key
  PROVE  CountInv'
<1> SUFFICES ASSUME NEW k \in Keys PROVE CountsAdmitted(k)'
  BY DEF CountInv
<1>1. Counted(k)' \subseteq Counted(k)
  BY DEF Counted
<1>2. guesses' = guesses /\ attempts' = attempts
  BY DEF Limiters
<1> QED BY <1>1, <1>2, FewerCounted

LEMMA ProceedOrReply ==
  ASSUME LoginTypeOK, NEW r \in LoginRequests, NEW place, Proceed(r, place) \/ Reply(r)
  PROVE  /\ \A q \in LoginRequests : q # r => call'[q] = call[q]
         /\ call'[r].counted => call[r].counted /\ call'[r].key = call[r].key
<1>1. call[r] \in CallTypes
  BY DEF LoginTypeOK
<1>2. CASE Proceed(r, place)
  <2>1. call'[r] = [call[r] EXCEPT !.pc = place]
    BY <1>2 DEF LoginTypeOK, Proceed
  <2>2. call'[r].counted = call[r].counted /\ call'[r].key = call[r].key
    BY <1>1, <2>1 DEF CallTypes
  <2> QED BY <1>2, <2>2 DEF LoginTypeOK, Proceed
<1>3. CASE Reply(r)
  <2>1. ~NoCall.counted
    BY DEF NoCall
  <2> QED BY <1>3, <2>1 DEF LoginTypeOK, Reply
<1> QED BY <1>2, <1>3

LEMMA CountOfAllow ==
  ASSUME LoginTypeOK, CountInv, NEW r \in LoginRequests, allow(r) PROVE CountInv'
<1> SUFFICES ASSUME NEW k \in Keys PROVE CountsAdmitted(k)'
  BY DEF CountInv
<1>1. call[r] \in CallTypes
  BY DEF LoginTypeOK
<1>2. /\ call'[r].key = call[r].key
      /\ \A q \in LoginRequests : q # r => call'[q] = call[q]
  <2>1. call' = [call EXCEPT ![r] = [call[r] EXCEPT !.pc = "lock", !.counted = TRUE]]
    BY DEF allow
  <2>2. [call[r] EXCEPT !.pc = "lock", !.counted = TRUE].key = call[r].key
    BY <1>1 DEF CallTypes
  <2> QED BY <2>1, <2>2 DEF LoginTypeOK
<1>3. guesses' = guesses /\ attempts' = [attempts EXCEPT ![call[r].key] = @ + 1]
  BY DEF allow
<1>4. CASE k # call[r].key
  <2>1. Counted(k)' \subseteq Counted(k)
    BY <1>2, <1>4 DEF Counted
  <2> QED BY <1>3, <1>4, <2>1, FewerCounted DEF LoginTypeOK
<1>5. CASE k = call[r].key
  <2>1. Counted(k)' \subseteq Counted(k) \cup {r}
    BY <1>2 DEF Counted
  <2>2. IsFiniteSet(Counted(k)) /\ guesses[k] + Cardinality(Counted(k)) <= attempts[k]
    BY DEF CountInv, CountsAdmitted
  <2>3. Cardinality(Counted(k)) \in Nat
    BY <2>2, FS_CardinalityType
  <2>4. /\ IsFiniteSet(Counted(k) \cup {r})
        /\ Cardinality(Counted(k) \cup {r}) \in Nat
        /\ Cardinality(Counted(k) \cup {r}) <= Cardinality(Counted(k)) + 1
    <3>1. /\ IsFiniteSet(Counted(k) \cup {r})
          /\ Cardinality(Counted(k) \cup {r}) =
               IF r \in Counted(k) THEN Cardinality(Counted(k)) ELSE Cardinality(Counted(k)) + 1
      BY <2>2, FS_AddElement
    <3>2. CASE r \in Counted(k)
      BY <2>3, <3>1, <3>2
    <3>3. CASE r \notin Counted(k)
      BY <2>3, <3>1, <3>3
    <3> QED BY <3>2, <3>3
  <2>5. IsFiniteSet(Counted(k)') /\ Cardinality(Counted(k)') <= Cardinality(Counted(k) \cup {r})
    BY <2>1, <2>4, FS_Subset
  <2>6. Cardinality(Counted(k)') \in Nat
    BY <2>5, FS_CardinalityType
  <2>7. guesses[k] \in Nat /\ attempts[k] \in Nat
    BY LoginAssumption DEF LoginTypeOK
  <2>8. attempts'[k] = attempts[k] + 1
    BY <1>3, <1>5 DEF LoginTypeOK
  <2> QED BY <1>3, <2>2, <2>3, <2>4, <2>5, <2>6, <2>7, <2>8 DEF CountsAdmitted
<1> QED BY <1>4, <1>5

\* A wrong password: the request that brought it was counted, and is gone.
LEMMA CountOfWrongPassword ==
  ASSUME LoginTypeOK, CountInv, NEW r \in LoginRequests, VerifyFails(r) PROVE CountInv'
<1> SUFFICES ASSUME NEW k \in Keys PROVE CountsAdmitted(k)'
  BY DEF CountInv
<1>1. ~call'[r].counted /\ \A q \in LoginRequests : q # r => call'[q] = call[q]
  BY DEF VerifyFails, Unlock, Reply, NoCall, LoginTypeOK
<1>2. Counted(k)' \subseteq Counted(k) \ {r}
  BY <1>1 DEF Counted
<1>3. attempts' = attempts
  BY DEF VerifyFails
<1>4. CASE guesses'[k] = guesses[k]
  BY <1>2, <1>3, <1>4, FewerCounted
<1>5. CASE guesses'[k] # guesses[k]
  <2>1. call[r].counted /\ call[r].key = k /\ guesses'[k] = guesses[k] + 1
    BY <1>5 DEF VerifyFails, LoginTypeOK
  <2>2. r \in Counted(k)
    BY <2>1 DEF Counted
  <2>3. IsFiniteSet(Counted(k)) /\ guesses[k] + Cardinality(Counted(k)) <= attempts[k]
    BY DEF CountInv, CountsAdmitted
  <2>4. /\ IsFiniteSet(Counted(k) \ {r})
        /\ Cardinality(Counted(k) \ {r}) = Cardinality(Counted(k)) - 1
    BY <2>2, <2>3, FS_RemoveElement
  <2>5. IsFiniteSet(Counted(k)') /\ Cardinality(Counted(k)') <= Cardinality(Counted(k) \ {r})
    BY <1>2, <2>4, FS_Subset
  <2>6. Cardinality(Counted(k)') \in Nat /\ Cardinality(Counted(k)) \in Nat
    BY <2>3, <2>5, FS_CardinalityType
  <2>7. guesses[k] \in Nat /\ attempts[k] \in Nat
    BY LoginAssumption DEF LoginTypeOK
  <2> QED BY <1>3, <2>1, <2>3, <2>4, <2>5, <2>6, <2>7 DEF CountsAdmitted
<1> QED BY <1>4, <1>5

\* The entry of a key goes: what is still at work belonged to it.
LEMMA CountOfDrop ==
  ASSUME LoginTypeOK, CountInv, NEW d \in Keys, Drop(d),
         \A q \in LoginRequests : call'[q] \in {Uncounted(d)[q], NoCall}
  PROVE  CountInv'
<1> SUFFICES ASSUME NEW k \in Keys PROVE CountsAdmitted(k)'
  BY DEF CountInv
<1>1. ASSUME NEW q \in LoginRequests, call'[q].counted
      PROVE  call'[q] = call[q] /\ call[q].key # d
  <2>1. call[q] \in CallTypes /\ ~NoCall.counted
    BY DEF LoginTypeOK, NoCall
  <2>2. call'[q] = IF call[q].key = d THEN [call[q] EXCEPT !.counted = FALSE] ELSE call[q]
    BY <1>1, <2>1 DEF Uncounted
  <2> QED BY <1>1, <2>1, <2>2 DEF CallTypes
<1>2. CASE k = d
  <2>1. Counted(k)' = {}
    BY <1>1, <1>2 DEF Counted
  <2> QED BY <1>2, <2>1, NoneCounted DEF Drop, LoginTypeOK
<1>3. CASE k # d
  <2>1. Counted(k)' \subseteq Counted(k)
    BY <1>1 DEF Counted
  <2> QED BY <1>3, <2>1, FewerCounted DEF Drop, LoginTypeOK
<1> QED BY <1>2, <1>3

LEMMA StepKeepsCount ==
  ASSUME LoginTypeOK, CountInv, [LoginNext]_loginVars PROVE CountInv'
<1>1. ASSUME NEW r \in LoginRequests, LocalLoginStep(r) PROVE CountInv'
  <2>0. call[r] \in CallTypes /\ call[r].key \in Keys
    BY DEF LoginTypeOK, CallTypes
  <2>1. CASE \E op \in LoginOps, p \in Passwords, t \in 0..tokens, c \in Clients :
               Arrive(r, op, p, t, c)
    <3>1. ~call'[r].counted /\ \A q \in LoginRequests : q # r => call'[q] = call[q]
      BY <2>1 DEF Arrive, LoginTypeOK
    <3>2. UNCHANGED Limiters
      BY <2>1 DEF Arrive
    <3> QED BY <3>1, <3>2, QuietCount
  <2>2. CASE allow(r)
    BY <2>2, CountOfAllow
  <2>3. CASE VerifyFails(r)
    BY <2>3, CountOfWrongPassword
  <2>4. CASE success(r)
    <3>1. \A q \in LoginRequests : call'[q] \in {Uncounted(call[r].key)[q], NoCall}
      BY <2>4 DEF success, Uncounted
    <3> QED BY <2>0, <2>4, <3>1, CountOfDrop DEF success
  <2>5. CASE \/ ReadEnabled(r) \/ AuthenticateSession(r) \/ Refuse(r) \/ BadRequest(r)
             \/ Lock(r) \/ Verify(r) \/ Setup(r) \/ Login(r) \/ ChangePassword(r)
             \/ RevokeOtherSessions(r) \/ Disable(r) \/ CommitFails(r) \/ DeleteSession(r)
    <3>1. UNCHANGED Limiters
      BY <2>5 DEF ReadEnabled, AuthenticateSession, Refuse, BadRequest, Lock, Verify, Setup,
                  Login, ChangePassword, RevokeOtherSessions, Disable, CommitFails, DeleteSession
    <3>2. \E place : Proceed(r, place) \/ Reply(r)
      BY <2>5 DEF ReadEnabled, AuthenticateSession, Refuse, BadRequest, Lock, Verify, Setup,
                  Login, ChangePassword, RevokeOtherSessions, Disable, CommitFails, DeleteSession,
                  Unlock
    <3> QED BY <3>1, <3>2, ProceedOrReply, QuietCount
  <2> QED BY <1>1, <2>1, <2>2, <2>3, <2>4, <2>5 DEF LocalLoginStep
<1>2. ASSUME NEW k \in Keys, WindowEnds(k) PROVE CountInv'
  BY <1>2, CountOfDrop DEF WindowEnds
<1>3. ASSUME UNCHANGED <<call, attempts, guesses>> PROVE CountInv'
  BY <1>3, FewerCounted DEF CountInv, Counted
<1>4. ASSUME NEW t \in Tokens, SessionExpires(t) PROVE CountInv'
  BY <1>3, <1>4 DEF SessionExpires, Limiters
<1>5. CASE LoginCrash
  <2> SUFFICES ASSUME NEW k \in Keys PROVE CountsAdmitted(k)'
    BY DEF CountInv
  <2>1. Counted(k)' = {}
    BY <1>5 DEF LoginCrash, Counted, NoCall
  <2> QED BY <1>5, <2>1, NoneCounted DEF LoginCrash
<1>6. CASE UNCHANGED loginVars
  BY <1>3, <1>6 DEF loginVars
<1> QED BY <1>1, <1>2, <1>4, <1>5, <1>6 DEF LoginNext

\* The limiter bounds what can be guessed: however many requests arrive at
\* once, the store is asked about at most Attempts wrong passwords for one
\* client, or for one session, in a window.
THEOREM GuessingIsLimited == LoginSpec => []GuessesAreBounded
<1>1. LoginInit => CountInv
  <2> SUFFICES ASSUME LoginInit, NEW k \in Keys PROVE CountsAdmitted(k)
    BY DEF CountInv
  <2>1. Counted(k) = {}
    BY DEF LoginInit, Counted, NoCall
  <2> QED BY <2>1, FS_EmptySet DEF LoginInit, CountsAdmitted
<1>2. LoginTypeOK /\ CountInv /\ [LoginNext]_loginVars => CountInv'
  BY StepKeepsCount
<1>3. LoginTypeOK /\ CountInv => GuessesAreBounded
  <2> SUFFICES ASSUME LoginTypeOK, CountInv, NEW k \in Keys PROVE guesses[k] <= Attempts
    BY DEF GuessesAreBounded
  <2>1. IsFiniteSet(Counted(k)) /\ guesses[k] + Cardinality(Counted(k)) <= attempts[k]
    BY DEF CountInv, CountsAdmitted
  <2>2. Cardinality(Counted(k)) \in Nat
    BY <2>1, FS_CardinalityType
  <2> QED BY <2>1, <2>2, LoginAssumption DEF LoginTypeOK
<1> QED BY <1>1, <1>2, <1>3, LoginTypeCorrect, PTL DEF LoginSpec

-----------------------------------------------------------------------------
(***************************************************************************)
(* Proofs about TunnelIngress, for any number of requests, tunnels, host   *)
(* names and rules.                                                        *)
(*                                                                         *)
(* The theorems are about lists of any length.  What they rest on: every   *)
(* edit makes a list of rules out of a list of rules, and unless it makes  *)
(* the empty one a catch-all is last (AddedIsList and the lemmas after     *)
(* it); and the edit a request holds fits the list it has read             *)
(* (EditsFit), so that a position never points outside of it.  That an     *)
(* edit nothing overtook does what the user saw is shown for each of the   *)
(* four operations (AddIsExact and the lemmas after it).                   *)
(***************************************************************************)
Rules == [id : 0..MaxRules, host : Hosts \cup {NoHost}]

PageTypes ==
  [pc: {"idle", "shown", "sent", "read", "dns", "record"}, manager: BOOLEAN,
   tunnel: Tunnels \cup {NoTunnel}, shown: Lists, op: EditOps, at: Nat,
   order: Seq(Nat), rule: Rules, read: Lists]

\* The position and the order of an edit come from the page, and an update is of
\* the rule the page shows there.
FromPage(e) ==
  /\ e.op \in {"update", "delete"} => e.at >= 1
  /\ e.op = "update" => e.at \in DOMAIN e.shown /\ e.rule.id = e.shown[e.at].id
  /\ e.op = "reorder" => e.order \in [1..Len(e.order) -> 1..Len(e.order)]

EditFits(e) ==
  /\ e.pc # "idle" => e.tunnel \in Tunnels
  /\ e.pc \in {"sent", "read"} => FromPage(e)
  /\ e.pc = "read" => Fits(e)
  /\ e.pc \in {"dns", "record"} => e.rule.host \in Hosts

EditsFit == edit \in [EditRequests -> PageTypes] /\ \A r \in EditRequests : EditFits(edit[r])

IngressInv == /\ IngressTypeOK /\ rules \in 1..MaxRules /\ EditsFit
              /\ CatchAllStaysLast

-----------------------------------------------------------------------------
(***************************************************************************)
(* What an edit makes of a list.                                           *)
(***************************************************************************)
LEMMA ListsAreSequences == Lists = Seq(Rules)
  BY DEF Lists, Rules

LEMMA CatchAllIsRule == CatchAll \in Rules /\ CatchAll.host = NoHost
  BY IngressAssumption DEF CatchAll, Rule, Rules

\* A list that the code is about to send is complete.
Complete(list) == list \in Lists /\ (list = <<>> \/ hasCatchAll(list))

\* ensureCatchAll completes every list.
LEMMA EnsureCompletes ==
  ASSUME NEW list \in Lists
  PROVE  Complete(ensureCatchAll(list))
<1>1. list \in Seq(Rules)
  BY ListsAreSequences
<1>2. CASE hasCatchAll(list)
  BY <1>2 DEF ensureCatchAll, Complete
<1>3. CASE ~hasCatchAll(list)
  <2> DEFINE longer == Append(list, CatchAll)
  <2>1. /\ longer \in Seq(Rules) /\ Len(longer) = Len(list) + 1
        /\ longer[Len(list) + 1] = CatchAll
    BY <1>1, CatchAllIsRule, AppendProperties
  <2>2. longer # <<>>
    BY <1>1, <2>1, EmptySeq, LenProperties
  <2>3. hasCatchAll(longer)
    BY <2>1, <2>2, CatchAllIsRule DEF hasCatchAll, Last
  <2> QED
    BY <1>3, <2>1, <2>3, ListsAreSequences DEF ensureCatchAll, Complete
<1> QED
  BY <1>2, <1>3

LEMMA AddedIsList ==
  ASSUME NEW list \in Lists, NEW rule \in Rules
  PROVE  Complete(Added(list, rule))
<1>1. list \in Seq(Rules)
  BY ListsAreSequences
<1>2. CASE hasCatchAll(list)
  <2>1. Len(list) \in Nat \ {0} /\ Last(list) \in Rules
    BY <1>1, <1>2, EmptySeq, ElementOfSeq DEF hasCatchAll, Last
  <2>2. \A i \in 1..(Len(list) - 1) : list[i] \in Rules
    BY <1>1, <2>1, ElementOfSeq
  <2>3. Front(list) \in Seq(Rules)
    BY <2>1, <2>2, SubSeqProperties DEF Front
  <2>4. <<rule, Last(list)>> \in Seq(Rules)
    BY <2>1
  <2>5. Front(list) \o <<rule, Last(list)>> \in Lists
    BY <2>3, <2>4, ConcatProperties, ListsAreSequences
  <2> QED
    BY <1>2, <2>5, EnsureCompletes DEF Added
<1>3. CASE ~hasCatchAll(list)
  <2>1. Append(list, rule) \in Lists
    BY <1>1, AppendProperties, ListsAreSequences
  <2> QED
    BY <1>3, <2>1, EnsureCompletes DEF Added
<1> QED
  BY <1>2, <1>3

LEMMA UpdatedIsList ==
  ASSUME NEW list \in Lists, NEW i \in 1..Len(list), NEW h \in Hosts \cup {NoHost}
  PROVE  Complete(Updated(list, i, h))
<1>1. list \in Seq(Rules) /\ list[i] \in Rules
  BY ListsAreSequences, ElementOfSeq
<1>2. [list[i] EXCEPT !.host = h] \in Rules
  BY <1>1 DEF Rules
<1>3. [list EXCEPT ![i].host = h] = [list EXCEPT ![i] = [list[i] EXCEPT !.host = h]]
  OBVIOUS
<1>4. [list EXCEPT ![i].host = h] \in Lists
  BY <1>1, <1>2, <1>3, ExceptSeq, ListsAreSequences
<1> QED
  BY <1>4, EnsureCompletes DEF Updated

LEMMA DeletedIsList ==
  ASSUME NEW list \in Lists, NEW i \in 1..Len(list)
  PROVE  Complete(Deleted(list, i))
<1>1. list \in Seq(Rules) /\ Len(list) \in Nat
  BY ListsAreSequences, LenProperties
<1>2. \A k \in 1..Len(list) : list[k] \in Rules
  BY <1>1, ElementOfSeq
<1>3. SubSeq(list, 1, i - 1) \in Seq(Rules)
  <2>1. i - 1 \in Int /\ \A k \in 1..(i - 1) : list[k] \in Rules
    BY <1>1, <1>2
  <2> QED
    BY <2>1, SubSeqProperties
<1>4. SubSeq(list, i + 1, Len(list)) \in Seq(Rules)
  <2>1. i + 1 \in Int /\ \A k \in (i + 1)..Len(list) : list[k] \in Rules
    BY <1>1, <1>2
  <2> QED
    BY <1>1, <2>1, SubSeqProperties
<1>5. RemoveAt(list, i) \in Lists
  BY <1>3, <1>4, ConcatProperties, ListsAreSequences DEF RemoveAt
<1> QED
  BY <1>5, EnsureCompletes DEF Deleted

LEMMA ReorderedIsList ==
  ASSUME NEW list \in Lists, NEW order \in Seq(Nat), Len(order) = Len(list),
         order \in [1..Len(order) -> 1..Len(order)]
  PROVE  Complete(Reordered(list, order))
<1>1. list \in Seq(Rules) /\ Len(list) \in Nat
  BY ListsAreSequences, LenProperties
<1>2. CASE order = <<>>
  BY <1>2, EmptySeq, ListsAreSequences DEF Reordered, Complete
<1>3. CASE order # <<>>
  <2> DEFINE moved == [k \in DOMAIN order |-> list[order[k]]]
  <2>1. DOMAIN order = 1..Len(list) /\ \A k \in 1..Len(list) : order[k] \in 1..Len(list)
    BY LenProperties
  <2>2. moved \in [1..Len(list) -> Rules]
    BY <1>1, <2>1, ElementOfSeq
  <2>3. moved \in Lists
    BY <1>1, <2>2, SeqDef, ListsAreSequences
  <2> HIDE DEF moved
  <2>4. Complete(ensureCatchAll(moved))
    BY <2>3, EnsureCompletes
  <2> QED
    BY <1>3, <2>4 DEF Reordered, moved
<1> QED
  BY <1>2, <1>3

\* Whatever the edit and whatever list it meets, what is sent is complete.
LEMMA ResultIsComplete ==
  ASSUME NEW e \in PageTypes, FromPage(e), Fits(e)
  PROVE  Complete(Result(e))
<1>1. e.read \in Lists /\ e.rule \in Rules /\ e.at \in Nat /\ e.order \in Seq(Nat)
      /\ e.op \in {"add", "update", "delete", "reorder"}
  BY DEF PageTypes, EditOps
<1>2. Len(e.read) \in Nat
  BY <1>1, ListsAreSequences, LenProperties
<1>3. CASE e.op = "add"
  BY <1>1, <1>3, AddedIsList DEF Result
<1>4. CASE e.op = "update"
  <2>1. e.at \in 1..Len(e.read) /\ e.rule.host \in Hosts \cup {NoHost}
    BY <1>1, <1>2, <1>4 DEF Fits, FromPage, Rules
  <2> QED
    BY <1>1, <1>4, <2>1, UpdatedIsList DEF Result
<1>5. CASE e.op = "delete"
  <2>1. e.at \in 1..Len(e.read)
    BY <1>1, <1>2, <1>5 DEF Fits, FromPage
  <2> QED
    BY <1>1, <1>5, <2>1, DeletedIsList DEF Result
<1>6. CASE e.op = "reorder"
  <2>1. Len(e.order) = Len(e.read) /\ e.order \in [1..Len(e.order) -> 1..Len(e.order)]
    BY <1>6 DEF Fits, FromPage
  <2> QED
    BY <1>1, <1>6, <2>1, ReorderedIsList DEF Result
<1> QED
  BY <1>1, <1>3, <1>4, <1>5, <1>6

-----------------------------------------------------------------------------
(***************************************************************************)
(* The invariant.                                                          *)
(***************************************************************************)
LEMMA PageFits == Page \in PageTypes /\ EditFits(Page)
<1>1. <<>> \in Lists /\ <<>> \in Seq(Nat)
  BY EmptySeq, ListsAreSequences
<1> QED
  BY <1>1, CatchAllIsRule DEF Page, PageTypes, EditFits, EditOps

LEMMA IngressInitiallyInv == IngressInit => IngressInv
<1> SUFFICES ASSUME IngressInit PROVE IngressInv
  OBVIOUS
<1>1. ASSUME NEW h \in Hosts
      PROVE  <<Rule(1, h), CatchAll>> \in Lists /\ hasCatchAll(<<Rule(1, h), CatchAll>>)
  <2>1. Rule(1, h) \in Rules
    BY IngressAssumption DEF Rule, Rules
  <2>2. <<Rule(1, h), CatchAll>> \in Seq(Rules)
    BY <2>1, CatchAllIsRule
  <2> QED
    BY <2>2, ListsAreSequences, CatchAllIsRule DEF hasCatchAll, Last
<1>2. <<>> \in Lists
  BY EmptySeq, ListsAreSequences
<1>3. remote \in [Tunnels -> Lists]
      /\ \A t \in Tunnels : remote[t] = <<>> \/ hasCatchAll(remote[t])
  BY <1>1, <1>2 DEF IngressInit
<1>4. EditsFit
  BY PageFits DEF IngressInit, EditsFit
<1>5. IngressTypeOK
  BY <1>3, <1>4 DEF IngressInit, IngressTypeOK, EditsFit, PageTypes
<1> QED
  BY <1>3, <1>4, <1>5, IngressAssumption DEF IngressInit, IngressInv, CatchAllStaysLast

\* Request r takes the edit e.
LEMMA OneEditChanges ==
  ASSUME EditsFit, NEW r \in EditRequests, NEW e \in PageTypes, EditFits(e), Send(r, e)
  PROVE  EditsFit'
<1>1. edit' \in [EditRequests -> PageTypes]
  BY DEF EditsFit, Send
<1>2. \A q \in EditRequests : EditFits(edit'[q])
  BY DEF EditsFit, Send
<1> QED
  BY <1>1, <1>2 DEF EditsFit, EditFits, FromPage, Fits, hasCatchAll, Last

\* Steps that change at most the edits.
LEMMA QuietStep ==
  ASSUME IngressInv, EditsFit', UNCHANGED <<remote, dns, configured>>, rules' \in 1..MaxRules
  PROVE  IngressInv'
<1>1. IngressTypeOK'
  BY DEF IngressInv, IngressTypeOK, EditsFit, PageTypes
<1>2. CatchAllStaysLast'
  BY DEF IngressInv, CatchAllStaysLast
<1> QED
  BY <1>1, <1>2 DEF IngressInv

LEMMA IngressStepKeepsInv == IngressInv /\ [IngressNext]_ingressVars => IngressInv'
<1> SUFFICES ASSUME IngressInv, [IngressNext]_ingressVars PROVE IngressInv'
  OBVIOUS
<1> USE DEF SettingsSame, EditOnly
<1>0. IngressTypeOK /\ rules \in 1..MaxRules /\ EditsFit /\ CatchAllStaysLast
  BY DEF IngressInv
<1>10. ASSUME NEW r \in EditRequests PROVE edit[r] \in PageTypes /\ EditFits(edit[r])
  BY <1>0, <1>10 DEF EditsFit
<1>1. ASSUME NEW r \in EditRequests, NEW t \in Tunnels, NEW m \in BOOLEAN, FetchPage(r, t, m)
      PROVE  IngressInv'
  <2> DEFINE e == [Page EXCEPT !.pc = "shown", !.manager = m, !.tunnel = t, !.shown = remote[t]]
  <2>1. remote[t] \in Lists
    BY <1>0 DEF IngressTypeOK
  <2>2. e \in PageTypes
    BY <2>1, PageFits DEF Page, PageTypes
  <2>3. EditFits(e)
    BY DEF Page, EditFits
  <2>4. Send(r, e)
    BY <1>1 DEF FetchPage
  <2> HIDE DEF e
  <2>5. EditsFit'
    BY <1>0, <2>2, <2>3, <2>4, OneEditChanges
  <2> QED
    BY <1>0, <1>1, <2>5, QuietStep DEF FetchPage
<1>2. ASSUME NEW r \in EditRequests, NEW h \in Hosts \cup {NoHost}, SendAdd(r, h)
      PROVE  IngressInv'
  <2> DEFINE e == [edit[r] EXCEPT !.pc = "sent", !.op = "add", !.rule = Rule(rules', h)]
  <2>1. rules' \in 1..MaxRules
    BY <1>0, <1>2, IngressAssumption DEF SendAdd
  <2>2. Rule(rules', h) \in Rules
    BY <2>1, IngressAssumption DEF Rule, Rules
  <2>3. e \in PageTypes
    BY <1>10, <2>2 DEF PageTypes, EditOps
  <2>4. EditFits(e)
    BY <1>2, <1>10 DEF SendAdd, EditFits, FromPage, PageTypes
  <2>5. Send(r, e)
    BY <1>2 DEF SendAdd
  <2> HIDE DEF e
  <2>6. EditsFit'
    BY <1>0, <2>3, <2>4, <2>5, OneEditChanges
  <2> QED
    BY <1>0, <1>2, <2>1, <2>6, QuietStep DEF SendAdd
<1>3. ASSUME NEW r \in EditRequests, NEW i \in DOMAIN edit[r].shown,
             NEW h \in Hosts \cup {NoHost}, SendUpdate(r, i, h)
      PROVE  IngressInv'
  <2> DEFINE rule == Rule(edit[r].shown[i].id, h)
             e == [edit[r] EXCEPT !.pc = "sent", !.op = "update", !.at = i, !.rule = rule]
  <2>1. edit[r].shown \in Seq(Rules)
    BY <1>10, ListsAreSequences DEF PageTypes
  <2>2. i \in 1..Len(edit[r].shown) /\ i \in Nat /\ i >= 1
    BY <2>1, LenProperties
  <2>3. edit[r].shown[i] \in Rules
    BY <2>1, <2>2, ElementOfSeq
  <2>4. rule \in Rules /\ rule.id = edit[r].shown[i].id
    BY <2>3 DEF Rule, Rules
  <2> HIDE DEF rule
  <2>5. e \in PageTypes
    BY <1>10, <2>2, <2>4 DEF PageTypes, EditOps
  <2>6. EditFits(e)
    BY <1>3, <1>10, <2>2, <2>4 DEF SendUpdate, EditFits, FromPage, PageTypes
  <2>7. Send(r, e)
    BY <1>3 DEF SendUpdate, rule
  <2> HIDE DEF e
  <2>8. EditsFit'
    BY <1>0, <2>5, <2>6, <2>7, OneEditChanges
  <2> QED
    BY <1>0, <1>3, <2>8, QuietStep DEF SendUpdate
<1>4. ASSUME NEW r \in EditRequests, NEW i \in DOMAIN edit[r].shown, SendDelete(r, i)
      PROVE  IngressInv'
  <2> DEFINE e == [edit[r] EXCEPT !.pc = "sent", !.op = "delete", !.at = i,
                                  !.rule = edit[r].shown[i]]
  <2>1. edit[r].shown \in Seq(Rules)
    BY <1>10, ListsAreSequences DEF PageTypes
  <2>2. i \in 1..Len(edit[r].shown) /\ i \in Nat /\ i >= 1
    BY <2>1, LenProperties
  <2>3. edit[r].shown[i] \in Rules
    BY <2>1, <2>2, ElementOfSeq
  <2>4. e \in PageTypes
    BY <1>10, <2>2, <2>3 DEF PageTypes, EditOps
  <2>5. EditFits(e)
    BY <1>4, <1>10, <2>2 DEF SendDelete, EditFits, FromPage, PageTypes
  <2>6. Send(r, e)
    BY <1>4 DEF SendDelete
  <2> HIDE DEF e
  <2>7. EditsFit'
    BY <1>0, <2>4, <2>5, <2>6, OneEditChanges
  <2> QED
    BY <1>0, <1>4, <2>7, QuietStep DEF SendDelete
<1>5. ASSUME NEW r \in EditRequests, NEW order \in OrdersOf(Len(edit[r].shown)),
             SendReorder(r, order)
      PROVE  IngressInv'
  <2> DEFINE n == Len(edit[r].shown)
             e == [edit[r] EXCEPT !.pc = "sent", !.op = "reorder", !.order = order]
  <2>1. n \in Nat
    BY <1>10, ListsAreSequences, LenProperties DEF PageTypes
  <2>2. order \in [1..n -> 1..n]
    BY DEF OrdersOf
  <2> HIDE DEF n
  <2>3. order \in [1..n -> Nat]
    BY <2>1, <2>2
  <2>4. order \in Seq(Nat)
    BY <2>1, <2>3, SeqDef
  <2>5. Len(order) = n
    BY <2>1, <2>3, <2>4, LenProperties
  <2>6. e \in PageTypes
    BY <1>10, <2>4 DEF PageTypes, EditOps
  <2>7. EditFits(e)
    BY <1>5, <1>10, <2>2, <2>5 DEF SendReorder, EditFits, FromPage, PageTypes
  <2>8. Send(r, e)
    BY <1>5 DEF SendReorder
  <2> HIDE DEF e
  <2>9. EditsFit'
    BY <1>0, <2>6, <2>7, <2>8, OneEditChanges
  <2> QED
    BY <1>0, <1>5, <2>9, QuietStep DEF SendReorder
<1>6. ASSUME NEW r \in EditRequests, ReadRemote(r) PROVE IngressInv'
  <2> DEFINE e == [edit[r] EXCEPT !.read = remote[TunnelOf(edit[r])]]
             f == [e EXCEPT !.pc = "read", !.tunnel = TunnelOf(e)]
  <2>1. TunnelOf(edit[r]) \in Tunnels
    BY <1>0, <1>6, <1>10 DEF ReadRemote, TunnelOf, IngressTypeOK, EditFits
  <2>2. remote[TunnelOf(edit[r])] \in Lists
    BY <1>0, <2>1 DEF IngressTypeOK
  <2>3. TunnelOf(e) = TunnelOf(edit[r])
    BY <1>10 DEF TunnelOf, PageTypes
  <2>4. e \in PageTypes /\ f \in PageTypes
    BY <1>10, <2>1, <2>2, <2>3 DEF PageTypes
  <2>5. Fits(e) => EditFits(f)
    BY <1>6, <1>10, <2>1, <2>3 DEF ReadRemote, EditFits, FromPage, Fits, PageTypes
  <2>6. Send(r, IF Fits(e) THEN f ELSE Page)
    BY <1>6 DEF ReadRemote
  <2> HIDE DEF e, f
  <2>7. EditsFit'
    BY <1>0, <2>4, <2>5, <2>6, PageFits, OneEditChanges
  <2> QED
    BY <1>0, <1>6, <2>7, QuietStep DEF ReadRemote
<1>7. ASSUME NEW r \in EditRequests, WriteRemote(r) PROVE IngressInv'
  <2> DEFINE f == [edit[r] EXCEPT !.pc = "dns"]
  <2>1. Complete(Result(edit[r]))
    BY <1>7, <1>10, ResultIsComplete DEF WriteRemote, EditFits
  <2>2. remote' = [remote EXCEPT ![edit[r].tunnel] = Result(edit[r])]
    BY <1>7 DEF WriteRemote
  <2>3. remote' \in [Tunnels -> Lists] /\ CatchAllStaysLast'
    BY <1>0, <2>1, <2>2 DEF IngressTypeOK, CatchAllStaysLast, Complete
  <2>4. Send(r, Page) \/ (Send(r, f) /\ edit[r].rule.host # NoHost)
    BY <1>7 DEF WriteRemote
  <2>5. f \in PageTypes
    BY <1>10 DEF PageTypes
  <2>6. edit[r].rule.host # NoHost => EditFits(f)
    BY <1>7, <1>10 DEF WriteRemote, EditFits, PageTypes, Rules
  <2> HIDE DEF f
  <2>7. EditsFit'
    BY <1>0, <2>4, <2>5, <2>6, PageFits, OneEditChanges
  <2>8. IngressTypeOK'
    BY <1>0, <1>7, <2>3, <2>7 DEF WriteRemote, IngressTypeOK, EditsFit, PageTypes
  <2> QED
    BY <1>0, <1>7, <2>3, <2>7, <2>8 DEF WriteRemote, IngressInv
<1>8. ASSUME NEW r \in EditRequests, BeginDNS(r) PROVE IngressInv'
  <2> DEFINE f == [edit[r] EXCEPT !.pc = "record", !.tunnel = configured]
  <2>1. f \in PageTypes
    BY <1>0, <1>10 DEF PageTypes, IngressTypeOK
  <2>2. EditFits(f)
    BY <1>0, <1>8, <1>10 DEF BeginDNS, EditFits, PageTypes, IngressTypeOK
  <2>3. Send(r, f)
    BY <1>8 DEF BeginDNS
  <2> HIDE DEF f
  <2>4. EditsFit'
    BY <1>0, <2>1, <2>2, <2>3, OneEditChanges
  <2> QED
    BY <1>0, <1>8, <2>4, QuietStep DEF BeginDNS
<1>9. ASSUME NEW r \in EditRequests, Answered(r) PROVE EditsFit'
  BY <1>0, <1>9, PageFits, OneEditChanges DEF Answered, Send
<1>11. ASSUME NEW r \in EditRequests, WriteDNS(r) PROVE IngressInv'
  <2>1. EditsFit'
    BY <1>9, <1>11 DEF WriteDNS
  <2>2. edit[r].tunnel \in Tunnels
    BY <1>10, <1>11 DEF WriteDNS, EditFits
  <2>3. dns' \in [Hosts -> Tunnels \cup {NoTunnel}]
    BY <1>0, <1>11, <2>2 DEF WriteDNS, IngressTypeOK
  <2>4. IngressTypeOK'
    BY <1>0, <1>11, <2>1, <2>3 DEF WriteDNS, IngressTypeOK, EditsFit, PageTypes
  <2> QED
    BY <1>0, <1>11, <2>1, <2>4 DEF WriteDNS, IngressInv, CatchAllStaysLast
<1>12. ASSUME NEW r \in EditRequests, CallFails(r) PROVE IngressInv'
  BY <1>0, <1>9, <1>12, QuietStep DEF CallFails
<1>13. ASSUME NEW t \in Tunnels, ChangeTunnel(t) PROVE IngressInv'
  <2>1. EditsFit'
    BY <1>0, <1>13 DEF ChangeTunnel, EditsFit, EditFits, FromPage, Fits, hasCatchAll, Last
  <2>2. IngressTypeOK'
    BY <1>0, <1>13 DEF ChangeTunnel, IngressTypeOK
  <2> QED
    BY <1>0, <1>13, <2>1, <2>2 DEF ChangeTunnel, IngressInv, CatchAllStaysLast
<1>14. CASE UNCHANGED ingressVars
  <2>1. EditsFit'
    BY <1>0, <1>14 DEF ingressVars, EditsFit, EditFits, FromPage, Fits, hasCatchAll, Last
  <2> QED
    BY <1>0, <1>14, <2>1, QuietStep DEF ingressVars
<1> QED
  BY <1>1, <1>2, <1>3, <1>4, <1>5, <1>6, <1>7, <1>8, <1>11, <1>12, <1>13, <1>14
  DEF IngressNext

-----------------------------------------------------------------------------
(***************************************************************************)
(* The theorems.                                                           *)
(***************************************************************************)
LEMMA IngressInvHolds == IngressSpec => []IngressInv
  BY IngressInitiallyInv, IngressStepKeepsInv, PTL DEF IngressSpec

\* The lists that Cloudflare stores, and those the two handlers hold, are lists
\* of rules whatever positions and orders the pages name.
THEOREM IngressTypeCorrect == IngressSpec => []IngressTypeOK
<1>1. IngressInv => IngressTypeOK
  BY DEF IngressInv
<1> QED
  BY IngressInvHolds, <1>1, PTL

\* Neither the manager nor the console ever leaves a tunnel with rules of which
\* the last is not a catch-all, as Cloudflare requires.
THEOREM CatchAllIsLast == IngressSpec => []CatchAllStaysLast
<1>1. IngressInv => CatchAllStaysLast
  BY DEF IngressInv
<1> QED
  BY IngressInvHolds, <1>1, PTL
-----------------------------------------------------------------------------
(***************************************************************************)
(* An edit that nothing overtook does what the user saw.                   *)
(***************************************************************************)
LEMMA RulesOfList ==
  ASSUME NEW list \in Lists
  PROVE  /\ list \in Seq(Rules) /\ Len(list) \in Nat /\ DOMAIN list = 1..Len(list)
         /\ \A i \in 1..Len(list) : list[i] \in Rules
<1>1. list \in Seq(Rules)
  BY ListsAreSequences
<1> QED
  BY <1>1, LenProperties, ElementOfSeq

\* ensureCatchAll appends at most one rule, a catch-all, and moves none.
LEMMA EnsureKeeps ==
  ASSUME NEW list \in Lists
  PROVE  /\ ensureCatchAll(list) \in Lists
         /\ Len(ensureCatchAll(list)) \in {Len(list), Len(list) + 1}
         /\ \A i \in 1..Len(list) : ensureCatchAll(list)[i] = list[i]
         /\ NoMore(ensureCatchAll(list), Len(list))
<1>1. ensureCatchAll(list) \in Lists
  BY EnsureCompletes DEF Complete
<1>2. CASE hasCatchAll(list)
  BY <1>1, <1>2 DEF ensureCatchAll, NoMore
<1>3. CASE ~hasCatchAll(list)
  <2>1. list \in Seq(Rules)
    BY RulesOfList
  <2> QED
    BY <1>1, <1>3, <2>1, CatchAllIsRule, AppendProperties DEF ensureCatchAll, NoMore
<1> QED
  BY <1>2, <1>3

LEMMA AddIsExact ==
  ASSUME NEW e \in PageTypes, e.op = "add", e.read = e.shown
  PROVE  Intended(e, Result(e))
<1> DEFINE list == e.shown
           n == Len(list)
<1>1. list \in Lists /\ e.rule \in Rules
  BY DEF PageTypes
<1>2. /\ list \in Seq(Rules) /\ n \in Nat /\ DOMAIN list = 1..n
      /\ \A i \in 1..n : list[i] \in Rules
  BY <1>1, RulesOfList
<1>3. Result(e) = Added(list, e.rule)
  BY DEF Result
<1> HIDE DEF list, n
\* The new rule goes before the catch-all, which stays last.
<1>4. CASE hasCatchAll(list)
  <2> DEFINE front == SubSeq(list, 1, n - 1)
             tail  == <<e.rule, list[n]>>
             new   == front \o tail
  <2>1. n >= 1 /\ list[n].host = NoHost /\ list[n] \in Rules
    <3>1. n # 0
      BY <1>2, <1>4, EmptySeq DEF hasCatchAll, n
    <3> QED BY <1>2, <1>4, <3>1 DEF hasCatchAll, Last, n
  <2>2. /\ front \in Seq(Rules) /\ Len(front) = n - 1
        /\ \A i \in 1..(n - 1) : front[i] = list[i]
    <3>1. \A i \in 1..(n - 1) : list[i] \in Rules
      BY <1>2
    <3>2. /\ front \in Seq(Rules) /\ Len(front) = IF 1 <= n - 1 THEN (n - 1) - 1 + 1 ELSE 0
          /\ \A i \in 1..((n - 1) - 1 + 1) : front[i] = list[1 + i - 1]
      BY <1>2, <3>1, SubSeqProperties
    <3> QED BY <1>2, <2>1, <3>2
  <2>3. tail \in Seq(Rules) /\ Len(tail) = 2 /\ tail[1] = e.rule /\ tail[2] = list[n]
    BY <1>1, <2>1
  <2> HIDE DEF front, tail
  <2>4. /\ new \in Seq(Rules) /\ Len(new) = n + 1
        /\ \A i \in 1..(n + 1) : new[i] = IF i <= n - 1 THEN front[i] ELSE tail[i - (n - 1)]
    <3>1. /\ new \in Seq(Rules) /\ Len(new) = Len(front) + Len(tail)
          /\ \A i \in 1..(Len(front) + Len(tail)) :
               new[i] = IF i <= Len(front) THEN front[i] ELSE tail[i - Len(front)]
      BY <2>2, <2>3, ConcatProperties
    <3>2. Len(front) + Len(tail) = n + 1
      BY <1>2, <2>2, <2>3
    <3> QED BY <2>2, <3>1, <3>2
  <2>5. new[n] = e.rule /\ new[n + 1] = list[n] /\ \A i \in 1..(n - 1) : new[i] = list[i]
    BY <1>2, <2>1, <2>2, <2>3, <2>4
  <2>6. hasCatchAll(new)
    BY <1>2, <2>1, <2>4, <2>5, EmptySeq DEF hasCatchAll, Last
  <2>7. Added(list, e.rule) = new
    BY <1>4, <2>6 DEF Added, ensureCatchAll, Front, Last, front, tail, n
  <2>8. DOMAIN new = 1..(n + 1)
    BY <2>4, LenProperties
  <2> HIDE DEF new
  <2>9. \A i \in DOMAIN list : new[IF i < n THEN i ELSE i + 1] = list[i]
    BY <1>2, <2>1, <2>5
  <2>10. /\ NoMore(new, n + 1) /\ n \in DOMAIN new
         /\ new[n] = e.rule /\ n >= Len(new) - 1
    BY <1>2, <2>1, <2>4, <2>5, <2>8 DEF NoMore
  <2> QED
    BY <1>3, <2>7, <2>9, <2>10 DEF Intended, list, n
\* Without a catch-all it goes last, and one may follow.
<1>5. CASE ~hasCatchAll(list)
  <2> DEFINE longer == Append(list, e.rule)
             new == ensureCatchAll(longer)
  <2>1. /\ longer \in Seq(Rules) /\ Len(longer) = n + 1 /\ longer[n + 1] = e.rule
        /\ \A i \in 1..n : longer[i] = list[i]
    BY <1>1, <1>2, AppendProperties DEF n
  <2> HIDE DEF longer
  <2>2. /\ new \in Lists /\ Len(new) \in {n + 1, n + 2}
        /\ \A i \in 1..(n + 1) : new[i] = longer[i]
    BY <1>2, <2>1, EnsureKeeps, ListsAreSequences
  <2>3. DOMAIN new = 1..Len(new)
    BY <2>2, RulesOfList
  <2>4. Added(list, e.rule) = new
    BY <1>5 DEF Added, longer
  <2> HIDE DEF new
  <2>5. \A i \in DOMAIN list : new[IF i < n + 1 THEN i ELSE i + 1] = list[i]
    BY <1>2, <2>1, <2>2
  <2>6. n + 1 \in DOMAIN new /\ new[n + 1] = e.rule /\ n + 1 >= Len(new) - 1
    <3>1. n \in Nat /\ Len(new) \in {n + 1, n + 2} /\ DOMAIN new = 1..Len(new)
      BY <1>2, <2>2, <2>3
    <3>2. n + 1 \in 1..(n + 1) /\ n + 1 \in 1..Len(new) /\ n + 1 >= Len(new) - 1
      BY <3>1
    <3>3. new[n + 1] = e.rule
      BY <2>1, <2>2, <3>2
    <3> QED BY <3>1, <3>2, <3>3
  <2>7. NoMore(new, n + 1)
    BY <2>1, EnsureKeeps, ListsAreSequences DEF new
  <2> QED
    BY <1>3, <2>4, <2>5, <2>6, <2>7 DEF Intended, list, n
<1> QED
  BY <1>4, <1>5

LEMMA UpdateIsExact ==
  ASSUME NEW e \in PageTypes, e.op = "update", FromPage(e), e.read = e.shown
  PROVE  Intended(e, Result(e))
<1> DEFINE changed == [e.shown EXCEPT ![e.at].host = e.rule.host]
<1>1. e.shown \in Lists /\ e.rule \in Rules
  BY DEF PageTypes
<1>2. /\ e.shown \in Seq(Rules) /\ DOMAIN e.shown = 1..Len(e.shown) /\ Len(e.shown) \in Nat
      /\ \A i \in 1..Len(e.shown) : e.shown[i] \in Rules
  BY <1>1, RulesOfList
<1>3. e.at \in 1..Len(e.shown) /\ e.rule.id = e.shown[e.at].id
  BY <1>2 DEF FromPage
<1>4. [e.shown[e.at] EXCEPT !.host = e.rule.host] = e.rule
  BY <1>1, <1>2, <1>3 DEF Rules
<1>5. changed = [e.shown EXCEPT ![e.at] = e.rule]
  BY <1>4
<1>6. changed \in Seq(Rules) /\ Len(changed) = Len(e.shown)
  BY <1>1, <1>2, <1>3, <1>5, ExceptSeq, LenProperties
<1>7. \A i \in 1..Len(e.shown) : changed[i] = IF i = e.at THEN e.rule ELSE e.shown[i]
  BY <1>2, <1>5
<1> HIDE DEF changed
<1>8. /\ \A i \in 1..Len(e.shown) : ensureCatchAll(changed)[i] = changed[i]
      /\ NoMore(ensureCatchAll(changed), Len(e.shown))
  BY <1>6, EnsureKeeps, ListsAreSequences
<1>9. Result(e) = ensureCatchAll(changed)
  BY DEF Result, Updated, changed
<1> QED
  BY <1>2, <1>7, <1>8, <1>9 DEF Intended

LEMMA DeleteIsExact ==
  ASSUME NEW e \in PageTypes, e.op = "delete", FromPage(e), Fits(e), e.read = e.shown
  PROVE  Intended(e, Result(e))
<1> DEFINE list == e.shown
           n == Len(list)
           at == e.at
           before == SubSeq(list, 1, at - 1)
           after  == SubSeq(list, at + 1, n)
           left   == before \o after
<1>1. list \in Lists /\ at \in Nat
  BY DEF PageTypes
<1>2. /\ n \in Nat /\ DOMAIN list = 1..n
      /\ \A i \in 1..n : list[i] \in Rules
  BY <1>1, RulesOfList
<1>3. at \in 1..n
  BY <1>1, <1>2 DEF FromPage, Fits
<1>4. Result(e) = ensureCatchAll(left)
  BY DEF Result, Deleted, RemoveAt
<1> HIDE DEF list, n, at
<1>5. /\ before \in Seq(Rules) /\ Len(before) = at - 1
      /\ \A i \in 1..(at - 1) : before[i] = list[i]
  <2>1. \A i \in 1..(at - 1) : list[i] \in Rules
    BY <1>2, <1>3
  <2>2. /\ before \in Seq(Rules)
        /\ Len(before) = IF 1 <= at - 1 THEN (at - 1) - 1 + 1 ELSE 0
        /\ \A i \in 1..((at - 1) - 1 + 1) : before[i] = list[1 + i - 1]
    BY <1>2, <1>3, <2>1, SubSeqProperties
  <2> QED BY <1>2, <1>3, <2>2
<1>6. /\ after \in Seq(Rules) /\ Len(after) = n - at
      /\ \A i \in 1..(n - at) : after[i] = list[at + i]
  <2>1. \A i \in (at + 1)..n : list[i] \in Rules
    BY <1>2, <1>3
  <2>2. /\ after \in Seq(Rules)
        /\ Len(after) = IF at + 1 <= n THEN n - (at + 1) + 1 ELSE 0
        /\ \A i \in 1..(n - (at + 1) + 1) : after[i] = list[(at + 1) + i - 1]
    BY <1>2, <1>3, <2>1, SubSeqProperties
  <2> QED BY <1>2, <1>3, <2>2
<1> HIDE DEF before, after
<1>7. /\ left \in Seq(Rules) /\ Len(left) = n - 1
      /\ \A i \in 1..(n - 1) : left[i] = IF i <= at - 1 THEN before[i] ELSE after[i - (at - 1)]
  <2>1. /\ left \in Seq(Rules) /\ Len(left) = Len(before) + Len(after)
        /\ \A i \in 1..(Len(before) + Len(after)) :
             left[i] = IF i <= Len(before) THEN before[i] ELSE after[i - Len(before)]
    BY <1>5, <1>6, ConcatProperties
  <2>2. Len(before) + Len(after) = n - 1
    BY <1>2, <1>3, <1>5, <1>6
  <2> QED BY <1>5, <2>1, <2>2
<1> HIDE DEF left
<1>8. /\ \A i \in 1..(n - 1) : ensureCatchAll(left)[i] = left[i]
      /\ NoMore(ensureCatchAll(left), n - 1)
  BY <1>7, EnsureKeeps, ListsAreSequences
<1>9. ASSUME NEW i \in 1..n, i # at
      PROVE  ensureCatchAll(left)[IF i < at THEN i ELSE i - 1] = list[i]
  <2>1. CASE i < at
    <3>1. i \in 1..(n - 1) /\ i <= at - 1 /\ i \in 1..(at - 1)
      BY <1>2, <1>3, <2>1
    <3>2. ensureCatchAll(left)[i] = left[i] /\ left[i] = before[i] /\ before[i] = list[i]
      BY <1>5, <1>7, <1>8, <3>1
    <3> QED BY <2>1, <3>2
  <2>2. CASE i > at
    <3>1. i - 1 \in 1..(n - 1) /\ ~(i - 1 <= at - 1) /\ (i - 1) - (at - 1) = i - at
      BY <1>2, <1>3, <2>2
    <3>2. after[i - at] = list[i]
      BY <1>2, <1>3, <1>6, <2>2
    <3> QED BY <1>3, <1>7, <1>8, <2>2, <3>1, <3>2
  <2> QED BY <1>2, <1>3, <1>9, <2>1, <2>2
<1> QED
  BY <1>2, <1>4, <1>8, <1>9 DEF Intended, list, n, at

LEMMA ReorderIsExact ==
  ASSUME NEW e \in PageTypes, e.op = "reorder", FromPage(e), Fits(e), e.read = e.shown
  PROVE  Intended(e, Result(e))
<1> DEFINE moved == [k \in DOMAIN e.order |-> e.shown[e.order[k]]]
<1>1. e.shown \in Lists /\ e.order \in Seq(Nat)
  BY DEF PageTypes
<1>2. /\ e.shown \in Seq(Rules) /\ DOMAIN e.shown = 1..Len(e.shown) /\ Len(e.shown) \in Nat
      /\ \A i \in 1..Len(e.shown) : e.shown[i] \in Rules
  BY <1>1, RulesOfList
<1>3. /\ DOMAIN e.order = 1..Len(e.shown)
      /\ \A k \in 1..Len(e.shown) : e.order[k] \in 1..Len(e.shown)
  BY <1>1, LenProperties DEF Fits, FromPage
<1>4. moved \in [1..Len(e.shown) -> Rules]
  BY <1>2, <1>3
<1>5. moved \in Seq(Rules) /\ Len(moved) = Len(e.shown)
  <2>1. moved \in Seq(Rules)
    BY <1>2, <1>4, SeqDef
  <2> QED BY <1>2, <1>4, <2>1, LenProperties
<1>6. \A k \in 1..Len(e.shown) : moved[k] = e.shown[e.order[k]]
  BY <1>3
<1>7. CASE e.order = <<>>
  <2>1. Len(e.shown) = 0 /\ Result(e) = <<>>
    BY <1>2, <1>3, <1>7, LenProperties DEF Result, Reordered
  <2> QED BY <1>2, <2>1 DEF Intended, NoMore
<1>8. CASE e.order # <<>>
  <2>1. Result(e) = ensureCatchAll(moved)
    BY <1>8 DEF Result, Reordered
  <2> HIDE DEF moved
  <2>2. /\ \A k \in 1..Len(e.shown) : ensureCatchAll(moved)[k] = moved[k]
        /\ NoMore(ensureCatchAll(moved), Len(e.shown))
    BY <1>5, EnsureKeeps, ListsAreSequences
  <2> QED
    BY <1>2, <1>6, <2>1, <2>2 DEF Intended
<1> QED
  BY <1>7, <1>8

\* An edit of the list its page shows changes the rule the user meant and no
\* other, for lists of any length and whatever other requests do meanwhile
\* (Manager.UpdateEntryFor, DeleteEntryFor, ReorderEntriesFor).
THEOREM EditsAreExact == IngressSpec => SoloEditIsExact
<1> DEFINE Exact(r) ==
      LET e == edit[r]
      IN (e.pc = "read" /\ edit'[r] # e /\ remote' # remote /\ e.read = e.shown
          /\ remote[e.tunnel] = e.shown)
         => Intended(e, remote'[e.tunnel])
<1>1. IngressInv /\ [IngressNext]_ingressVars
        => [\A r \in EditRequests : Exact(r)]_ingressVars
  <2> SUFFICES ASSUME IngressInv, [IngressNext]_ingressVars, NEW r \in EditRequests,
                      edit[r].pc = "read", edit'[r] # edit[r], remote' # remote,
                      edit[r].read = edit[r].shown
               PROVE  Intended(edit[r], remote'[edit[r].tunnel])
    OBVIOUS
  <2>1. PICK q \in EditRequests : WriteRemote(q)
    BY DEF IngressNext, ingressVars, FetchPage, SendAdd, SendUpdate, SendDelete, SendReorder,
       ReadRemote, BeginDNS, WriteDNS, CallFails, ChangeTunnel, EditOnly
  <2>2. edit[r] \in PageTypes /\ EditFits(edit[r]) /\ remote \in [Tunnels -> Lists]
        /\ edit \in [EditRequests -> PageTypes]
    BY DEF IngressInv, EditsFit, IngressTypeOK
  <2>3. q = r
    BY <2>1, <2>2 DEF WriteRemote, Send
  <2>4. edit[r].tunnel \in Tunnels /\ FromPage(edit[r]) /\ Fits(edit[r])
    BY <2>2 DEF EditFits
  <2>5. remote'[edit[r].tunnel] = Result(edit[r])
    BY <2>1, <2>2, <2>3, <2>4 DEF WriteRemote
  <2>6. edit[r].op \in {"add", "update", "delete", "reorder"}
    BY <2>2 DEF PageTypes, EditOps
  <2>7. Intended(edit[r], Result(edit[r]))
    BY <2>2, <2>4, <2>6, AddIsExact, UpdateIsExact, DeleteIsExact, ReorderIsExact
  <2> QED
    BY <2>5, <2>7
<1> QED
  BY <1>1, IngressInvHolds, PTL DEF IngressSpec, SoloEditIsExact

-----------------------------------------------------------------------------
(***************************************************************************)
(* Proofs about ProtocolFallback, for every threshold and every limit of   *)
(* automatic restarts that is larger.                                      *)
(***************************************************************************)
\* Every run since the restart counter was zero chose its protocol in auto
\* mode and, if it has ended, ended with a transport error.
Streak == endings \subseteq {"transport"} /\ "fixed" \notin tried

\* Behind BothTriedBeforeGivingUp: while a streak has used one protocol, each
\* of its runs but a running or pending one is a failure counted against that
\* protocol, so the counter of restarts is bounded by the threshold.
NothingTried ==
  tried = {} => /\ pc # "running" /\ ~gaveUp
                /\ restartCount <= 1
                /\ pc = "ended" => restartCount = 0

OneTried ==
  Streak /\ tried # {} /\ tried # Transports =>
    /\ currentProtocol \in Transports /\ tried = {currentProtocol}
    /\ restartCount <= protocolFailures[currentProtocol] + 1
    /\ pc \in {"running", "ended", "down"} => restartCount <= Threshold
    /\ pc \in {"ended", "down"} => restartCount <= protocolFailures[currentProtocol]

StreakInv == NothingTried /\ OneTried /\ (gaveUp /\ Streak => tried = Transports)

\* Behind OnlyCurrentIsBlamed: a run starts below the threshold.
BlameInv ==
  /\ OnlyCurrentIsBlamed
  /\ alwaysAuto => /\ config = "auto"
                   /\ pc = "running" => protocolFailures[currentProtocol] < Threshold

-----------------------------------------------------------------------------
LEMMA InitType == Init => TypeOK
<1> SUFFICES ASSUME Init PROVE TypeOK
  OBVIOUS
<1>1. protocolFailures \in [Transports -> 0..MaxFailures]
  BY FallbackAssumption DEF Init
<1>2. restartCount \in 0..MaxRestarts
  BY RestartsAssumption DEF Init
<1>3. alwaysAuto \in BOOLEAN
  BY DEF Init
<1> QED
  BY <1>1, <1>2, <1>3 DEF Init, TypeOK

\* What selectProtocol returns and does to the counters: the configured
\* protocol, the other one when the current one has failed often enough, or
\* the current one.
LEMMA Selected ==
  ASSUME TypeOK, selectProtocol
  PROVE  /\ currentProtocol' \in Transports
         /\ protocolFailures' \in [Transports -> 0..MaxFailures]
         /\ config = "auto" =>
              \/ /\ currentProtocol \in Transports
                 /\ protocolFailures[currentProtocol] >= Threshold
                 /\ currentProtocol' = Other(currentProtocol)
                 /\ protocolFailures' = [protocolFailures EXCEPT ![currentProtocol] = 0]
              \/ /\ currentProtocol \in Transports =>
                      /\ protocolFailures[currentProtocol] < Threshold
                      /\ currentProtocol' = currentProtocol
                 /\ protocolFailures' = protocolFailures
<1>1. CASE config # "auto"
  BY <1>1 DEF selectProtocol, TypeOK
<1>2. CASE config = "auto" /\ FailuresOf(currentProtocol) >= Threshold
  <2>1. currentProtocol \in Transports
    BY <1>2, ThresholdAssumption DEF FailuresOf
  <2>2. 0 \in 0..MaxFailures
    BY FallbackAssumption
  <2> QED
    BY <1>2, <2>1, <2>2 DEF selectProtocol, TypeOK, FailuresOf, Other, Transports
<1>3. CASE config = "auto" /\ ~(FailuresOf(currentProtocol) >= Threshold)
  <2>1. currentProtocol \in Transports => protocolFailures[currentProtocol] < Threshold
    BY <1>3, ThresholdAssumption, FallbackAssumption DEF FailuresOf, TypeOK
  <2> QED
    BY <1>3, <2>1 DEF selectProtocol, TypeOK, Concrete, Transports
<1> QED
  BY <1>1, <1>2, <1>3

LEMMA TypeNext == TypeOK /\ [Next]_vars => TypeOK'
<1> SUFFICES ASSUME TypeOK, [Next]_vars PROVE TypeOK'
  OBVIOUS
<1> USE RestartsAssumption, ThresholdAssumption, FallbackAssumption
<1>1. CASE EditProtocol
  BY <1>1 DEF EditProtocol, TypeOK
<1>2. CASE Launch
  <2>1. currentProtocol' \in Transports
          /\ protocolFailures' \in [Transports -> 0..MaxFailures]
    BY <1>2, Selected DEF Launch
  <2> QED
    BY <1>2, <2>1 DEF Launch, TypeOK
<1>3. CASE RunFailsOnTransport
  <2>1. protocolFailures' \in [Transports -> 0..MaxFailures]
    BY <1>3 DEF RunFailsOnTransport, RunEnds, TypeOK
  <2> QED
    BY <1>3, <2>1 DEF RunFailsOnTransport, RunEnds, TypeOK, Endings
<1>4. CASE RunFailsOtherwise
  BY <1>4 DEF RunFailsOtherwise, RunEnds, TypeOK, Endings
<1>5. CASE RunExitsCleanly
  <2>1. protocolFailures' \in [Transports -> 0..MaxFailures]
    BY <1>5 DEF RunExitsCleanly
  <2>2. /\ pc = "running" /\ pc' = "ended" /\ restartCount' = 0
        /\ tried' = {} /\ endings' = {} /\ gaveUp' = FALSE
        /\ UNCHANGED <<config, currentProtocol, alwaysAuto>>
    BY <1>5 DEF RunExitsCleanly, StartAfresh
  <2>3. restartCount' \in 0..MaxRestarts
    BY <2>2
  <2>4. /\ config' \in Transports \cup {"auto"} /\ currentProtocol' \in Transports
        /\ pc' \in {"down", "running", "ended", "pending"}
        /\ alwaysAuto' \in BOOLEAN
    BY <2>2 DEF TypeOK
  <2> QED
    BY <2>1, <2>2, <2>3, <2>4 DEF TypeOK
<1>6. CASE RunIsReplaced
  BY <1>6 DEF RunIsReplaced, RunEnds, TypeOK, Endings
<1>7. CASE RunIsStopped
  BY <1>7 DEF RunIsStopped, RunEnds, TypeOK, Endings
<1>8. CASE RestartDisabled
  BY <1>8 DEF RestartDisabled, TypeOK
<1>9. CASE ScheduleFresh
  <2>1. 1 \in 0..MaxRestarts
    OBVIOUS
  <2> QED
    BY <1>9, <2>1 DEF ScheduleFresh, TypeOK
<1>10. CASE Schedule
  BY <1>10 DEF Schedule, AtLimit, TypeOK
<1>11. CASE GiveUp
  BY <1>11 DEF GiveUp, TypeOK
<1>12. CASE UNCHANGED vars
  BY <1>12 DEF vars, TypeOK
<1> QED
  BY <1>1, <1>2, <1>3, <1>4, <1>5, <1>6, <1>7, <1>8, <1>9, <1>10, <1>11, <1>12
     DEF Next, RunStep, ExitStep

\* The variables have their types; in particular automatic restart is never
\* scheduled more often than maxRestartAttempts in a row (restart.go), and a
\* run always has one of the two transports.
THEOREM TypeCorrect == Spec => []TypeOK
BY InitType, TypeNext, PTL DEF Spec

-----------------------------------------------------------------------------
LEMMA StreakInit == Init => StreakInv
BY DEF Init, StreakInv, NothingTried, OneTried, Transports

\* A new run of a streak uses the protocol of the runs before it, until that
\* has failed often enough.
LEMMA StreakLaunch == TypeOK /\ StreakInv /\ Launch => StreakInv'
<1> SUFFICES ASSUME TypeOK, StreakInv, Launch PROVE StreakInv'
  OBVIOUS
<1>1. /\ tried' = tried \cup {IF config = "auto" THEN currentProtocol' ELSE "fixed"}
      /\ UNCHANGED <<config, restartCount, endings, gaveUp>>
      /\ pc' = "running" /\ selectProtocol
  BY DEF Launch
<1>2. currentProtocol' \in Transports
        /\ protocolFailures' \in [Transports -> 0..MaxFailures]
  BY <1>1, Selected
<1>3. NothingTried'
  BY <1>1 DEF NothingTried
<1>4. Streak' => Streak /\ config = "auto" /\ tried' = tried \cup {currentProtocol'}
  BY <1>1 DEF Streak
<1>5. OneTried'
  <2> SUFFICES ASSUME Streak', tried' # Transports PROVE OneTried'
    BY DEF OneTried
  <2>1. Streak /\ config = "auto" /\ tried' = tried \cup {currentProtocol'}
    BY <1>4
  <2>2. CASE tried = {}
    <3>1. restartCount <= 1 /\ restartCount' = restartCount /\ tried' = {currentProtocol'}
      BY <1>1, <2>1, <2>2 DEF StreakInv, NothingTried
    <3>2. protocolFailures'[currentProtocol'] \in Nat
      BY <1>2, FallbackAssumption
    <3> QED
      BY <1>1, <1>2, <3>1, <3>2, ThresholdAssumption, RestartsAssumption DEF OneTried, TypeOK
  <2>3. CASE tried # {}
    <3>1. tried \subseteq Transports
      BY <2>1 DEF Streak, TypeOK
    <3>2. tried # Transports
      BY <1>2, <2>1, <3>1
    <3>3. /\ currentProtocol \in Transports /\ tried = {currentProtocol}
          /\ restartCount <= protocolFailures[currentProtocol] + 1
      BY <2>1, <2>3, <3>2 DEF StreakInv, OneTried
    <3>4. /\ protocolFailures[currentProtocol] < Threshold
          /\ currentProtocol' = currentProtocol
          /\ protocolFailures' = protocolFailures
      <4>1. CASE currentProtocol' = Other(currentProtocol)
        BY <2>1, <3>3, <4>1 DEF Other, Transports
      <4>2. CASE currentProtocol' # Other(currentProtocol)
        BY <1>1, <2>1, <3>3, <4>2, Selected
      <4> QED BY <4>1, <4>2
    <3>5. restartCount <= Threshold
      BY <3>3, <3>4, ThresholdAssumption, FallbackAssumption DEF TypeOK
    <3> QED
      BY <1>1, <2>1, <3>3, <3>4, <3>5 DEF OneTried
  <2> QED BY <2>2, <2>3
<1>6. (gaveUp /\ Streak => tried = Transports)'
  <2> SUFFICES ASSUME gaveUp', Streak' PROVE tried' = Transports
    OBVIOUS
  <2>1. tried = Transports
    BY <1>1, <1>4 DEF StreakInv
  <2> QED BY <1>2, <1>4, <2>1
<1> QED
  BY <1>3, <1>5, <1>6 DEF StreakInv

\* A run that ends otherwise than with a transport error ends the streak.
LEMMA StreakBroken ==
  ASSUME StreakInv, NEW how \in Endings \ {"transport"}, NEW next, RunEnds(how, next),
         UNCHANGED <<restartCount, tried, gaveUp>>
  PROVE  StreakInv'
<1>1. ~Streak'
  BY DEF RunEnds, Streak
<1>2. tried' # {}
  BY DEF RunEnds, StreakInv, NothingTried
<1> QED
  BY <1>1, <1>2 DEF StreakInv, NothingTried, OneTried

LEMMA StreakNext == TypeOK /\ StreakInv /\ [Next]_vars => StreakInv'
<1> SUFFICES ASSUME TypeOK, StreakInv, [Next]_vars PROVE StreakInv'
  OBVIOUS
<1> USE RestartsAssumption, ThresholdAssumption, FallbackAssumption
<1>1. CASE EditProtocol
  BY <1>1 DEF EditProtocol, StreakInv, NothingTried, OneTried, Streak
<1>2. CASE Launch
  BY <1>2, StreakLaunch
<1>3. CASE RunFailsOnTransport
  <2>1. /\ tried # {} /\ tried' = tried /\ pc' \in {"ended", "down"} /\ pc = "running"
        /\ UNCHANGED <<restartCount, currentProtocol, gaveUp>>
        /\ endings' = endings \cup {"transport"}
    BY <1>3 DEF RunFailsOnTransport, RunEnds, StreakInv, NothingTried
  <2>2. Streak' => Streak
    BY <2>1 DEF Streak
  <2>3. currentProtocol \in Transports =>
          protocolFailures'[currentProtocol] = protocolFailures[currentProtocol] + 1
    BY <1>3 DEF RunFailsOnTransport, TypeOK
  <2>4. NothingTried'
    BY <2>1 DEF NothingTried
  <2>5. OneTried'
    BY <2>1, <2>2, <2>3 DEF StreakInv, OneTried, TypeOK
  <2> QED
    BY <2>1, <2>2, <2>4, <2>5 DEF StreakInv
<1>4. CASE RunFailsOtherwise
  BY <1>4, StreakBroken DEF RunFailsOtherwise, Endings
<1>5. CASE RunExitsCleanly
  BY <1>5 DEF RunExitsCleanly, StartAfresh, StreakInv, NothingTried, OneTried
<1>6. CASE RunIsReplaced
  BY <1>6, StreakBroken DEF RunIsReplaced, Endings
<1>7. CASE RunIsStopped
  BY <1>7, StreakBroken DEF RunIsStopped, Endings
<1>8. CASE RestartDisabled
  BY <1>8 DEF RestartDisabled, StreakInv, NothingTried, OneTried, Streak
<1>9. CASE ScheduleFresh
  BY <1>9 DEF ScheduleFresh, StreakInv, NothingTried, OneTried
<1>10. CASE Schedule
  <2>1. UNCHANGED <<currentProtocol, protocolFailures, tried, endings, gaveUp>>
          /\ pc = "ended" /\ pc' = "pending" /\ restartCount' = restartCount + 1
    BY <1>10 DEF Schedule
  <2>2. NothingTried'
    BY <2>1 DEF StreakInv, NothingTried
  <2>3. OneTried'
    BY <2>1 DEF StreakInv, OneTried, Streak, TypeOK
  <2> QED
    BY <2>1, <2>2, <2>3 DEF StreakInv, Streak
<1>11. CASE GiveUp
  <2>1. /\ UNCHANGED <<currentProtocol, protocolFailures, tried, endings, restartCount>>
        /\ pc = "ended" /\ pc' = "down" /\ restartCount > Threshold
    BY <1>11 DEF GiveUp, AtLimit, TypeOK
  <2>2. tried # {}
    BY <2>1 DEF StreakInv, NothingTried
  <2>3. Streak => tried = Transports
    BY <2>1, <2>2 DEF StreakInv, OneTried, TypeOK
  <2> QED
    BY <2>1, <2>2, <2>3 DEF StreakInv, NothingTried, OneTried, Streak
<1>12. CASE UNCHANGED vars
  BY <1>12 DEF vars, StreakInv, NothingTried, OneTried, Streak
<1> QED
  BY <1>1, <1>2, <1>3, <1>4, <1>5, <1>6, <1>7, <1>8, <1>9, <1>10, <1>11, <1>12
     DEF Next, RunStep, ExitStep

\* Automatic restart never gives up on a blocked transport before it has tried
\* the other one, whatever the threshold, as long as the limit of restarts is
\* larger than it: 3 and 10 in the code (instance.go, restart.go).
THEOREM BothTried == Spec => []BothTriedBeforeGivingUp
<1>1. StreakInv => BothTriedBeforeGivingUp
  BY DEF StreakInv, Streak, BothTriedBeforeGivingUp
<1> QED
  BY <1>1, InitType, TypeNext, StreakInit, StreakNext, PTL DEF Spec

-----------------------------------------------------------------------------
LEMMA BlameInit == Init => BlameInv
<1> SUFFICES ASSUME Init PROVE BlameInv
  OBVIOUS
<1>1. alwaysAuto => config = "auto"
  BY Zenon DEF Init
<1>2. pc = "down" /\ \A p \in Transports : protocolFailures[p] = 0
  BY DEF Init
<1> QED
  BY <1>1, <1>2, ThresholdAssumption DEF BlameInv, OnlyCurrentIsBlamed

LEMMA BlameNext == TypeOK /\ BlameInv /\ [Next]_vars => BlameInv'
<1> SUFFICES ASSUME TypeOK, BlameInv, [Next]_vars, alwaysAuto' PROVE BlameInv'
  BY DEF BlameInv, OnlyCurrentIsBlamed
<1> USE ThresholdAssumption, FallbackAssumption
<1>0. ~EditProtocol
  BY DEF EditProtocol
<1>1. alwaysAuto /\ config = "auto" /\ UNCHANGED config
  BY <1>0 DEF BlameInv, Next, RunStep, ExitStep, Launch, RunFailsOnTransport, RunFailsOtherwise,
       RunExitsCleanly, RunIsReplaced, RunIsStopped, RunEnds, RestartDisabled,
       ScheduleFresh, Schedule, GiveUp, vars
<1>2. CASE Launch
  <2>1. CASE /\ currentProtocol \in Transports
             /\ currentProtocol' = Other(currentProtocol)
             /\ protocolFailures' = [protocolFailures EXCEPT ![currentProtocol] = 0]
    <3>1. \A p \in Transports : protocolFailures'[p] = 0
      BY <1>1, <2>1 DEF BlameInv, OnlyCurrentIsBlamed, TypeOK
    <3>2. currentProtocol' \in Transports
      BY <2>1 DEF Other, Transports
    <3> QED BY <1>1, <3>1, <3>2 DEF BlameInv, OnlyCurrentIsBlamed
  <2>2. CASE /\ currentProtocol \in Transports =>
                      /\ protocolFailures[currentProtocol] < Threshold
                      /\ currentProtocol' = currentProtocol
             /\ protocolFailures' = protocolFailures
    <3>1. currentProtocol' \in Transports
      BY <1>2, Selected DEF Launch
    <3>2. CASE currentProtocol \in Transports
      BY <1>1, <2>2, <3>2 DEF BlameInv, OnlyCurrentIsBlamed
    <3>3. CASE currentProtocol \notin Transports
      <4>1. \A p \in Transports : protocolFailures'[p] = 0
        BY <1>1, <2>2, <3>3 DEF BlameInv, OnlyCurrentIsBlamed
      <4> QED BY <1>1, <3>1, <4>1 DEF BlameInv, OnlyCurrentIsBlamed
    <3> QED BY <3>2, <3>3
  <2> QED
    BY <1>1, <1>2, <2>1, <2>2, Selected DEF Launch
<1>3. CASE RunFailsOnTransport
  <2>1. /\ pc = "running" /\ pc' # "running" /\ currentProtocol \in Transports
        /\ currentProtocol' = currentProtocol
        /\ protocolFailures' = [protocolFailures EXCEPT ![currentProtocol] = @ + 1]
    BY <1>3 DEF RunFailsOnTransport, RunEnds, TypeOK
  <2>2. /\ protocolFailures'[currentProtocol] <= Threshold
        /\ \A p \in Transports \ {currentProtocol} : protocolFailures'[p] = 0
    BY <1>1, <2>1 DEF BlameInv, OnlyCurrentIsBlamed, TypeOK
  <2> QED
    BY <1>1, <2>1, <2>2 DEF BlameInv, OnlyCurrentIsBlamed
<1>4. CASE RunExitsCleanly
  BY <1>1, <1>4 DEF RunExitsCleanly, BlameInv, OnlyCurrentIsBlamed
<1>5. CASE RunFailsOtherwise \/ RunIsReplaced \/ RunIsStopped
  BY <1>1, <1>5 DEF RunFailsOtherwise, RunIsReplaced, RunIsStopped, RunEnds, BlameInv,
                    OnlyCurrentIsBlamed
<1>6. CASE ExitStep
  BY <1>1, <1>6 DEF ExitStep, RestartDisabled, ScheduleFresh, Schedule, GiveUp, BlameInv,
                    OnlyCurrentIsBlamed
<1>7. CASE UNCHANGED vars
  BY <1>1, <1>7 DEF vars, BlameInv, OnlyCurrentIsBlamed
<1> QED
  BY <1>0, <1>2, <1>3, <1>4, <1>5, <1>6, <1>7 DEF Next, RunStep

\* A tunnel that stays in auto mode never holds failures against the protocol
\* it is not using, nor more than the threshold: the switch in selectProtocol
\* resets the counter it acted upon, and a run starts below the threshold.
THEOREM CurrentBlamed == Spec => []OnlyCurrentIsBlamed
<1>1. BlameInv => OnlyCurrentIsBlamed
  BY DEF BlameInv
<1> QED
  BY <1>1, InitType, TypeNext, BlameInit, BlameNext, PTL DEF Spec

-----------------------------------------------------------------------------
(***************************************************************************)
(* The log broadcaster: no stream skips a line.                            *)
(*                                                                         *)
(* A stream is covered from Subscribe on: while it is subscribed every     *)
(* Broadcast puts its line into the channel or records that the channel    *)
(* was full, and a line leaves the channel only for the hand of a handler  *)
(* that holds nothing else.  What makes this inductive is that a handler   *)
(* takes a line only when its hand is empty (HandInv); the lines that      *)
(* count end when the subscription does, by whoever ends it (Until).       *)
(***************************************************************************)
StreamPlaces == {"none", "connected", "write", "select", "beat", "leaving", "gone"}

LogTypes ==
  /\ LogTypeOK
  /\ channel \in [Streams -> Seq(Nat)]
  /\ hand \in [Streams -> SUBSET Nat] /\ seen \in [Streams -> SUBSET Nat]
  /\ since \in [Streams -> Nat] /\ until \in [Streams -> Nat]

\* Only a handler that writes holds lines.
HandInv == \A s \in Streams : stream[s] \in {"none", "connected", "select", "beat"} => hand[s] = {}

Covered(s) == \A n \in Nat : since[s] < n /\ n <= Until(s) => n \in seen[s] \cup hand[s] \cup InChannel(s)

\* From Subscribe on every line is somewhere, unless the channel overflowed or
\* the subscription has ended.
CoverInv ==
  \A s \in Streams : stream[s] \in {"connected", "write", "select", "beat"} /\ s \notin missed => Covered(s)

LogInv == LogTypes /\ HandInv /\ CoverInv

-----------------------------------------------------------------------------
LEMMA UntilNat == \A s \in Streams : LogTypes => Until(s) \in Nat
BY DEF Until, LogTypes, LogTypeOK

LEMMA LogInitInv == LogInit => LogInv
<1> SUFFICES ASSUME LogInit PROVE LogInv
  OBVIOUS
<1>1. LogTypes
  <2>1. LogTypeOK
    <3>1. \A s \in Streams : channel[s] = <<>>
      BY DEF LogInit
    <3>2. \A s \in Streams : Len(channel[s]) <= ChanSize
      <4>1. ASSUME NEW q \in Seq(Nat), q = <<>> PROVE Len(q) <= ChanSize
        BY <4>1, LogAssumption
      <4>2. <<>> \in Seq(Nat)
        OBVIOUS
      <4> QED BY <3>1, <4>1, <4>2
    <3>3. chatter \in 0..MaxChatter
      BY LogAssumption DEF LogInit
    <3>4. /\ logging \in [Writers -> {"no", "writer", "broadcast"}]
          /\ stream \in [Streams -> StreamPlaces]
      BY DEF LogInit, StreamPlaces
    <3> QED BY <3>2, <3>3, <3>4 DEF LogInit, LogTypeOK, StreamPlaces
  <2>2. <<>> \in Seq(Nat) /\ {} \in SUBSET Nat /\ 0 \in Nat
    OBVIOUS
  <2> QED BY <2>1, <2>2 DEF LogInit, LogTypes
<1>2. HandInv /\ CoverInv
  <2>1. stream = [s \in Streams |-> "none"] /\ hand = [s \in Streams |-> {}]
    BY DEF LogInit
  <2> QED BY <2>1 DEF HandInv, CoverInv
<1> QED BY <1>1, <1>2 DEF LogInv

\* What a step of one handler leaves alone.
OneStream(s) ==
  /\ \A q \in Streams \ {s} : /\ stream'[q] = stream[q] /\ hand'[q] = hand[q] /\ seen'[q] = seen[q]
                              /\ channel'[q] = channel[q] /\ since'[q] = since[q]
                              /\ until'[q] = until[q]
                              /\ q \in subscribed' <=> q \in subscribed
  /\ UNCHANGED <<lines, missed, main>>

LEMMA OneStreamKeeps ==
  ASSUME LogInv, NEW s \in Streams, OneStream(s),
         stream'[s] \in {"none", "connected", "select", "beat"} => hand'[s] = {},
         (stream'[s] \in {"connected", "write", "select", "beat"} /\ s \notin missed) => Covered(s)'
  PROVE  HandInv' /\ CoverInv'
<1>1. ASSUME NEW q \in Streams \ {s}, Covered(q) PROVE Covered(q)'
  BY <1>1 DEF OneStream, Covered, Until, InChannel
<1>3. HandInv'
  BY DEF LogInv, HandInv, OneStream
<1>4. CoverInv'
  BY <1>1 DEF LogInv, CoverInv, OneStream
<1> QED BY <1>3, <1>4

\* The first line of a channel and the rest.
LEMMA InChannelTail ==
  ASSUME NEW q \in Seq(Nat), q # <<>>
  PROVE  /\ Tail(q) \in Seq(Nat) /\ Head(q) \in Nat /\ Len(Tail(q)) = Len(q) - 1 /\ Len(q) \in Nat
         /\ {q[i] : i \in 1..Len(q)} \subseteq {Head(q)} \cup {Tail(q)[i] : i \in 1..Len(Tail(q))}
<1>1. /\ Tail(q) \in Seq(Nat) /\ Head(q) = q[1] /\ Len(Tail(q)) = Len(q) - 1 /\ Len(q) \in Nat
      /\ Len(q) >= 1
  OBVIOUS
<1>2. ASSUME NEW i \in 1..Len(q), i # 1 PROVE i - 1 \in 1..Len(Tail(q)) /\ Tail(q)[i - 1] = q[i]
  BY <1>1, <1>2
<1>3. Head(q) \in Nat
  BY <1>1
<1> QED BY <1>1, <1>2, <1>3

LEMMA InChannelAppend ==
  ASSUME NEW q \in Seq(Nat), NEW n \in Nat
  PROVE  /\ Append(q, n) \in Seq(Nat) /\ Len(Append(q, n)) = Len(q) + 1 /\ Len(q) \in Nat
         /\ {Append(q, n)[i] : i \in 1..Len(Append(q, n))} = {q[i] : i \in 1..Len(q)} \cup {n}
<1>1. Append(q, n) \in Seq(Nat) /\ Len(Append(q, n)) = Len(q) + 1 /\ Len(q) \in Nat
  OBVIOUS
<1>2. /\ \A i \in 1..Len(q) : Append(q, n)[i] = q[i] /\ i \in 1..Len(Append(q, n))
      /\ Append(q, n)[Len(q) + 1] = n /\ Len(q) + 1 \in 1..Len(Append(q, n))
  BY <1>1
<1>3. \A i \in 1..Len(Append(q, n)) : i \in 1..Len(q) \/ i = Len(q) + 1
  BY <1>1
<1> QED BY <1>1, <1>2, <1>3


-----------------------------------------------------------------------------
(***************************************************************************)
(* Types.                                                                  *)
(***************************************************************************)
LEMMA LogCallTypes ==
  ASSUME LogTypes, NEW g \in Writers, LogCall(g)
  PROVE  LogTypes'
<1>1. CASE EnterWriter(g)
  BY <1>1 DEF EnterWriter, LogTypes, LogTypeOK
<1>2. CASE Broadcast(g)
  <2> DEFINE full   == {s \in subscribed : ~HasRoom(s)}
             served == subscribed \ full
  <2>1. /\ lines' = lines + 1 /\ missed' = missed \cup full /\ inactive' = inactive \ served
        /\ channel' = [s \in Streams |-> IF s \in served THEN Append(channel[s], lines + 1) ELSE channel[s]]
        /\ writerMu' = "none" /\ logging' = [logging EXCEPT ![g] = "no"]
        /\ UNCHANGED <<logLevel, logMu, subscribed, open, stream, hand, seen, since, until, unwanted,
                       shutdownC, main, chatter>>
    BY <1>2 DEF Broadcast
  <2>2. lines' \in Nat /\ full \subseteq Streams
    BY <2>1 DEF LogTypes, LogTypeOK
  <2>3. ASSUME NEW s \in Streams PROVE channel'[s] \in Seq(Nat) /\ Len(channel'[s]) <= ChanSize
    <3>1. channel[s] \in Seq(Nat) /\ Len(channel[s]) <= ChanSize /\ lines + 1 \in Nat
      BY <2>1, <2>2 DEF LogTypes, LogTypeOK
    <3>2. CASE s \in served
      <4>1. Len(channel[s]) < ChanSize
        BY <3>2 DEF HasRoom
      <4>2. channel'[s] = Append(channel[s], lines + 1)
        BY <2>1, <3>2
      <4> QED BY <3>1, <4>1, <4>2, InChannelAppend, LogAssumption
    <3>3. CASE s \notin served
      BY <2>1, <3>1, <3>3
    <3> QED BY <3>2, <3>3
  <2>4. channel' \in [Streams -> Seq(Nat)]
    BY <2>1, <2>3
  <2> HIDE DEF full, served
  <2> QED BY <2>1, <2>2, <2>3, <2>4 DEF LogTypes, LogTypeOK
<1> QED BY <1>1, <1>2 DEF LogCall

LEMMA StreamStepTypes ==
  ASSUME LogTypes, NEW s \in Streams, StreamStep(s)
  PROVE  LogTypes'
<1>0. s \in Writers
  BY DEF Writers
<1>1. CASE GetRecentLogs(s)
  <2>1. {n \in 1..lines : n + RingSize > lines} \in SUBSET Nat
    BY DEF LogTypes, LogTypeOK
  <2> QED BY <1>1, <2>1 DEF GetRecentLogs, Goes, LogTypes, LogTypeOK
<1>2. CASE ReceiveLine(s)
  <2>1. /\ channel[s] \in Seq(Nat) /\ Len(channel[s]) <= ChanSize /\ channel[s] # <<>>
        /\ channel' = [channel EXCEPT ![s] = Tail(channel[s])]
        /\ hand' = [hand EXCEPT ![s] = {Head(channel[s])}]
    BY <1>2 DEF ReceiveLine, LogTypes, LogTypeOK
  <2>2. /\ Tail(channel[s]) \in Seq(Nat) /\ Head(channel[s]) \in Nat
        /\ Len(Tail(channel[s])) <= ChanSize
    BY <2>1, InChannelTail, LogAssumption
  <2>3. channel' \in [Streams -> Seq(Nat)] /\ hand' \in [Streams -> SUBSET Nat]
    BY <2>1, <2>2 DEF LogTypes
  <2>4. \A q \in Streams : Len(channel'[q]) <= ChanSize
    BY <2>1, <2>2 DEF LogTypes, LogTypeOK
  <2> QED BY <1>2, <2>3, <2>4 DEF ReceiveLine, Goes, LogTypes, LogTypeOK
<1>3. CASE MarkActive(s)
  BY <1>3 DEF MarkActive, Goes, LogTypes, LogTypeOK
<1>4. CASE Leave(s)
  BY <1>0, <1>4 DEF Leave, Goes, Logs, LogTypes, LogTypeOK
<1>5. CASE Unsubscribe(s)
  BY <1>5 DEF Unsubscribe, Goes, LogTypes, LogTypeOK
<1> QED BY <1>1, <1>2, <1>3, <1>4, <1>5 DEF StreamStep

LEMMA StreamEventTypes ==
  ASSUME LogTypes, NEW s \in Streams, StreamEvent(s)
  PROVE  LogTypes'
<1>0. s \in Writers
  BY DEF Writers
<1>1. CASE Subscribe(s)
  BY <1>0, <1>1 DEF Subscribe, Goes, Logs, LogTypes, LogTypeOK
<1>2. CASE WriteReturns(s)
  BY <1>2 DEF WriteReturns, Goes, LogTypes, LogTypeOK
<1>3. CASE WriteFails(s)
  BY <1>0, <1>3 DEF WriteFails, Goes, Logs, LogTypes, LogTypeOK
<1>4. CASE Stalls(s)
  BY <1>4 DEF Stalls, LogTypes, LogTypeOK
<1>5. CASE Heartbeat(s)
  BY <1>5 DEF Heartbeat, Goes, LogTypes, LogTypeOK
<1>6. CASE Unwant(s)
  BY <1>6 DEF Unwant, LogTypes, LogTypeOK
<1> QED BY <1>1, <1>2, <1>3, <1>4, <1>5, <1>6 DEF StreamEvent

OtherStep == OtherLogs \/ CleanerWarns \/ CleanerRemoves \/ Signal \/ MainStep

LEMMA OtherTypes == LogTypes /\ OtherStep => LogTypes'
<1> SUFFICES ASSUME LogTypes, OtherStep PROVE LogTypes'
  OBVIOUS
<1>0. {"main", "cleaner", "other"} \subseteq Writers
  BY DEF Writers
<1>1. CASE OtherLogs
  <2>1. chatter' \in 0..MaxChatter
    BY <1>1, LogAssumption DEF OtherLogs, LogTypes, LogTypeOK
  <2> QED BY <1>0, <1>1, <2>1 DEF OtherLogs, Logs, LogTypes, LogTypeOK
<1>2. CASE CleanerWarns
  BY <1>0, <1>2 DEF CleanerWarns, Logs, LogTypes, LogTypeOK
<1>3. CASE Signal
  BY <1>0, <1>3 DEF Signal, Logs, LogTypes, LogTypeOK
<1>4. CASE MainStep
  BY <1>4 DEF MainStep, PrepareShutdown, HttpClose, BroadcasterClose, LogTypes, LogTypeOK
<1>5. CASE CleanerRemoves
  BY <1>5 DEF CleanerRemoves, Dead, LogTypes, LogTypeOK
<1> QED BY <1>1, <1>2, <1>3, <1>4, <1>5 DEF OtherStep

LEMMA LogNextIs ==
  [LogNext]_logVars =>
    \/ \E g \in Writers : LogCall(g)
    \/ \E s \in Streams : StreamStep(s) \/ StreamEvent(s)
    \/ OtherStep
    \/ UNCHANGED logVars
BY DEF LogNext, OtherStep

-----------------------------------------------------------------------------
(***************************************************************************)
(* No line is skipped.                                                     *)
(***************************************************************************)
LEMMA LogCallInv ==
  ASSUME LogInv, NEW g \in Writers, LogCall(g)
  PROVE  HandInv' /\ CoverInv'
<1>1. CASE EnterWriter(g)
  BY <1>1 DEF EnterWriter, LogInv, HandInv, CoverInv, Covered, Until, InChannel
<1>2. CASE Broadcast(g)
  <2> DEFINE full   == {s \in subscribed : ~HasRoom(s)}
             served == subscribed \ full
  <2>1. /\ lines' = lines + 1 /\ missed' = missed \cup full
        /\ channel' = [s \in Streams |-> IF s \in served THEN Append(channel[s], lines + 1) ELSE channel[s]]
        /\ UNCHANGED <<subscribed, stream, hand, seen, since, until>>
    BY <1>2 DEF Broadcast
  <2>2. HandInv'
    BY <2>1 DEF LogInv, HandInv
  <2>3. ASSUME NEW s \in Streams, stream'[s] \in {"connected", "write", "select", "beat"}, s \notin missed'
        PROVE  Covered(s)'
    <3>1. Covered(s) /\ s \notin full /\ channel[s] \in Seq(Nat) /\ lines \in Nat /\ lines + 1 \in Nat
      BY <2>1, <2>3 DEF LogInv, LogTypes, LogTypeOK, CoverInv
    <3>2. CASE s \in subscribed
      <4>1. channel'[s] = Append(channel[s], lines + 1)
        BY <2>1, <3>1, <3>2
      <4>2. InChannel(s)' = InChannel(s) \cup {lines + 1}
        BY <3>1, <4>1, InChannelAppend DEF InChannel
      <4>3. Until(s) = lines /\ Until(s)' = lines + 1
        BY <2>1, <3>2 DEF Until
      <4>4. ASSUME NEW n \in Nat, since'[s] < n, n <= Until(s)'
            PROVE  n \in seen'[s] \cup hand'[s] \cup InChannel(s)'
        <5>1. n <= lines \/ n = lines + 1
          BY <3>1, <4>3, <4>4
        <5> QED BY <2>1, <3>1, <4>2, <4>3, <4>4, <5>1 DEF Covered
      <4> QED BY <4>4 DEF Covered
    <3>3. CASE s \notin subscribed
      <4>1. channel'[s] = channel[s] /\ Until(s)' = Until(s)
        BY <2>1, <3>3 DEF Until
      <4> QED BY <2>1, <3>1, <4>1 DEF Covered, InChannel
    <3> QED BY <3>2, <3>3
  <2>4. CoverInv'
    BY <2>3 DEF CoverInv
  <2> QED BY <2>2, <2>4
<1> QED BY <1>1, <1>2 DEF LogCall

LEMMA StreamStepInv ==
  ASSUME LogInv, NEW s \in Streams, StreamStep(s) \/ StreamEvent(s)
  PROVE  HandInv' /\ CoverInv'
<1>0. /\ LogTypes /\ HandInv /\ CoverInv /\ lines \in Nat /\ channel[s] \in Seq(Nat)
      /\ stream[s] \in {"none", "connected", "select", "beat"} => hand[s] = {}
      /\ (stream[s] \in {"connected", "write", "select", "beat"} /\ s \notin missed) => Covered(s)
  BY DEF LogInv, LogTypes, LogTypeOK, HandInv, CoverInv
<1>1. CASE GetRecentLogs(s)
  <2>1. /\ stream[s] = "connected" /\ stream'[s] = "write" /\ Until(s)' = Until(s)
        /\ UNCHANGED <<lines, channel, seen, since, missed>>
    BY <1>0, <1>1 DEF GetRecentLogs, At, Goes, Until, LogTypes, LogTypeOK
  <2>2. OneStream(s)
    BY <1>1 DEF GetRecentLogs, Goes, OneStream, LogInv, LogTypes, LogTypeOK
  <2>3. s \notin missed => Covered(s)'
    BY <1>0, <2>1 DEF Covered, InChannel
  <2> QED BY <2>1, <2>2, <2>3, OneStreamKeeps
<1>2. CASE ReceiveLine(s)
  <2>1. /\ stream[s] = "select" /\ stream'[s] = "write" /\ Until(s)' = Until(s) /\ channel[s] # <<>>
        /\ UNCHANGED <<lines, seen, since, missed>>
        /\ hand'[s] = {Head(channel[s])} /\ channel'[s] = Tail(channel[s])
    BY <1>0, <1>2 DEF ReceiveLine, At, Goes, Until, LogTypes, LogTypeOK
  <2>2. OneStream(s)
    BY <1>0, <1>2 DEF ReceiveLine, Goes, OneStream, LogTypes, LogTypeOK
  <2>3. InChannel(s) \subseteq hand'[s] \cup InChannel(s)'
    BY <1>0, <2>1, InChannelTail DEF InChannel
  <2>4. s \notin missed => Covered(s)'
    BY <1>0, <2>1, <2>3 DEF Covered
  <2> QED BY <2>1, <2>2, <2>4, OneStreamKeeps
<1>3. CASE WriteReturns(s)
  <2>1. /\ stream[s] = "write" /\ stream'[s] = "select" /\ Until(s)' = Until(s)
        /\ UNCHANGED <<lines, channel, since, missed>>
        /\ seen'[s] = seen[s] \cup hand[s] /\ hand'[s] = {}
    BY <1>0, <1>3 DEF WriteReturns, At, Goes, Until, LogTypes, LogTypeOK
  <2>2. OneStream(s)
    BY <1>0, <1>3 DEF WriteReturns, Goes, OneStream, LogTypes, LogTypeOK
  <2>3. s \notin missed => Covered(s)'
    BY <1>0, <2>1 DEF Covered, InChannel
  <2> QED BY <2>1, <2>2, <2>3, OneStreamKeeps
<1>4. CASE MarkActive(s) \/ Heartbeat(s)
  <2>1. /\ stream[s] \in {"beat", "select"} /\ stream'[s] \in {"beat", "select"} /\ Until(s)' = Until(s)
        /\ UNCHANGED <<lines, channel, seen, hand, since, missed>>
    BY <1>0, <1>4 DEF MarkActive, Heartbeat, At, Goes, Until, LogTypes, LogTypeOK
  <2>2. OneStream(s)
    BY <1>0, <1>4 DEF MarkActive, Heartbeat, Goes, OneStream, LogTypes, LogTypeOK
  <2>3. s \notin missed => Covered(s)'
    BY <1>0, <2>1 DEF Covered, InChannel
  <2> QED BY <1>0, <2>1, <2>2, <2>3, OneStreamKeeps
<1>5. CASE Leave(s) \/ WriteFails(s)
  <2>1. stream[s] \in {"select", "write", "beat"} /\ stream'[s] = "leaving" /\ Until(s)' = Until(s)
    BY <1>0, <1>5 DEF Leave, WriteFails, At, Goes, Until, LogTypes, LogTypeOK
  <2>2. OneStream(s)
    BY <1>0, <1>5 DEF Leave, WriteFails, Goes, OneStream, LogTypes, LogTypeOK
  <2> QED BY <2>1, <2>2, OneStreamKeeps
<1>6. CASE Unsubscribe(s)
  <2>1. stream'[s] = "gone" /\ OneStream(s)
    BY <1>0, <1>6 DEF Unsubscribe, Goes, OneStream, LogTypes, LogTypeOK
  <2> QED BY <2>1, OneStreamKeeps
<1>7. CASE Subscribe(s)
  <2>1. /\ stream[s] = "none" /\ stream'[s] = "connected" /\ Until(s)' = lines /\ since'[s] = lines
        /\ UNCHANGED <<lines, hand>> /\ hand[s] \subseteq {}
    BY <1>0, <1>7 DEF Subscribe, Goes, Until, LogTypes, LogTypeOK
  <2>2. OneStream(s)
    BY <1>0, <1>7 DEF Subscribe, Goes, OneStream, LogTypes, LogTypeOK
  <2>3. Covered(s)'
    BY <1>0, <2>1 DEF Covered
  <2> QED BY <2>1, <2>2, <2>3, OneStreamKeeps
<1>8. CASE Stalls(s) \/ Unwant(s)
  BY <1>0, <1>8 DEF Stalls, Unwant, HandInv, CoverInv, Covered, Until, InChannel
<1> QED BY <1>1, <1>2, <1>3, <1>4, <1>5, <1>6, <1>7, <1>8 DEF StreamStep, StreamEvent

LEMMA OtherInv ==
  ASSUME LogInv, OtherStep
  PROVE  HandInv' /\ CoverInv'
<1>1. UNCHANGED <<lines, channel, stream, hand, seen, since, missed>>
  BY DEF OtherStep, OtherLogs, CleanerWarns, CleanerRemoves, Signal, MainStep, PrepareShutdown, HttpClose,
         BroadcasterClose
<1>2. \A s \in Streams : Until(s)' = Until(s)
  <2>1. CASE UNCHANGED <<lines, subscribed, until>>
    BY <2>1 DEF Until
  <2>2. CASE CleanerRemoves
    BY <2>2 DEF CleanerRemoves, Dead, Until
  <2>3. CASE BroadcasterClose
    BY <2>3 DEF BroadcasterClose, Until
  <2> QED BY <2>1, <2>2, <2>3
          DEF OtherStep, OtherLogs, CleanerWarns, Signal, MainStep, PrepareShutdown, HttpClose
<1> QED BY <1>1, <1>2 DEF LogInv, HandInv, CoverInv, Covered, InChannel

LEMMA LogNextInv == LogInv /\ [LogNext]_logVars => LogInv'
<1> SUFFICES ASSUME LogInv, [LogNext]_logVars PROVE LogInv'
  OBVIOUS
<1>1. CASE UNCHANGED logVars
  BY <1>1 DEF logVars, LogInv, LogTypes, LogTypeOK, HandInv, CoverInv, Covered, Until,
             InChannel
<1>2. (LogTypes' /\ HandInv' /\ CoverInv') \/ UNCHANGED logVars
  BY LogNextIs, LogCallTypes, StreamStepTypes, StreamEventTypes, OtherTypes, LogCallInv, StreamStepInv,
     OtherInv DEF LogInv
<1> QED BY <1>1, <1>2 DEF LogInv

LEMMA LogInvariance == LogSpec => []LogInv
BY LogInitInv, LogNextInv, PTL DEF LogSpec

\* The variables of the broadcaster have their types, and no channel holds more
\* lines than its buffer.
THEOREM LogTypeCorrect == LogSpec => []LogTypeOK
<1>1. LogInv => LogTypeOK
  BY DEF LogInv, LogTypes
<1> QED BY <1>1, LogInvariance, PTL

\* However Subscribe, the lines of other goroutines, GetRecentLogs and the
\* first receive interleave, a stream has no gap until its channel overflows or
\* the clean-up ends its subscription.
THEOREM StreamsHaveNoGap == LogSpec => []NoLineSkipped
<1>1. LogInv => NoLineSkipped
  <2> SUFFICES ASSUME LogInv, NEW s \in Streams, Reading(s), s \notin missed,
                      NEW n \in (since[s] + 1)..Until(s)
               PROVE  n \in seen[s] \cup hand[s] \cup InChannel(s)
    BY DEF NoLineSkipped
  <2>1. Covered(s) /\ since[s] \in Nat /\ Until(s) \in Nat
    BY UntilNat DEF LogInv, CoverInv, Reading, LogTypes, LogTypeOK
  <2>2. n \in Nat /\ since[s] < n /\ n <= Until(s)
    BY <2>1
  <2> QED BY <2>1, <2>2 DEF Covered
<1> QED BY <1>1, LogInvariance, PTL

-----------------------------------------------------------------------------
(***************************************************************************)
(* The signals of the process, module ProcessSignals.  SignalInv is        *)
(* inductive: a reset takes the signals from every watcher that came before*)
(* it, so that outside a launch main alone is subscribed.                  *)
(***************************************************************************)
\* Main is subscribed outside a reclaim, a watcher only while a
\* pulse of its run is to come or after they are over, and only a signal that
\* falls into a launch wakes one.
SignalInv ==
  /\ SignalTypeOK
  /\ sigMu = Main => Main \in receivers
  /\ \A r \in receivers \ {Main} : pulses[r] > 0 \/ r \in late
  /\ \A r \in Runs : watcher[r] = "woken" => untimely
  /\ SignalIsOrderly

LEMMA SignalStart == ASSUME SignalInit PROVE SignalInv
<1>1. 0 \in 0..Pulses /\ 0 \in 0..MaxSignals
  BY SignalsAssumption
<1>2. SignalTypeOK
  BY <1>1 DEF SignalInit, SignalTypeOK
<1> QED BY <1>2 DEF SignalInit, SignalInv, SignalIsOrderly

\* Outside a launch a signal is for main.
LEMMA SignalForMain ==
  ASSUME SignalInv, ~Launching PROVE receivers = {Main}
<1>1. sigMu = Main /\ late \cap receivers = {} /\ \A r \in Runs : pulses[r] = 0
  BY SignalsAssumption DEF Launching, SignalInv, SignalTypeOK
<1>2. \A r \in receivers \ {Main} :
        (r \in Runs /\ pulses[r] > 0) \/ r \in late \cap receivers
  BY DEF SignalInv, SignalTypeOK
<1> QED BY <1>1, <1>2 DEF SignalInv, SignalTypeOK

LEMMA SignalKept == ASSUME SignalInv, [SignalNext]_signalVars PROVE SignalInv'
<1> USE MainAssumption, SignalsAssumption
        DEF SignalInv, SignalTypeOK, SignalIsOrderly, MoveWatcher
<1>1. ASSUME NEW r \in Runs, RunLaunched(r) PROVE SignalInv'
  BY <1>1 DEF RunLaunched
<1>2. ASSUME NEW r \in Runs, PulseResets(r) PROVE SignalInv'
  BY <1>2 DEF PulseResets
<1>3. ASSUME NEW r \in Runs, PulseNotifies(r) PROVE SignalInv'
  BY <1>3 DEF PulseNotifies
<1>4. ASSUME NEW r \in Runs, WatcherSubscribes(r) PROVE SignalInv'
  BY <1>4 DEF WatcherSubscribes
<1>5. ASSUME NEW r \in Runs, WatcherSkipped(r) PROVE SignalInv'
  BY <1>5 DEF WatcherSkipped
<1>6. ASSUME NEW r \in Runs, WatcherCloses(r) PROVE SignalInv'
  BY <1>6 DEF WatcherCloses
<1>7. ASSUME NEW r \in Runs, WatcherReleased(r) PROVE SignalInv'
  BY <1>7 DEF WatcherReleased
<1>8. CASE SignalArrives
  <2>1. SignalTypeOK'
    BY <1>8 DEF SignalArrives
  <2>2. untimely' \/ receivers = {Main}
    BY <1>8, SignalForMain DEF SignalArrives
  <2>3. \A r \in Runs : watcher'[r] = "woken" => untimely'
    <3> SUFFICES ASSUME NEW r \in Runs, watcher'[r] = "woken" PROVE untimely'
      OBVIOUS
    <3>1. CASE watcher[r] = "woken"
      BY <1>8, <3>1 DEF SignalArrives
    <3>2. CASE watcher[r] # "woken"
      BY <1>8, <2>2, <3>2 DEF SignalArrives
    <3> QED BY <3>1, <3>2
  <2>4. ~untimely' => mainAt' # "serving" /\ fate' = fate /\ ~untimely
    BY <1>8, <2>2 DEF SignalArrives
  <2> QED BY <1>8, <2>1, <2>3, <2>4 DEF SignalArrives
<1>9. CASE ShutdownProcess \/ MainReturns \/ UNCHANGED signalVars
  BY <1>9 DEF ShutdownProcess, MainReturns, signalVars
<1> QED
  BY <1>1, <1>2, <1>3, <1>4, <1>5, <1>6, <1>7, <1>8, <1>9 DEF SignalNext, Pulse, WatcherStep

LEMMA SignalInvariance == SignalSpec => []SignalInv
<1>1. SignalInit => SignalInv
  BY SignalStart
<1>2. SignalInv /\ [SignalNext]_signalVars => SignalInv'
  BY SignalKept
<1> QED BY <1>1, <1>2, PTL DEF SignalSpec

\* However many runs have been launched and restarted: a signal that does not
\* fall into a launch shuts the process down in order.
THEOREM SignalsAreOrderly == SignalSpec => []SignalIsOrderly
<1>1. SignalInv => SignalIsOrderly
  BY DEF SignalInv
<1> QED BY <1>1, SignalInvariance, PTL

LEMMA SignalTypeCorrect == SignalSpec => []SignalTypeOK
<1>1. SignalInv => SignalTypeOK
  BY DEF SignalInv
<1> QED BY <1>1, SignalInvariance, PTL
=============================================================================
