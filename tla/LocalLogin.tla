----------------------------- MODULE LocalLogin -----------------------------
(***************************************************************************)
(* Password protection of the web interface: the store of the password and *)
(* of the sessions (internal/localauth/store.go), and the middleware, the  *)
(* handlers and the two attempt limiters in front of it                    *)
(* (internal/server/local_auth.go).                                        *)
(*                                                                         *)
(* Store.mu is held from the check of the password to the end of the       *)
(* transaction that relies on it.  The middleware, logging out and the     *)
(* limiters work without it.                                               *)
(*                                                                         *)
(* Abstractions: a password is the number of the change that set it; a     *)
(* token is the number of its creation; the user name belongs to the       *)
(* password.  The tables of the limiters (4096 keys) are never full.       *)
(***************************************************************************)
EXTENDS Naturals

CONSTANTS
  LoginRequests,   \* requests that may be at work at once
  NoRequest,
  Clients,         \* addresses that log in
  Attempts,        \* attempts in a window, 5 in NewServer
  MaxTokens,       \* bound: sessions ever made
  MaxPasswords,    \* bound: passwords ever set
  MaxLoginCalls,   \* bound: requests
  MaxWindows,      \* bound: windows and sessions that expire
  MaxLoginCrashes  \* bound: restarts of the process

ASSUME LoginAssumption ==
  /\ NoRequest \notin LoginRequests
  /\ Attempts \in Nat \ {0}
  /\ MaxTokens \in Nat /\ MaxPasswords \in Nat /\ MaxLoginCalls \in Nat
  /\ MaxWindows \in Nat /\ MaxLoginCrashes \in Nat

Tokens    == 1..MaxTokens
Passwords == 0..MaxPasswords    \* 0: no password was set
LoginOps       == {"setup", "login", "logout", "change", "revoke", "disable"}
Keys      == [client : Clients] \cup [token : 0..MaxTokens]

VARIABLES
  enabled, password,   \* the row of local_auth_settings
  logins,            \* the rows of local_auth_sessions
  expired,             \* tokens past expires_at
  madeWith,            \* history: the password each session was made with
  storeMu,             \* holder of Store.mu
  call,                \* call[r]: where request r is
  attempts,               \* attempts[k]: loginLimiter.attempts, 0 without an entry
  guesses,             \* history: wrong passwords the store was asked about,
                       \* by key, since the key's entry was made
  tokens, loginCalls, windows, loginCrashes

loginVars == <<enabled, password, logins, expired, madeWith, storeMu, call,
               attempts, guesses, tokens, loginCalls, windows, loginCrashes>>

NoCall == [pc |-> "idle", op |-> "login", given |-> 0, token |-> 0,
           key |-> [token |-> 0], counted |-> FALSE]

LoginInit ==
  /\ enabled = FALSE /\ password = 0
  /\ logins = {} /\ expired = {} /\ madeWith = [t \in Tokens |-> 0]
  /\ storeMu = NoRequest /\ call = [r \in LoginRequests |-> NoCall]
  /\ attempts = [k \in Keys |-> 0] /\ guesses = [k \in Keys |-> 0]
  /\ tokens = 0 /\ loginCalls = 0 /\ windows = 0 /\ loginCrashes = 0

-----------------------------------------------------------------------------
Settings     == <<enabled, password>>
SessionTable == <<logins, madeWith, tokens>>
Limiters     == <<attempts, guesses>>
Bounds       == <<expired, loginCalls, windows, loginCrashes>>

Proceed(r, place) == call' = [call EXCEPT ![r].pc = place]
Reply(r)          == call' = [call EXCEPT ![r] = NoCall]
Unlock(r)         == storeMu' = NoRequest /\ Reply(r)

(***************************************************************************)
(* A request arrives.  Logging in, setting up and logging out are public;  *)
(* the others pass the middleware.  The password a request brings may be   *)
(* any that ever was set.                                                  *)
(***************************************************************************)
Arrive(r, op, given, token, client) ==
  /\ call[r].pc = "idle" /\ loginCalls < MaxLoginCalls
  /\ loginCalls' = loginCalls + 1
  /\ call' = [call EXCEPT ![r] =
       [pc      |-> CASE op = "setup" -> "lock" [] op = "login" -> "limit"
                      [] op = "logout" -> "delete" [] OTHER -> "enabled",
        op      |-> op,
        given   |-> given,
        token   |-> token,
        key     |-> IF op = "login" THEN [client |-> client] ELSE [token |-> token],
        counted |-> FALSE]]
  /\ UNCHANGED <<Settings, SessionTable, storeMu, Limiters, expired, windows, loginCrashes>>

\* localAuthMiddleware: without protection every request passes.
ReadEnabled(r) ==
  /\ call[r].pc = "enabled"
  /\ Proceed(r, IF enabled THEN "session" ELSE "limit")
  /\ UNCHANGED <<Settings, SessionTable, storeMu, Limiters, Bounds>>

\* AuthenticateSession: an expired session is removed.
AuthenticateSession(r) ==
  /\ call[r].pc = "session"
  /\ IF call[r].token \in logins \ expired THEN Proceed(r, "limit") ELSE Reply(r)
  /\ logins' = logins \ ({call[r].token} \cap expired)
  /\ UNCHANGED <<Settings, madeWith, tokens, storeMu, Limiters, Bounds>>

\* loginLimiter.allow: the attempt is counted before the password is checked.
\* Mutant: the changed copy of the entry is not put back into the map.
Mutant_allow(r) ==
  /\ call[r].pc = "limit" /\ attempts[call[r].key] < Attempts
  /\ call' = [call EXCEPT ![r].pc = "lock", ![r].counted = TRUE]
  /\ UNCHANGED <<Settings, SessionTable, storeMu, Limiters, Bounds>>

allow(r) ==
  /\ call[r].pc = "limit" /\ attempts[call[r].key] < Attempts
  /\ attempts' = [attempts EXCEPT ![call[r].key] = @ + 1]
  /\ call' = [call EXCEPT ![r].pc = "lock", ![r].counted = TRUE]
  /\ UNCHANGED <<Settings, SessionTable, storeMu, guesses, Bounds>>

Refuse(r) ==
  /\ call[r].pc = "limit" /\ attempts[call[r].key] >= Attempts
  /\ Reply(r)
  /\ UNCHANGED <<Settings, SessionTable, storeMu, Limiters, Bounds>>

\* The body is malformed, or names an unacceptable password.
BadRequest(r) ==
  /\ call[r].pc = "lock" /\ Reply(r)
  /\ UNCHANGED <<Settings, SessionTable, storeMu, Limiters, Bounds>>

-----------------------------------------------------------------------------
(***************************************************************************)
(* Under Store.mu: the password is checked, then one transaction runs.     *)
(***************************************************************************)
\* Mutant: the password is checked and the session made in two calls of the
\* store (VerifyLogin, CreateSession), so others come in between.
Mutant_Lock(r) ==
  /\ call[r].pc = "lock"
  /\ storeMu' = r
  /\ Proceed(r, IF call[r].op = "setup" THEN "commit" ELSE "verify")
  /\ UNCHANGED <<Settings, SessionTable, Limiters, Bounds>>

Lock(r) ==
  /\ call[r].pc = "lock" /\ storeMu = NoRequest
  /\ storeMu' = r
  /\ Proceed(r, IF call[r].op = "setup" THEN "commit" ELSE "verify")
  /\ UNCHANGED <<Settings, SessionTable, Limiters, Bounds>>

\* verifyLogin, verifyPassword.
Verify(r) ==
  /\ call[r].pc = "verify" /\ enabled /\ call[r].given = password
  /\ Proceed(r, "commit")
  /\ UNCHANGED <<Settings, SessionTable, storeMu, Limiters, Bounds>>

VerifyFails(r) ==
  /\ call[r].pc = "verify" /\ ~(enabled /\ call[r].given = password)
  /\ guesses' = IF enabled /\ call[r].counted
                THEN [guesses EXCEPT ![call[r].key] = @ + 1] ELSE guesses
  /\ Unlock(r)
  /\ UNCHANGED <<Settings, SessionTable, attempts, Bounds>>

\* Setup: refused while protection is on.
Setup(r) ==
  /\ call[r].pc = "commit" /\ call[r].op = "setup"
  /\ ~enabled /\ password < MaxPasswords
  /\ enabled' = TRUE /\ password' = password + 1 /\ logins' = {}
  /\ Unlock(r)
  /\ UNCHANGED <<madeWith, tokens, Limiters, Bounds>>

\* createSession of Login.
Login(r) ==
  /\ call[r].pc = "commit" /\ call[r].op = "login" /\ enabled /\ tokens < MaxTokens
  /\ tokens' = tokens + 1
  /\ logins' = (logins \ expired) \cup {tokens'}
  /\ madeWith' = [madeWith EXCEPT ![tokens'] = call[r].given]
  /\ storeMu' = NoRequest /\ Proceed(r, "success")
  /\ UNCHANGED <<Settings, Limiters, Bounds>>

\* updatePasswordAndRevoke of ChangePasswordAndCreateSession.
ChangePassword(r) ==
  /\ call[r].pc = "commit" /\ call[r].op = "change" /\ enabled
  /\ password < MaxPasswords /\ tokens < MaxTokens
  /\ password' = password + 1 /\ tokens' = tokens + 1
  /\ logins' = {tokens'}
  /\ madeWith' = [madeWith EXCEPT ![tokens'] = password']
  /\ Unlock(r)
  /\ UNCHANGED <<enabled, Limiters, Bounds>>

RevokeOtherSessions(r) ==
  /\ call[r].pc = "commit" /\ call[r].op = "revoke"
  /\ call[r].token \in logins \ expired
  /\ logins' = {call[r].token}
  /\ Unlock(r)
  /\ UNCHANGED <<Settings, madeWith, tokens, Limiters, Bounds>>

Disable(r) ==
  /\ call[r].pc = "commit" /\ call[r].op = "disable"
  /\ enabled' = FALSE /\ logins' = {}
  /\ Unlock(r)
  /\ UNCHANGED <<password, madeWith, tokens, Limiters, Bounds>>

\* The transaction is refused or fails: it leaves no trace.
CommitFails(r) ==
  /\ call[r].pc = "commit" /\ Unlock(r)
  /\ UNCHANGED <<Settings, SessionTable, Limiters, Bounds>>

-----------------------------------------------------------------------------
\* An entry of a limiter goes: attempts still at work belonged to it.
Drop(k) ==
  /\ attempts' = [attempts EXCEPT ![k] = 0] /\ guesses' = [guesses EXCEPT ![k] = 0]

Uncounted(k) == [q \in LoginRequests |->
                  IF call[q].key = k THEN [call[q] EXCEPT !.counted = FALSE] ELSE call[q]]

\* loginLimiter.success, after a login.  After the other operations it is
\* called on the limiter of logins for a key of the other one: no entry goes.
success(r) ==
  /\ call[r].pc = "success"
  /\ Drop(call[r].key)
  /\ call' = [Uncounted(call[r].key) EXCEPT ![r] = NoCall]
  /\ UNCHANGED <<Settings, SessionTable, storeMu, Bounds>>

\* DeleteSession of the logout, without the lock.
DeleteSession(r) ==
  /\ call[r].pc = "delete"
  /\ logins' = logins \ {call[r].token}
  /\ Reply(r)
  /\ UNCHANGED <<Settings, madeWith, tokens, storeMu, Limiters, Bounds>>

\* resetAt passes.
WindowEnds(k) ==
  /\ windows < MaxWindows /\ attempts[k] > 0
  /\ windows' = windows + 1
  /\ Drop(k) /\ call' = Uncounted(k)
  /\ UNCHANGED <<Settings, SessionTable, storeMu, expired, loginCalls, loginCrashes>>

SessionExpires(t) ==
  /\ windows < MaxWindows /\ t \in logins \ expired
  /\ windows' = windows + 1 /\ expired' = expired \cup {t}
  /\ UNCHANGED <<Settings, SessionTable, storeMu, call, Limiters, loginCalls, loginCrashes>>

\* The database keeps what was committed.
LoginCrash ==
  /\ loginCrashes < MaxLoginCrashes /\ loginCrashes' = loginCrashes + 1
  /\ storeMu' = NoRequest /\ call' = [r \in LoginRequests |-> NoCall]
  /\ attempts' = [k \in Keys |-> 0] /\ guesses' = [k \in Keys |-> 0]
  /\ UNCHANGED <<Settings, SessionTable, expired, loginCalls, windows>>

LocalLoginStep(r) ==
  \/ \E op \in LoginOps, p \in Passwords, t \in 0..tokens, c \in Clients : Arrive(r, op, p, t, c)
  \/ ReadEnabled(r) \/ AuthenticateSession(r) \/ allow(r) \/ Refuse(r) \/ BadRequest(r)
  \/ Lock(r) \/ Verify(r) \/ VerifyFails(r)
  \/ Setup(r) \/ Login(r) \/ ChangePassword(r) \/ RevokeOtherSessions(r) \/ Disable(r)
  \/ CommitFails(r) \/ success(r) \/ DeleteSession(r)

LoginNext ==
  \/ \E r \in LoginRequests : LocalLoginStep(r)
  \/ \E k \in Keys : WindowEnds(k)
  \/ \E t \in Tokens : SessionExpires(t)
  \/ LoginCrash

LoginSpec == LoginInit /\ [][LoginNext]_loginVars

-----------------------------------------------------------------------------
CallTypes == [pc : {"idle", "enabled", "session", "limit", "lock", "verify", "commit",
                    "success", "delete"},
              op : LoginOps, given : Passwords, token : 0..MaxTokens, key : Keys,
              counted : BOOLEAN]

\* The types of the variables.
LoginTypeOK ==
  /\ enabled \in BOOLEAN /\ password \in Passwords
  /\ tokens \in 0..MaxTokens /\ logins \subseteq 1..tokens /\ expired \subseteq Tokens
  /\ madeWith \in [Tokens -> Passwords]
  /\ storeMu \in LoginRequests \cup {NoRequest}
  /\ call \in [LoginRequests -> CallTypes]
  /\ attempts \in [Keys -> 0..Attempts] /\ guesses \in [Keys -> Nat]

\* A session exists only while protection is on, and was made with the
\* password that holds now: "A password change therefore either revokes the
\* newly-created session or completes before the old password is checked"
\* (comment of Login), whatever logins, changes, set-ups, failed transactions
\* and restarts come together.
SessionsMatchPassword ==
  \A t \in logins : enabled /\ madeWith[t] = password

\* Between two successes the store is asked about no more than Attempts wrong
\* passwords for one client, or for one session, in a window, however many
\* requests arrive at once.
GuessesAreBounded == \A k \in Keys : guesses[k] <= Attempts
=============================================================================
