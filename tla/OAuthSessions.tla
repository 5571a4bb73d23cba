---------------------------- MODULE OAuthSessions ----------------------------
(***************************************************************************)
(* internal/cfoauth: pending logins, the stored Cloudflare identities, one *)
(* of them current, and their refresh tokens, which Cloudflare replaces    *)
(* whenever they are used.                                                 *)
(*                                                                         *)
(* SaveSession and SwitchSession are transactions and one action each;     *)
(* every other query or statement of the store is a step of its own, and   *)
(* so is every call of Cloudflare.  refreshMu belongs to a Service, and    *)
(* saving the OAuth settings replaces the Service (resetOAuthService), so  *)
(* a mutex is named by the generation of its Service.                      *)
(*                                                                         *)
(* Abstractions: identities and the refresh tokens of one identity are     *)
(* numbered in the order they were made; an access token is fresh or not.  *)
(***************************************************************************)
EXTENDS Naturals, FiniteSets

CONSTANTS
  OAuthRequests,   \* requests that may be inside the service at once
  MaxSessions,     \* bound: identities ever made
  MaxExpiries,     \* bound: access tokens that expire
  MaxOAuthCalls,   \* bound: requests
  MaxReplaced      \* bound: settings saved and crashes, together

ASSUME OAuthAssumption ==
  /\ MaxSessions \in Nat \ {0} /\ MaxExpiries \in Nat
  /\ MaxOAuthCalls \in Nat /\ MaxReplaced \in Nat
  /\ "free" \notin OAuthRequests

Ids == 1..MaxSessions
NoSession == [refresh |-> 0, fresh |-> FALSE, current |-> FALSE]

VARIABLES
  sessions,    \* the rows of OAuthSession
  grant,       \* grant[i]: the refresh token Cloudflare accepts, 0 for none
  created,     \* identities made so far
  pending,     \* the login state: "none", "saved" or "expired"
  service,     \* generation of Server.oauthSvc
  replaced,    \* history: was the service replaced while the process ran?
  refreshMu,   \* refreshMu[g]: the request that holds it, or "free"
  req,         \* req[r]: where request r is and what it has read
  sent,        \* was the code of the login sent?  Cloudflare accepts it once
  contested,   \* history: was an election overtaken, or cut off by a crash?
  lost,        \* history: identities whose new token was never stored
  reused,      \* history: identities whose replaced token was sent again
  expiries, oauthCalls

oauthVars == <<sessions, grant, created, pending, service, replaced, refreshMu,
               req, sent, contested, lost, reused, expiries,
               oauthCalls>>

Rows     == {i \in Ids : sessions[i] # NoSession}
Currents == {i \in Ids : sessions[i].current}
\* Store.CurrentSession: Only fails unless there is exactly one row.
HasCurrent == Cardinality(Currents) = 1
TheCurrent == CHOOSE i \in Currents : TRUE
OldestRow  == CHOOSE i \in Rows : \A j \in Rows : i <= j

Rest == [pc |-> "idle", id |-> 0, gen |-> 0, token |-> 0]

OAuthInit ==
  /\ created \in 0..(MaxSessions - 1)
  /\ sessions = [i \in Ids |-> IF i > created THEN NoSession
                               ELSE [refresh |-> 1, fresh |-> TRUE, current |-> i = 1]]
  /\ grant = [i \in Ids |-> IF i > created THEN 0 ELSE 1]
  /\ pending = "saved"
  /\ service = 1 /\ replaced = FALSE
  /\ refreshMu = [g \in 1..(MaxReplaced + 1) |-> "free"]
  /\ req = [r \in OAuthRequests |-> Rest]
  /\ sent = FALSE /\ contested = FALSE
  /\ lost = {} /\ reused = {}
  /\ expiries = 0 /\ oauthCalls = 0

-----------------------------------------------------------------------------
OAuthCall(r) ==
  /\ req[r].pc = "idle" /\ oauthCalls < MaxOAuthCalls
  /\ oauthCalls' = oauthCalls + 1

Moves(r, place)  == req' = [req EXCEPT ![r].pc = place]
Finishes(r)      == req' = [req EXCEPT ![r] = Rest]
Unlocks(r)       == refreshMu' = [refreshMu EXCEPT ![req[r].gen] = "free"]
StoreOnly        == UNCHANGED <<grant, created, pending, service, replaced,
                                refreshMu, sent, lost, reused, expiries>>
ReqOnly          == UNCHANGED <<sessions, contested>> /\ StoreOnly

\* Rows that are being looked for by the election of a deletion.
Electing == {r \in OAuthRequests : req[r].pc \in {"first", "promote"}}

-----------------------------------------------------------------------------
(***************************************************************************)
(* A login comes back: CompleteCallback.                                   *)
(***************************************************************************)
\* ConsumeState reads the row of the state.
ReadState(r) ==
  /\ OAuthCall(r) /\ pending # "none"
  /\ Moves(r, "consume")
  /\ UNCHANGED <<sessions, grant, created, pending, service, replaced,
                 refreshMu, sent, contested, lost, reused, expiries>>

\* It deletes the row, whether or not it still is there, and looks at the
\* expiry it has read.
ConsumeState(r) ==
  /\ req[r].pc = "consume"
  /\ pending' = "none"
  /\ IF pending = "expired" THEN Finishes(r) ELSE Moves(r, "code")
  /\ UNCHANGED <<sessions, grant, created, service, replaced, refreshMu, sent,
                 contested, lost, reused, expiries, oauthCalls>>

\* Cloudflare exchanges a code once; a second request or a failure is an error.
ExchangeCode(r) ==
  /\ req[r].pc = "code"
  /\ sent' = TRUE
  /\ \/ /\ ~sent /\ created < MaxSessions
        /\ created' = created + 1
        /\ grant' = [grant EXCEPT ![created + 1] = 1]
        /\ req' = [req EXCEPT ![r].pc = "save", ![r].id = created + 1]
     \/ Finishes(r) /\ UNCHANGED <<created, grant>>
  /\ UNCHANGED <<sessions, pending, service, replaced, refreshMu, contested,
                 lost, reused, expiries, oauthCalls>>

SaveSession(r) ==
  /\ req[r].pc = "save"
  /\ sessions' = [i \in Ids |->
       IF i = req[r].id THEN [refresh |-> 1, fresh |-> TRUE, current |-> TRUE]
                        ELSE [sessions[i] EXCEPT !.current = FALSE]]
  /\ contested' = (contested \/ Electing # {})
  /\ Finishes(r) /\ StoreOnly /\ UNCHANGED oauthCalls

SwitchSession(r) ==
  /\ OAuthCall(r)
  /\ \E i \in Rows :
       sessions' = [j \in Ids |-> [sessions[j] EXCEPT !.current = (j = i)]]
  /\ contested' = (contested \/ Electing # {})
  /\ UNCHANGED req /\ StoreOnly

-----------------------------------------------------------------------------
(***************************************************************************)
(* A request that needs an access token: validSession.                     *)
(***************************************************************************)
NeedToken(r) ==
  /\ OAuthCall(r) /\ HasCurrent /\ ~sessions[TheCurrent].fresh
  /\ req' = [req EXCEPT ![r] = [pc |-> "queue", id |-> TheCurrent, gen |-> service,
                                token |-> sessions[TheCurrent].refresh]]
  /\ ReqOnly

GetsLock(r) == req[r].pc = "queue" /\ refreshMu[req[r].gen] = "free"

\* The session is read again under the lock: another request has refreshed it,
\* or there is no current one.
NoRefresh(r) ==
  /\ GetsLock(r)
  /\ HasCurrent => sessions[TheCurrent].fresh
  /\ Finishes(r) /\ ReqOnly /\ UNCHANGED oauthCalls

\* Mutant: the session read before the lock is used.
Mutant_RefreshStale(r) ==
  /\ GetsLock(r)
  /\ refreshMu' = [refreshMu EXCEPT ![req[r].gen] = r]
  /\ Moves(r, "ask")
  /\ UNCHANGED <<sessions, grant, created, pending, service, replaced, sent,
                 contested, lost, reused, expiries, oauthCalls>>

BeginRefresh(r) ==
  /\ GetsLock(r) /\ HasCurrent /\ ~sessions[TheCurrent].fresh
  /\ refreshMu' = [refreshMu EXCEPT ![req[r].gen] = r]
  /\ req' = [req EXCEPT ![r].pc = "ask", ![r].id = TheCurrent,
                        ![r].token = sessions[TheCurrent].refresh]
  /\ UNCHANGED <<sessions, grant, created, pending, service, replaced, sent,
                 contested, lost, reused, expiries, oauthCalls>>

\* Cloudflare answers, usually with a new refresh token.
Rotate(r) ==
  /\ req[r].pc = "ask" /\ req[r].token = grant[req[r].id]
  /\ \E next \in {req[r].token, req[r].token + 1} :
       /\ grant' = [grant EXCEPT ![req[r].id] = next]
       /\ req' = [req EXCEPT ![r].pc = "store", ![r].token = next]
  /\ UNCHANGED <<sessions, created, pending, service, replaced, refreshMu,
                 sent, contested, lost, reused, expiries, oauthCalls>>

\* The answer does not arrive, or is not stored: the browser went away, and the
\* context of its request is that of the call and of the update.
AnswerLost(r) ==
  /\ \/ /\ req[r].pc = "ask" /\ req[r].token = grant[req[r].id]
        /\ grant' = [grant EXCEPT ![req[r].id] = @ + 1]
     \/ req[r].pc = "store" /\ UNCHANGED grant
  /\ lost' = lost \cup {req[r].id}
  /\ Finishes(r) /\ Unlocks(r)
  /\ UNCHANGED <<sessions, created, pending, service, replaced, sent,
                 contested, reused, expiries, oauthCalls>>

\* Cloudflare refuses a token that was replaced, and may end the grant, or one
\* that was revoked; or the call fails before it arrives.
RefreshRefused(r) ==
  /\ req[r].pc = "ask"
  /\ IF req[r].token < grant[req[r].id]
       THEN /\ reused' = reused \cup {req[r].id}
            /\ grant' \in {grant, [grant EXCEPT ![req[r].id] = 0]}
       ELSE UNCHANGED <<reused, grant>>
  /\ Finishes(r) /\ Unlocks(r)
  /\ UNCHANGED <<sessions, created, pending, service, replaced, sent,
                 contested, lost, expiries, oauthCalls>>

\* Mutant: a session that was deleted in between is written again.
Mutant_UpsertToken(r) ==
  /\ req[r].pc = "store"
  /\ sessions' = [sessions EXCEPT ![req[r].id].refresh = req[r].token,
                                  ![req[r].id].fresh = TRUE]
  /\ Finishes(r) /\ Unlocks(r)
  /\ UNCHANGED <<grant, created, pending, service, replaced, sent, contested,
                 lost, reused, expiries, oauthCalls>>

\* Mutant: only the access token is stored.
Mutant_UpdateAccessOnly(r) ==
  /\ req[r].pc = "store"
  /\ sessions' = IF req[r].id \in Rows
                   THEN [sessions EXCEPT ![req[r].id].fresh = TRUE] ELSE sessions
  /\ Finishes(r) /\ Unlocks(r)
  /\ UNCHANGED <<grant, created, pending, service, replaced, sent, contested,
                 lost, reused, expiries, oauthCalls>>

UpdateToken(r) ==
  /\ req[r].pc = "store"
  /\ sessions' = IF req[r].id \in Rows
                   THEN [sessions EXCEPT ![req[r].id].refresh = req[r].token,
                                         ![req[r].id].fresh = TRUE]
                   ELSE sessions
  /\ Finishes(r) /\ Unlocks(r)
  /\ UNCHANGED <<grant, created, pending, service, replaced, sent, contested,
                 lost, reused, expiries, oauthCalls>>

-----------------------------------------------------------------------------
(***************************************************************************)
(* Logout: revoke (or not), DeleteSession, ensureCurrentSession.           *)
(***************************************************************************)
\* A logout names the session or means the current one; id 0 is the latter.
BeginLogout(r) ==
  /\ OAuthCall(r)
  /\ \E i \in Rows \cup {0} :
       \/ req' = [req EXCEPT ![r].pc = "resolve", ![r].id = i]
       \/ /\ i # 0 \/ HasCurrent
          /\ LET j == IF i = 0 THEN TheCurrent ELSE i IN
               req' = [req EXCEPT ![r] = [pc |-> "revoke", id |-> i, gen |-> j,
                                          token |-> sessions[j].refresh]]
  /\ ReqOnly

\* Errors of the call are ignored; a token that was replaced revokes nothing.
Revoke(r) ==
  /\ req[r].pc = "revoke"
  /\ \/ /\ req[r].token = grant[req[r].gen]
        /\ grant' = [grant EXCEPT ![req[r].gen] = 0]
     \/ UNCHANGED grant
  /\ Moves(r, "resolve")
  /\ UNCHANGED <<sessions, created, pending, service, replaced, refreshMu,
                 sent, contested, lost, reused, expiries, oauthCalls>>

Resolve(r) ==
  /\ req[r].pc = "resolve"
  /\ IF req[r].id # 0 THEN Moves(r, "remove")
     ELSE IF HasCurrent
       THEN req' = [req EXCEPT ![r].pc = "remove", ![r].id = TheCurrent]
       ELSE Finishes(r)
  /\ ReqOnly /\ UNCHANGED oauthCalls

RemoveSession(r) ==
  /\ req[r].pc = "remove"
  /\ IF req[r].id \in Rows
       THEN /\ sessions' = [sessions EXCEPT ![req[r].id] = NoSession]
            /\ Moves(r, "elect")
       ELSE Finishes(r) /\ UNCHANGED sessions
  /\ UNCHANGED contested /\ StoreOnly /\ UNCHANGED oauthCalls

Elect(r) ==
  /\ req[r].pc = "elect"
  /\ IF Currents = {} THEN Moves(r, "first") ELSE Finishes(r)
  /\ ReqOnly /\ UNCHANGED oauthCalls

FindOldest(r) ==
  /\ req[r].pc = "first"
  /\ IF Rows = {} THEN Finishes(r)
     ELSE req' = [req EXCEPT ![r].pc = "promote", ![r].id = OldestRow]
  /\ ReqOnly /\ UNCHANGED oauthCalls

\* Mutant: no election, the user has to choose.
Mutant_PromoteNobody(r) ==
  /\ req[r].pc = "promote"
  /\ Finishes(r) /\ ReqOnly /\ UNCHANGED oauthCalls

Promote(r) ==
  /\ req[r].pc = "promote"
  /\ sessions' = IF req[r].id \in Rows
                   THEN [sessions EXCEPT ![req[r].id].current = TRUE] ELSE sessions
  /\ contested' = (contested \/ req[r].id \notin Rows)
  /\ Finishes(r) /\ StoreOnly /\ UNCHANGED oauthCalls

-----------------------------------------------------------------------------
(***************************************************************************)
(* Time, the settings and the process.                                     *)
(***************************************************************************)
AccessExpires ==
  /\ expiries < MaxExpiries
  /\ \E i \in Rows : /\ sessions[i].fresh
                     /\ sessions' = [sessions EXCEPT ![i].fresh = FALSE]
  /\ expiries' = expiries + 1
  /\ UNCHANGED <<grant, created, pending, service, replaced, refreshMu, req,
                 sent, contested, lost, reused, oauthCalls>>

\* Ten minutes pass.
StateExpires ==
  /\ pending = "saved"
  /\ pending' = "expired"
  /\ UNCHANGED <<sessions, grant, created, service, replaced, refreshMu, req,
                 sent, contested, lost, reused, expiries, oauthCalls>>

resetOAuthService ==
  /\ service <= MaxReplaced
  /\ service' = service + 1 /\ replaced' = TRUE
  /\ UNCHANGED <<sessions, grant, created, pending, refreshMu, req, sent,
                 contested, lost, reused, expiries, oauthCalls>>

OAuthCrash ==
  /\ service <= MaxReplaced
  /\ service' = service + 1
  /\ lost' = lost \cup {req[r].id : r \in {q \in OAuthRequests : req[q].pc = "store"}}
  /\ contested' = (contested \/ \E r \in OAuthRequests : req[r].pc \in {"elect", "first", "promote"})
  /\ req' = [r \in OAuthRequests |-> Rest]
  /\ UNCHANGED <<sessions, grant, created, pending, replaced, refreshMu, sent,
                 reused, expiries, oauthCalls>>

-----------------------------------------------------------------------------
LoginStep(r)   == ReadState(r) \/ ConsumeState(r) \/ ExchangeCode(r) \/ SaveSession(r)
RefreshStep(r) == \/ NeedToken(r) \/ NoRefresh(r) \/ BeginRefresh(r) \/ Rotate(r)
                  \/ AnswerLost(r) \/ RefreshRefused(r) \/ UpdateToken(r)
LogoutStep(r)  == \/ BeginLogout(r) \/ Revoke(r) \/ Resolve(r) \/ RemoveSession(r)
                  \/ Elect(r) \/ FindOldest(r) \/ Promote(r)

OAuthNext ==
  \/ \E r \in OAuthRequests : LoginStep(r) \/ RefreshStep(r) \/ LogoutStep(r) \/ SwitchSession(r)
  \/ AccessExpires \/ StateExpires \/ resetOAuthService \/ OAuthCrash

OAuthSpec == OAuthInit /\ [][OAuthNext]_oauthVars

-----------------------------------------------------------------------------
(***************************************************************************)
(* Properties.                                                             *)
(***************************************************************************)
\* The types of the variables.
OAuthTypeOK ==
  /\ sessions \in [Ids -> [refresh: Nat, fresh: BOOLEAN, current: BOOLEAN]]
  /\ grant \in [Ids -> Nat] /\ created \in 0..MaxSessions
  /\ pending \in {"none", "saved", "expired"}
  /\ service \in 1..(MaxReplaced + 1)
  /\ refreshMu \in [1..(MaxReplaced + 1) -> OAuthRequests \cup {"free"}]
  /\ \A r \in OAuthRequests : req[r].pc \in
       {"idle", "consume", "code", "save", "queue", "ask", "store", "revoke",
        "resolve", "remove", "elect", "first", "promote"}
  /\ sent \in BOOLEAN /\ lost \subseteq Ids /\ reused \subseteq Ids
  /\ {contested, replaced} \subseteq BOOLEAN

\* As long as there are identities exactly one of them is current, so that
\* CurrentSession finds it ("expected exactly one current session",
\* store_test.go:150), except while a deletion looks for a successor and unless
\* a login or a switch overtook such a deletion or a crash cut it off.
OneCurrentSession ==
  contested \/ Rows = {} \/ HasCurrent
  \/ \E r \in OAuthRequests : req[r].pc \in {"elect", "first", "promote"}

\* A refresh token is used once: however many requests need one at the same
\* time, none sends a token that another has already exchanged, unless the
\* service was replaced or an answer was lost.
RefreshTokensUsedOnce == replaced \/ reused \subseteq lost

\* The refresh token in the database is the one Cloudflare accepts, so that the
\* identity survives the next expiry, except between the two updates, and
\* unless an answer was lost, the grant was ended, or the service was replaced:
\* then two refreshes may overlap and the older one may store its token last.
StoredTokenIsLive ==
  replaced \/ \A i \in Rows :
    \/ grant[i] = 0 \/ i \in lost
    \/ \E r \in OAuthRequests : req[r].pc = "store" /\ req[r].id = i
    \/ sessions[i].refresh = grant[i]

\* An identity that was removed is not written back by a refresh that was
\* under way.
LogoutIsFinal ==
  [][\A i \in Ids : i \notin Rows /\ i \in Rows' =>
       \E r \in OAuthRequests : req[r].pc = "save" /\ req[r].id = i]_oauthVars
=============================================================================
