----------------------- MODULE AccountServices_proofs -----------------------
(***************************************************************************)
(* Proofs about the services that act on the user's Cloudflare account and *)
(* its storage: the OAuth sessions, the uploads to R2 and the dedicated S3 *)
(* server.                                                                 *)
(***************************************************************************)
EXTENDS OAuthSessions, R2Upload, S3Server, TLAPS, FiniteSetTheorems, WellFoundedInduction

-----------------------------------------------------------------------------
(***************************************************************************)
(* OAuth: one current session, refresh tokens.                             *)
(*                                                                         *)
(* While the service is not replaced refreshMu lets one request at a time  *)
(* ask for a token (OAuthLockInv); what it sends is then the token         *)
(* Cloudflare accepts, unless an answer was lost (OAuthTokenInv), and an   *)
(* identity that is still being saved is known to nobody else              *)
(* (OAuthIdInv).  An election is safe as long as no login or switch        *)
(* overtakes it: rows are only removed meanwhile, so that all electors     *)
(* promote the oldest row (OAuthCurrentInv).                               *)
(***************************************************************************)
OAuthPlaces == {"idle", "consume", "code", "save", "queue", "ask", "store", "revoke",
                "resolve", "remove", "elect", "first", "promote"}

OAuthRows == [refresh: Nat, fresh: BOOLEAN, current: BOOLEAN]

OAuthFits ==
  /\ sessions \in [Ids -> OAuthRows]
  /\ grant \in [Ids -> Nat] /\ created \in 0..MaxSessions
  /\ pending \in {"none", "saved", "expired"}
  /\ service \in 1..(MaxReplaced + 1)
  /\ refreshMu \in [1..(MaxReplaced + 1) -> OAuthRequests \cup {"free"}]
  /\ req \in [OAuthRequests -> [pc: OAuthPlaces, id: 0..MaxSessions, gen: Nat, token: Nat]]
  /\ sent \in BOOLEAN /\ lost \subseteq Ids /\ reused \subseteq Ids
  /\ contested \in BOOLEAN /\ replaced \in BOOLEAN

OAuthRowInv ==
  \A i \in Ids : /\ i \in Rows => sessions[i].refresh # 0 /\ i <= created
                 /\ i > created => grant[i] = 0

\* An identity in use has been made; one being saved is known to nobody else.
OAuthIdInv ==
  \A r \in OAuthRequests :
    /\ req[r].pc \in {"save", "ask", "store"} => req[r].id \in 1..created
    /\ req[r].pc = "save" =>
         /\ req[r].id \notin Rows /\ grant[req[r].id] \in {0, 1}
         /\ \A q \in OAuthRequests \ {r} :
              req[q].pc \in {"save", "ask", "store"} => req[q].id # req[r].id

OAuthLockInv ==
  \A r \in OAuthRequests :
    /\ req[r].pc \in {"queue", "ask", "store"} =>
         req[r].gen \in 1..service /\ (~replaced => req[r].gen = service)
    /\ req[r].pc \in {"ask", "store"} => refreshMu[req[r].gen] = r

OAuthTokenInv ==
  /\ \A r \in OAuthRequests :
       /\ req[r].pc \in {"ask", "store"} => req[r].token # 0
       /\ (~replaced /\ req[r].pc = "ask") =>
            req[r].token >= grant[req[r].id] \/ req[r].id \in lost
       /\ (~replaced /\ req[r].pc = "store") =>
            \/ req[r].token = grant[req[r].id] \/ grant[req[r].id] = 0
            \/ req[r].id \in lost
  /\ RefreshTokensUsedOnce
  /\ StoredTokenIsLive

\* Whoever elects promotes the oldest row, and nothing else is current.
OAuthCurrentInv ==
  contested \/
    /\ \A i, j \in Currents : i = j
    /\ \/ Rows = {} \/ Currents # {}
       \/ \E r \in OAuthRequests : req[r].pc \in {"elect", "first", "promote"}
    /\ Electing # {} => \A i \in Currents, j \in Rows : i <= j
    /\ \A r \in OAuthRequests : (req[r].pc = "promote" /\ req[r].id \in Rows) =>
         \A j \in Rows : req[r].id <= j

OAuthInv == OAuthFits /\ OAuthRowInv /\ OAuthIdInv /\ OAuthLockInv

LEMMA OAuthNoSession ==
  /\ NoSession \in OAuthRows /\ NoSession.refresh = 0 /\ ~NoSession.current /\ ~NoSession.fresh
  /\ Currents \subseteq Rows /\ Rows \subseteq Ids
  /\ \A i \in Ids : i \in Rows <=> sessions[i] # NoSession
  /\ \A i \in Ids : i \in Currents <=> sessions[i].current
BY DEF NoSession, OAuthRows, Rows, Currents

\* The current session is a row, if there is exactly one.
LEMMA OAuthTheCurrent ==
  /\ HasCurrent => TheCurrent \in Currents /\ TheCurrent \in Rows
  /\ (Currents # {} /\ \A i, j \in Currents : i = j) => HasCurrent
<1>1. HasCurrent => TheCurrent \in Currents
  <2>1. HasCurrent => Currents # {}
    BY FS_EmptySet DEF HasCurrent
  <2> QED BY <2>1 DEF TheCurrent
<1>2. (Currents # {} /\ \A i, j \in Currents : i = j) => HasCurrent
  <2> SUFFICES ASSUME Currents # {}, \A i, j \in Currents : i = j PROVE HasCurrent
    OBVIOUS
  <2>1. PICK i \in Currents : Currents = {i}
    OBVIOUS
  <2> QED BY <2>1, FS_Singleton DEF HasCurrent
<1> QED BY <1>1, <1>2, OAuthNoSession

LEMMA OAuthOldestRow ==
  Rows # {} => OldestRow \in Rows /\ \A j \in Rows : OldestRow <= j
<1> SUFFICES ASSUME Rows # {} PROVE \E i \in Rows : \A j \in Rows : i <= j
  BY DEF OldestRow
<1>1. MaxSessions \in Nat /\ Ids = 1..MaxSessions
  BY OAuthAssumption DEF Ids
<1>2. Rows \subseteq Nat
  BY <1>1 DEF Rows
<1> DEFINE less == OpToRel(<, Nat)
<1>3. IsWellFoundedOn(less, Nat)
  BY NatLessThanWellFounded
<1>4. \A x, y \in Nat : y < x => <<y, x>> \in less
  BY DEF OpToRel
<1> HIDE DEF less
<1>5. PICK i \in Rows : \A j \in Rows : ~(<<j, i>> \in less)
  BY <1>2, <1>3, WFMin
<1>6. ASSUME NEW j \in Rows PROVE i <= j
  <2>1. i \in Nat /\ j \in Nat
    BY <1>2
  <2>2. ~(j < i)
    BY <1>4, <1>5, <2>1
  <2> QED BY <2>1, <2>2
<1> QED BY <1>6
-----------------------------------------------------------------------------

(***************************************************************************)
(* Types.                                                                  *)
(***************************************************************************)
LEMMA OAuthFitsInit == OAuthInit => OAuthFits
<1> SUFFICES ASSUME OAuthInit PROVE OAuthFits
  OBVIOUS
<1>1. MaxSessions \in Nat /\ MaxReplaced \in Nat /\ 1 \in 1..(MaxReplaced + 1)
  BY OAuthAssumption
<1>2. created \in 0..MaxSessions
  BY <1>1 DEF OAuthInit
<1>3. sessions \in [Ids -> OAuthRows]
  BY OAuthNoSession DEF OAuthInit, OAuthRows
<1>4. req \in [OAuthRequests -> [pc: OAuthPlaces, id: 0..MaxSessions, gen: Nat, token: Nat]]
  BY <1>1 DEF OAuthInit, Rest, OAuthPlaces
<1> QED BY <1>1, <1>2, <1>3, <1>4 DEF OAuthInit, OAuthFits

OAuthReqs == [OAuthRequests -> [pc: OAuthPlaces, id: 0..MaxSessions, gen: Nat, token: Nat]]

LEMMA OAuthReqFits ==
  ASSUME OAuthFits, NEW r \in OAuthRequests
  PROVE  /\ Finishes(r) => req' \in OAuthReqs
         /\ \A place \in OAuthPlaces : Moves(r, place) => req' \in OAuthReqs
         /\ \A place \in OAuthPlaces, i \in 0..MaxSessions :
              [req EXCEPT ![r].pc = place, ![r].id = i] \in OAuthReqs
         /\ \A place \in OAuthPlaces, i \in 0..MaxSessions, n \in Nat :
              [req EXCEPT ![r].pc = place, ![r].id = i, ![r].token = n] \in OAuthReqs
         /\ req' \in OAuthReqs <=>
              req' \in [OAuthRequests -> [pc: OAuthPlaces, id: 0..MaxSessions, gen: Nat, token: Nat]]
<1>0. req \in OAuthReqs /\ Rest \in [pc: OAuthPlaces, id: 0..MaxSessions, gen: Nat, token: Nat]
  BY OAuthAssumption DEF OAuthFits, OAuthReqs, Rest, OAuthPlaces
<1>1. Finishes(r) => req' \in OAuthReqs
  BY <1>0 DEF Finishes, OAuthReqs
<1>2. \A place \in OAuthPlaces : Moves(r, place) => req' \in OAuthReqs
  BY <1>0 DEF Moves, OAuthReqs
<1>3. ASSUME NEW place \in OAuthPlaces, NEW i \in 0..MaxSessions
      PROVE  [req EXCEPT ![r].pc = place, ![r].id = i] \in OAuthReqs
  BY <1>0 DEF OAuthReqs
<1>4. ASSUME NEW place \in OAuthPlaces, NEW i \in 0..MaxSessions, NEW n \in Nat
      PROVE  [req EXCEPT ![r].pc = place, ![r].id = i, ![r].token = n] \in OAuthReqs
  BY <1>0 DEF OAuthReqs
<1>5. req' \in OAuthReqs <=>
        req' \in [OAuthRequests -> [pc: OAuthPlaces, id: 0..MaxSessions, gen: Nat, token: Nat]]
  BY DEF OAuthReqs
<1> QED BY <1>1, <1>2, <1>3, <1>4, <1>5

LEMMA OAuthFitsLogin ==
  ASSUME OAuthFits, OAuthIdInv, NEW r \in OAuthRequests, LoginStep(r) \/ SwitchSession(r)
  PROVE  OAuthFits'
<1>0. MaxSessions \in Nat /\ 0 \in 0..MaxSessions /\ 0 \in Nat /\ 1 \in Nat
  BY OAuthAssumption
<1>1. CASE ReadState(r)
  BY <1>1 DEF ReadState, Moves, OAuthFits, OAuthPlaces
<1>2. CASE ConsumeState(r)
  <2>1. req' \in OAuthReqs
    BY <1>2, OAuthReqFits DEF ConsumeState, OAuthPlaces
  <2> QED BY <1>2, <2>1, OAuthReqFits DEF ConsumeState, OAuthFits
<1>3. CASE ExchangeCode(r)
  <2>1. CASE created' = created + 1 /\ created < MaxSessions /\ grant' = [grant EXCEPT ![created + 1] = 1]
             /\ req' = [req EXCEPT ![r].pc = "save", ![r].id = created + 1]
    <3>1. created + 1 \in 0..MaxSessions
      BY <1>0, <2>1 DEF OAuthFits
    <3>2. grant' \in [Ids -> Nat]
      BY <1>0, <2>1 DEF OAuthFits
    <3>3. req' \in [OAuthRequests -> [pc: OAuthPlaces, id: 0..MaxSessions, gen: Nat, token: Nat]]
      BY <2>1, <3>1 DEF OAuthFits, OAuthPlaces
    <3> QED BY <1>3, <2>1, <3>1, <3>2, <3>3 DEF ExchangeCode, OAuthFits
  <2>2. CASE Finishes(r) /\ UNCHANGED <<created, grant>>
    BY <1>0, <1>3, <2>2 DEF ExchangeCode, Finishes, Rest, OAuthFits, OAuthPlaces
  <2> QED BY <1>3, <2>1, <2>2 DEF ExchangeCode
<1>4. CASE SaveSession(r)
  <2>1. sessions' \in [Ids -> OAuthRows]
    BY <1>0, <1>4 DEF SaveSession, OAuthFits, OAuthRows
  <2> QED BY <1>0, <1>4, <2>1 DEF SaveSession, StoreOnly, Finishes, Rest, OAuthFits, OAuthPlaces
<1>5. CASE SwitchSession(r)
  <2>0. ASSUME NEW row \in OAuthRows, NEW b \in BOOLEAN PROVE [row EXCEPT !.current = b] \in OAuthRows
    BY DEF OAuthRows
  <2>1. sessions' \in [Ids -> OAuthRows]
    <3>1. PICK i \in Rows : sessions' = [j \in Ids |-> [sessions[j] EXCEPT !.current = (j = i)]]
      BY <1>5 DEF SwitchSession
    <3>2. \A j \in Ids : [sessions[j] EXCEPT !.current = (j = i)] \in OAuthRows
      BY <2>0 DEF OAuthFits
    <3> QED BY <3>1, <3>2
  <2> QED BY <1>5, <2>1 DEF SwitchSession, StoreOnly, OAuthFits
<1> QED BY <1>1, <1>2, <1>3, <1>4, <1>5 DEF LoginStep

LEMMA OAuthFitsRefresh ==
  ASSUME OAuthFits, OAuthIdInv, NEW r \in OAuthRequests, RefreshStep(r)
  PROVE  OAuthFits'
<1> DEFINE Reqs == [OAuthRequests -> [pc: OAuthPlaces, id: 0..MaxSessions, gen: Nat, token: Nat]]
<1>0. /\ MaxSessions \in Nat /\ 0 \in 0..MaxSessions /\ 0 \in Nat
      /\ \A i \in Ids : i \in 0..MaxSessions
      /\ service \in Nat /\ req \in Reqs /\ grant \in [Ids -> Nat]
      /\ sessions \in [Ids -> OAuthRows]
      /\ refreshMu \in [1..(MaxReplaced + 1) -> OAuthRequests \cup {"free"}]
  BY OAuthAssumption DEF Ids, OAuthFits
<1>1. Rest \in [pc: OAuthPlaces, id: 0..MaxSessions, gen: Nat, token: Nat]
  BY <1>0 DEF Rest, OAuthPlaces
<1>2. HasCurrent => /\ TheCurrent \in Ids /\ TheCurrent \in 0..MaxSessions
                    /\ sessions[TheCurrent].refresh \in Nat
  BY <1>0, OAuthTheCurrent, OAuthNoSession DEF OAuthRows
<1>3. Unlocks(r) => refreshMu' \in [1..(MaxReplaced + 1) -> OAuthRequests \cup {"free"}]
  BY <1>0 DEF Unlocks
<1>4. Finishes(r) => req' \in Reqs
  BY <1>0, <1>1 DEF Finishes
<1>5. req[r].pc \in {"ask", "store"} => req[r].id \in Ids
  BY <1>0 DEF OAuthIdInv, Ids, OAuthFits
<1>6. CASE NeedToken(r)
  <2>1. req' \in Reqs
    BY <1>0, <1>2, <1>6 DEF NeedToken, OAuthPlaces
  <2> QED BY <1>6, <2>1 DEF NeedToken, ReqOnly, StoreOnly, OAuthFits
<1>7. CASE NoRefresh(r)
  BY <1>4, <1>7 DEF NoRefresh, ReqOnly, StoreOnly, OAuthFits
<1>8. CASE BeginRefresh(r)
  <2>1. req' \in Reqs
    <3>1. "ask" \in OAuthPlaces
      BY DEF OAuthPlaces
    <3> QED BY <1>2, <1>8, <3>1, OAuthReqFits DEF BeginRefresh
  <2>2. refreshMu' \in [1..(MaxReplaced + 1) -> OAuthRequests \cup {"free"}]
    BY <1>0, <1>8 DEF BeginRefresh
  <2> QED BY <1>8, <2>1, <2>2 DEF BeginRefresh, OAuthFits
<1>9. CASE Rotate(r)
  <2>1. PICK next \in {req[r].token, req[r].token + 1} :
          /\ grant' = [grant EXCEPT ![req[r].id] = next]
          /\ req' = [req EXCEPT ![r].pc = "store", ![r].token = next]
    BY <1>9 DEF Rotate
  <2>2. next \in Nat
    BY <1>0, <2>1
  <2>3. req' \in Reqs /\ grant' \in [Ids -> Nat]
    BY <1>0, <2>1, <2>2 DEF OAuthPlaces
  <2> QED BY <1>9, <2>3 DEF Rotate, OAuthFits
<1>10. CASE AnswerLost(r)
  <2>1. grant' \in [Ids -> Nat]
    BY <1>0, <1>10 DEF AnswerLost
  <2>2. lost' \subseteq Ids
    BY <1>5, <1>10 DEF AnswerLost, OAuthFits
  <2> QED BY <1>3, <1>4, <1>10, <2>1, <2>2 DEF AnswerLost, OAuthFits
<1>11. CASE RefreshRefused(r)
  <2>1. grant' \in [Ids -> Nat]
    BY <1>0, <1>11 DEF RefreshRefused
  <2>2. reused' \subseteq Ids
    BY <1>5, <1>11 DEF RefreshRefused, OAuthFits
  <2> QED BY <1>3, <1>4, <1>11, <2>1, <2>2 DEF RefreshRefused, OAuthFits
<1>12. CASE UpdateToken(r)
  <2>1. sessions' \in [Ids -> OAuthRows]
    BY <1>0, <1>12 DEF UpdateToken, OAuthRows
  <2> QED BY <1>3, <1>4, <1>12, <2>1 DEF UpdateToken, OAuthFits
<1> QED BY <1>6, <1>7, <1>8, <1>9, <1>10, <1>11, <1>12 DEF RefreshStep

LEMMA OAuthFitsLogout ==
  ASSUME OAuthFits, NEW r \in OAuthRequests, LogoutStep(r)
  PROVE  OAuthFits'
<1> DEFINE Reqs == [OAuthRequests -> [pc: OAuthPlaces, id: 0..MaxSessions, gen: Nat, token: Nat]]
<1>0. /\ MaxSessions \in Nat /\ 0 \in 0..MaxSessions /\ 0 \in Nat
      /\ \A i \in Ids : i \in 0..MaxSessions /\ i \in Nat
      /\ req \in Reqs /\ grant \in [Ids -> Nat] /\ sessions \in [Ids -> OAuthRows]
  BY OAuthAssumption DEF Ids, OAuthFits
<1>1. Rest \in [pc: OAuthPlaces, id: 0..MaxSessions, gen: Nat, token: Nat]
  BY <1>0 DEF Rest, OAuthPlaces
<1>2. HasCurrent => TheCurrent \in Ids
  BY <1>0, OAuthTheCurrent, OAuthNoSession
<1>3. Finishes(r) => req' \in Reqs
  BY <1>0, <1>1 DEF Finishes
<1>4. \A place \in OAuthPlaces : Moves(r, place) => req' \in Reqs
  BY <1>0 DEF Moves
<1>5. CASE BeginLogout(r)
  <2>1. PICK i \in Rows \cup {0} :
          \/ req' = [req EXCEPT ![r].pc = "resolve", ![r].id = i]
          \/ /\ i # 0 \/ HasCurrent
             /\ LET j == IF i = 0 THEN TheCurrent ELSE i IN
                  req' = [req EXCEPT ![r] = [pc |-> "revoke", id |-> i, gen |-> j,
                                             token |-> sessions[j].refresh]]
    BY <1>5 DEF BeginLogout
  <2>2. i \in 0..MaxSessions /\ (i # 0 => i \in Ids)
    BY <1>0, OAuthNoSession
  <2>3. CASE req' = [req EXCEPT ![r].pc = "resolve", ![r].id = i]
    <3>1. req' \in Reqs
      BY <1>0, <2>2, <2>3 DEF OAuthPlaces
    <3> QED BY <1>5, <3>1 DEF BeginLogout, ReqOnly, StoreOnly, OAuthFits
  <2>4. ASSUME NEW j \in Ids,
               req' = [req EXCEPT ![r] = [pc |-> "revoke", id |-> i, gen |-> j,
                                          token |-> sessions[j].refresh]]
        PROVE  OAuthFits'
    <3>1. sessions[j].refresh \in Nat
      BY <1>0 DEF OAuthRows
    <3>2. req' \in Reqs
      BY <1>0, <2>2, <2>4, <3>1 DEF OAuthPlaces
    <3> QED BY <1>5, <3>2 DEF BeginLogout, ReqOnly, StoreOnly, OAuthFits
  <2> QED BY <1>2, <2>1, <2>2, <2>3, <2>4
<1>6. CASE Revoke(r)
  <2>1. req' \in Reqs
    BY <1>4, <1>6 DEF Revoke, OAuthPlaces
  <2>2. grant' \in [Ids -> Nat]
    BY <1>0, <1>6 DEF Revoke
  <2> QED BY <1>6, <2>1, <2>2 DEF Revoke, OAuthFits
<1>7. CASE Resolve(r)
  <2>1. HasCurrent => [req EXCEPT ![r].pc = "remove", ![r].id = TheCurrent] \in Reqs
    BY <1>0, <1>2 DEF OAuthPlaces
  <2>2. req' \in Reqs
    BY <1>3, <1>4, <1>7, <2>1 DEF Resolve, OAuthPlaces
  <2> QED BY <1>7, <2>2 DEF Resolve, ReqOnly, StoreOnly, OAuthFits
<1>8. CASE RemoveSession(r)
  <2>1. req' \in Reqs
    BY <1>3, <1>4, <1>8 DEF RemoveSession, OAuthPlaces
  <2>2. sessions' \in [Ids -> OAuthRows]
    BY <1>0, <1>8, OAuthNoSession DEF RemoveSession
  <2> QED BY <1>8, <2>1, <2>2 DEF RemoveSession, StoreOnly, OAuthFits
<1>9. CASE Elect(r)
  <2>1. req' \in Reqs
    BY <1>3, <1>4, <1>9 DEF Elect, OAuthPlaces
  <2> QED BY <1>9, <2>1 DEF Elect, ReqOnly, StoreOnly, OAuthFits
<1>10. CASE FindOldest(r)
  <2>1. Rows # {} => [req EXCEPT ![r].pc = "promote", ![r].id = OldestRow] \in Reqs
    <3>1. "promote" \in OAuthPlaces
      BY DEF OAuthPlaces
    <3>2. Rows # {} => OldestRow \in 0..MaxSessions
      BY <1>0, OAuthOldestRow, OAuthNoSession
    <3> QED BY <3>1, <3>2, OAuthReqFits DEF OAuthReqs
  <2>2. req' \in Reqs
    BY <1>3, <1>10, <2>1 DEF FindOldest
  <2> QED BY <1>10, <2>2 DEF FindOldest, ReqOnly, StoreOnly, OAuthFits
<1>11. CASE Promote(r)
  <2>1. sessions' \in [Ids -> OAuthRows]
    BY <1>0, <1>11 DEF Promote, OAuthRows
  <2>2. contested' \in BOOLEAN
    BY <1>11 DEF Promote, OAuthFits
  <2> QED BY <1>3, <1>11, <2>1, <2>2 DEF Promote, StoreOnly, OAuthFits
<1> QED BY <1>5, <1>6, <1>7, <1>8, <1>9, <1>10, <1>11 DEF LogoutStep

OAuthTime == AccessExpires \/ StateExpires \/ resetOAuthService \/ OAuthCrash

LEMMA OAuthFitsTime == OAuthFits /\ OAuthIdInv /\ OAuthTime => OAuthFits'
<1> SUFFICES ASSUME OAuthFits, OAuthIdInv, OAuthTime PROVE OAuthFits'
  OBVIOUS
<1>0. MaxSessions \in Nat /\ MaxReplaced \in Nat /\ 0 \in 0..MaxSessions
  BY OAuthAssumption
<1>1. CASE AccessExpires
  <2>1. sessions' \in [Ids -> OAuthRows]
    <3>1. PICK i \in Rows : sessions' = [sessions EXCEPT ![i].fresh = FALSE]
      BY <1>1 DEF AccessExpires
    <3>2. [sessions[i] EXCEPT !.fresh = FALSE] \in OAuthRows
      BY OAuthNoSession DEF OAuthFits, OAuthRows
    <3> QED BY <3>1, <3>2 DEF OAuthFits
  <2> QED BY <1>1, <2>1 DEF AccessExpires, OAuthFits
<1>2. CASE StateExpires
  BY <1>2 DEF StateExpires, OAuthFits
<1>3. CASE resetOAuthService
  <2>1. service + 1 \in 1..(MaxReplaced + 1)
    BY <1>0, <1>3 DEF resetOAuthService, OAuthFits
  <2> QED BY <1>3, <2>1 DEF resetOAuthService, OAuthFits
<1>4. CASE OAuthCrash
  <2>1. service + 1 \in 1..(MaxReplaced + 1)
    BY <1>0, <1>4 DEF OAuthCrash, OAuthFits
  <2>2. req' \in [OAuthRequests -> [pc: OAuthPlaces, id: 0..MaxSessions, gen: Nat, token: Nat]]
    BY <1>0, <1>4 DEF OAuthCrash, Rest, OAuthPlaces
  <2>3. \A r \in OAuthRequests : req[r].pc = "store" => req[r].id \in Ids
    BY <1>0 DEF OAuthIdInv, OAuthFits, Ids
  <2>4. lost' \subseteq Ids /\ contested' \in BOOLEAN
    BY <1>4, <2>3 DEF OAuthCrash, OAuthFits
  <2> QED BY <1>4, <2>1, <2>2, <2>4 DEF OAuthCrash, OAuthFits
<1> QED BY <1>1, <1>2, <1>3, <1>4 DEF OAuthTime

LEMMA OAuthNextIs ==
  [OAuthNext]_oauthVars =>
    \/ \E r \in OAuthRequests : LoginStep(r) \/ SwitchSession(r) \/ RefreshStep(r) \/ LogoutStep(r)
    \/ OAuthTime \/ UNCHANGED oauthVars
BY DEF OAuthNext, OAuthTime

LEMMA OAuthFitsNext == OAuthFits /\ OAuthIdInv /\ [OAuthNext]_oauthVars => OAuthFits'
<1>1. OAuthFits /\ UNCHANGED oauthVars => OAuthFits'
  BY DEF OAuthFits, oauthVars
<1> QED BY <1>1, OAuthNextIs, OAuthFitsLogin, OAuthFitsRefresh, OAuthFitsLogout, OAuthFitsTime


-----------------------------------------------------------------------------
(***************************************************************************)
(* refreshMu: one request of a generation is between Lock and Unlock.      *)
(***************************************************************************)
\* A request moves alone; it holds its mutex, takes it, or gives it back.
OAuthAlone(r) ==
  /\ \A q \in OAuthRequests \ {r} : req'[q] = req[q]
  /\ UNCHANGED <<service, replaced>>

OAuthMutex(r) ==
  \/ /\ UNCHANGED refreshMu
     /\ \/ req'[r].pc \notin {"queue", "ask", "store"}
        \/ req'[r].pc = "queue" /\ req'[r].gen = service
        \/ req[r].pc \in {"ask", "store"} /\ req'[r].gen = req[r].gen
        \/ req' = req
  \/ /\ refreshMu' = [refreshMu EXCEPT ![req[r].gen] = "free"]
     /\ req[r].pc \in {"ask", "store"} /\ req'[r].pc = "idle"
  \/ /\ refreshMu[req[r].gen] = "free"
     /\ refreshMu' = [refreshMu EXCEPT ![req[r].gen] = r]
     /\ req[r].pc = "queue" /\ req'[r].pc = "ask" /\ req'[r].gen = req[r].gen

LEMMA OAuthLoginAlone ==
  ASSUME OAuthFits, NEW r \in OAuthRequests, LoginStep(r) \/ SwitchSession(r)
  PROVE  OAuthAlone(r) /\ OAuthMutex(r)
<1>1. CASE ReadState(r)
  BY <1>1 DEF ReadState, Moves, OAuthFits, OAuthAlone, OAuthMutex
<1>2. CASE ConsumeState(r)
  BY <1>2 DEF ConsumeState, Moves, Finishes, Rest, OAuthFits, OAuthAlone, OAuthMutex
<1>3. CASE ExchangeCode(r)
  BY <1>3 DEF ExchangeCode, Finishes, Rest, OAuthFits, OAuthAlone, OAuthMutex
<1>4. CASE SaveSession(r)
  BY <1>4 DEF SaveSession, StoreOnly, Finishes, Rest, OAuthFits, OAuthAlone, OAuthMutex
<1>5. CASE SwitchSession(r)
  BY <1>5 DEF SwitchSession, StoreOnly, OAuthAlone, OAuthMutex
<1> QED BY <1>1, <1>2, <1>3, <1>4, <1>5 DEF LoginStep

LEMMA OAuthRefreshAlone ==
  ASSUME OAuthFits, NEW r \in OAuthRequests, RefreshStep(r)
  PROVE  OAuthAlone(r) /\ OAuthMutex(r)
<1>1. CASE NeedToken(r)
  BY <1>1 DEF NeedToken, ReqOnly, StoreOnly, OAuthFits, OAuthAlone, OAuthMutex
<1>2. CASE NoRefresh(r)
  BY <1>2 DEF NoRefresh, Finishes, Rest, ReqOnly, StoreOnly, OAuthFits, OAuthAlone, OAuthMutex
<1>3. CASE BeginRefresh(r)
  BY <1>3 DEF BeginRefresh, GetsLock, OAuthFits, OAuthAlone, OAuthMutex
<1>4. CASE Rotate(r)
  BY <1>4 DEF Rotate, OAuthFits, OAuthAlone, OAuthMutex
<1>5. CASE AnswerLost(r)
  BY <1>5 DEF AnswerLost, Finishes, Unlocks, Rest, OAuthFits, OAuthAlone, OAuthMutex
<1>6. CASE RefreshRefused(r)
  BY <1>6 DEF RefreshRefused, Finishes, Unlocks, Rest, OAuthFits, OAuthAlone, OAuthMutex
<1>7. CASE UpdateToken(r)
  BY <1>7 DEF UpdateToken, Finishes, Unlocks, Rest, OAuthFits, OAuthAlone, OAuthMutex
<1> QED BY <1>1, <1>2, <1>3, <1>4, <1>5, <1>6, <1>7 DEF RefreshStep

LEMMA OAuthLogoutAlone ==
  ASSUME OAuthFits, NEW r \in OAuthRequests, LogoutStep(r)
  PROVE  /\ OAuthAlone(r) /\ UNCHANGED refreshMu
         /\ req'[r].pc \notin {"save", "queue", "ask", "store"}
<1>1. CASE BeginLogout(r)
  BY <1>1 DEF BeginLogout, ReqOnly, StoreOnly, OAuthFits, OAuthAlone
<1>2. CASE Revoke(r)
  BY <1>2 DEF Revoke, Moves, OAuthFits, OAuthAlone
<1>3. CASE Resolve(r)
  BY <1>3 DEF Resolve, Moves, Finishes, Rest, ReqOnly, StoreOnly, OAuthFits, OAuthAlone
<1>4. CASE RemoveSession(r)
  BY <1>4 DEF RemoveSession, Moves, Finishes, Rest, StoreOnly, OAuthFits, OAuthAlone
<1>5. CASE Elect(r)
  BY <1>5 DEF Elect, Moves, Finishes, Rest, ReqOnly, StoreOnly, OAuthFits, OAuthAlone
<1>6. CASE FindOldest(r)
  BY <1>6 DEF FindOldest, Finishes, Rest, ReqOnly, StoreOnly, OAuthFits, OAuthAlone
<1>7. CASE Promote(r)
  BY <1>7 DEF Promote, Finishes, Rest, StoreOnly, OAuthFits, OAuthAlone
<1> QED BY <1>1, <1>2, <1>3, <1>4, <1>5, <1>6, <1>7 DEF LogoutStep

LEMMA OAuthAlones ==
  ASSUME OAuthFits, NEW r \in OAuthRequests,
         LoginStep(r) \/ SwitchSession(r) \/ RefreshStep(r) \/ LogoutStep(r)
  PROVE  OAuthAlone(r) /\ OAuthMutex(r)
BY OAuthLoginAlone, OAuthRefreshAlone, OAuthLogoutAlone DEF OAuthMutex

LEMMA OAuthLockNext == OAuthFits /\ OAuthLockInv /\ [OAuthNext]_oauthVars => OAuthLockInv'
<1> SUFFICES ASSUME OAuthFits, OAuthLockInv, [OAuthNext]_oauthVars PROVE OAuthLockInv'
  OBVIOUS
<1>0. service \in Nat /\ service >= 1 /\ MaxReplaced \in Nat /\ service \in 1..(MaxReplaced + 1)
  BY OAuthAssumption DEF OAuthFits
<1>1. ASSUME NEW r \in OAuthRequests, OAuthAlone(r), OAuthMutex(r) PROVE OAuthLockInv'
  <2>1. service \in 1..service
    BY <1>0
  <2>2. \A q \in OAuthRequests : req[q].pc \in {"queue", "ask", "store"} =>
          req[q].gen \in 1..(MaxReplaced + 1)
    BY <1>0 DEF OAuthLockInv
  <2> DEFINE Kept(q) ==
        /\ req'[q].pc \in {"queue", "ask", "store"} =>
             req'[q].gen \in 1..service' /\ (~replaced' => req'[q].gen = service')
        /\ req'[q].pc \in {"ask", "store"} => refreshMu'[req'[q].gen] = q
  <2>3. CASE UNCHANGED refreshMu
    <3>1. \A q \in OAuthRequests \ {r} : Kept(q)
      BY <1>1, <2>3 DEF OAuthLockInv, OAuthAlone
    <3>2. Kept(r)
      <4>1. refreshMu' = refreshMu /\ service' = service /\ replaced' = replaced
        BY <1>1, <2>3 DEF OAuthAlone
      <4>2. CASE req'[r].pc \notin {"queue", "ask", "store"}
        BY <4>2
      <4>3. CASE req'[r].pc = "queue" /\ req'[r].gen = service
        BY <2>1, <4>1, <4>3
      <4>4. CASE req[r].pc \in {"ask", "store"} /\ req'[r].gen = req[r].gen
        BY <4>1, <4>4 DEF OAuthLockInv
      <4>5. CASE req' = req
        BY <4>1, <4>5 DEF OAuthLockInv
      <4>6. CASE refreshMu' = [refreshMu EXCEPT ![req[r].gen] = "free"] /\ req'[r].pc = "idle"
        BY <4>6
      <4>7. CASE /\ refreshMu[req[r].gen] = "free" /\ req[r].pc = "queue"
                 /\ refreshMu' = [refreshMu EXCEPT ![req[r].gen] = r]
        BY <2>2, <4>1, <4>7, OAuthAssumption DEF OAuthFits
      <4> QED BY <1>1, <4>2, <4>3, <4>4, <4>5, <4>6, <4>7 DEF OAuthMutex
    <3> QED BY <3>1, <3>2 DEF OAuthLockInv
  <2>4. CASE /\ refreshMu' = [refreshMu EXCEPT ![req[r].gen] = "free"]
             /\ req[r].pc \in {"ask", "store"} /\ req'[r].pc = "idle"
    BY <1>1, <2>2, <2>4 DEF OAuthLockInv, OAuthAlone, OAuthFits
  <2>5. CASE /\ refreshMu[req[r].gen] = "free"
             /\ refreshMu' = [refreshMu EXCEPT ![req[r].gen] = r]
             /\ req[r].pc = "queue" /\ req'[r].pc = "ask" /\ req'[r].gen = req[r].gen
    <3>1. ASSUME NEW q \in OAuthRequests \ {r} PROVE Kept(q)
      <4>1. req'[q] = req[q] /\ service' = service /\ replaced' = replaced
        BY <1>1 DEF OAuthAlone
      <4>2. req[q].pc \in {"ask", "store"} => req[q].gen # req[r].gen
        BY <2>5, OAuthAssumption DEF OAuthLockInv
      <4>3. req[q].pc \in {"ask", "store"} => refreshMu'[req[q].gen] = q
        BY <2>2, <2>5, <4>2 DEF OAuthLockInv, OAuthFits
      <4> QED BY <4>1, <4>3 DEF OAuthLockInv
    <3>2. Kept(r)
      BY <1>1, <2>2, <2>5 DEF OAuthLockInv, OAuthAlone, OAuthFits
    <3> QED BY <3>1, <3>2 DEF OAuthLockInv
  <2> QED BY <1>1, <2>3, <2>4, <2>5 DEF OAuthMutex
<1>2. CASE AccessExpires
  BY <1>2 DEF AccessExpires, OAuthLockInv
<1>3. CASE StateExpires
  BY <1>3 DEF StateExpires, OAuthLockInv
<1>4. CASE resetOAuthService
  BY <1>0, <1>4 DEF resetOAuthService, OAuthLockInv
<1>5. CASE OAuthCrash
  BY <1>5 DEF OAuthCrash, OAuthLockInv, Rest
<1>6. CASE UNCHANGED oauthVars
  BY <1>6 DEF oauthVars, OAuthLockInv
<1> QED BY <1>1, <1>2, <1>3, <1>4, <1>5, <1>6, OAuthNextIs, OAuthAlones DEF OAuthTime

\* While the service is not replaced, one request at a time refreshes.
LEMMA OAuthOneRefresh ==
  ASSUME OAuthLockInv, ~replaced, NEW r \in OAuthRequests, NEW q \in OAuthRequests,
         req[r].pc \in {"ask", "store"}, req[q].pc \in {"ask", "store"}
  PROVE  q = r
BY DEF OAuthLockInv


-----------------------------------------------------------------------------
(***************************************************************************)
(* What the steps do to the rows.                                          *)
(***************************************************************************)
LEMMA OAuthRowExcept ==
  /\ [NoSession EXCEPT !.current = FALSE] = NoSession
  /\ \A row \in OAuthRows : row.refresh # 0 => row # NoSession
<1>1. ASSUME NEW row \in OAuthRows, row.current = FALSE PROVE [row EXCEPT !.current = FALSE] = row
  BY <1>1 DEF OAuthRows
<1>2. NoSession \in OAuthRows /\ NoSession.current = FALSE /\ NoSession.refresh = 0
  BY OAuthNoSession DEF NoSession
<1> QED BY <1>1, <1>2

\* Rows stay rows, with their refresh tokens.
OAuthSameRows == \A i \in Ids : sessions'[i].refresh = sessions[i].refresh
                                /\ (i \in Rows' <=> i \in Rows)

LEMMA OAuthSwitchRows ==
  ASSUME OAuthFits, OAuthRowInv, NEW r \in OAuthRequests, SwitchSession(r)
  PROVE  /\ OAuthSameRows /\ contested' = (contested \/ Electing # {})
         /\ \E i \in Rows : Currents' = {i}
<1>1. PICK i \in Rows : sessions' = [j \in Ids |-> [sessions[j] EXCEPT !.current = (j = i)]]
  BY DEF SwitchSession
<1>2. i \in Ids /\ sessions \in [Ids -> OAuthRows]
  BY OAuthNoSession DEF OAuthFits
<1>3. ASSUME NEW j \in Ids
      PROVE  /\ sessions'[j].refresh = sessions[j].refresh /\ (sessions'[j].current <=> j = i)
             /\ j \in Rows' <=> j \in Rows
  <2>1. PICK b \in BOOLEAN : b <=> (j = i)
    OBVIOUS
  <2>2. sessions'[j] = [sessions[j] EXCEPT !.current = b]
    BY <1>1, <2>1
  <2>3. /\ sessions'[j].refresh = sessions[j].refresh /\ sessions'[j].current = b
        /\ sessions'[j] \in OAuthRows
    BY <1>2, <2>2 DEF OAuthRows
  <2>4. j \in Rows => sessions'[j] # NoSession
    BY <2>3, OAuthRowExcept DEF OAuthRowInv
  <2>5. j \notin Rows => sessions'[j] = NoSession
    <3>1. SUFFICES ASSUME j \notin Rows PROVE sessions'[j] = NoSession
      OBVIOUS
    <3>2. sessions[j] = NoSession /\ j # i
      BY <3>1, OAuthNoSession
    <3> QED BY <1>1, <3>2, OAuthRowExcept
  <2> QED BY <2>1, <2>3, <2>4, <2>5 DEF Rows
<1>4. Currents' = {i}
  BY <1>2, <1>3 DEF Currents
<1> QED BY <1>3, <1>4 DEF OAuthSameRows, SwitchSession

LEMMA OAuthPromoteRows ==
  ASSUME OAuthFits, OAuthRowInv, NEW r \in OAuthRequests, Promote(r)
  PROVE  /\ OAuthSameRows
         /\ req[r].id \in Rows => Currents' = Currents \cup {req[r].id} /\ contested' = contested
         /\ req[r].id \notin Rows => Currents' = Currents /\ contested'
<1>0. sessions \in [Ids -> OAuthRows] /\ contested \in BOOLEAN
  BY DEF OAuthFits
<1>1. CASE req[r].id \in Rows
  <2>0. PICK i \in Rows : i = req[r].id
    BY <1>1
  <2>1. sessions' = [sessions EXCEPT ![i].current = TRUE] /\ i \in Ids
    BY <1>1, <2>0, OAuthNoSession DEF Promote
  <2>2. /\ sessions'[i] = [sessions[i] EXCEPT !.current = TRUE]
        /\ \A j \in Ids \ {i} : sessions'[j] = sessions[j]
    BY <1>0, <2>1
  <2>3. /\ sessions'[i].refresh = sessions[i].refresh /\ sessions'[i].current
    BY <1>0, <2>1, <2>2 DEF OAuthRows
  <2>7. sessions'[i] # NoSession
    BY <2>1, <2>3, OAuthNoSession DEF OAuthRowInv
  <2>4. OAuthSameRows
    BY <2>1, <2>2, <2>3, <2>7 DEF OAuthSameRows, Rows
  <2>5. Currents' = Currents \cup {i}
    BY <2>1, <2>2, <2>3 DEF Currents
  <2>6. contested' = contested
    BY <1>0, <1>1 DEF Promote
  <2> QED BY <1>1, <2>0, <2>4, <2>5, <2>6
<1>2. CASE req[r].id \notin Rows
  <2>1. sessions' = sessions /\ contested'
    BY <1>2 DEF Promote
  <2> QED BY <1>2, <2>1 DEF OAuthSameRows, Rows, Currents
<1> QED BY <1>1, <1>2

LEMMA OAuthExpiryRows ==
  ASSUME OAuthFits, OAuthRowInv, AccessExpires
  PROVE  OAuthSameRows /\ Currents' = Currents
<1>0. sessions \in [Ids -> OAuthRows]
  BY DEF OAuthFits
<1>1. PICK i \in Rows : sessions' = [sessions EXCEPT ![i].fresh = FALSE]
  BY DEF AccessExpires
<1>2. i \in Ids
  BY OAuthNoSession
<1>3. /\ sessions'[i] = [sessions[i] EXCEPT !.fresh = FALSE]
      /\ \A j \in Ids \ {i} : sessions'[j] = sessions[j]
  BY <1>0, <1>1, <1>2
<1>4. /\ sessions'[i].refresh = sessions[i].refresh /\ (sessions'[i].current <=> sessions[i].current)
  BY <1>0, <1>2, <1>3 DEF OAuthRows
<1>5. sessions'[i] # NoSession
  BY <1>2, <1>4, OAuthNoSession DEF OAuthRowInv
<1>6. \A j \in Ids : sessions'[j].current <=> sessions[j].current
  BY <1>3, <1>4
<1>7. Currents' = Currents
  BY <1>6 DEF Currents
<1> QED BY <1>2, <1>3, <1>4, <1>5, <1>7 DEF OAuthSameRows, Rows

LEMMA OAuthUpdateRows ==
  ASSUME OAuthFits, OAuthRowInv, NEW r \in OAuthRequests, UpdateToken(r), req[r].token # 0
  PROVE  /\ \A i \in Ids : i \in Rows' <=> i \in Rows
         /\ Currents' = Currents
         /\ \A i \in Ids : sessions'[i].refresh = IF i = req[r].id /\ i \in Rows
                                                    THEN req[r].token ELSE sessions[i].refresh
<1>0. sessions \in [Ids -> OAuthRows] /\ req[r].token \in Nat
  BY DEF OAuthFits
<1>1. CASE req[r].id \in Rows
  <2>0. PICK i \in Rows, n \in Nat : i = req[r].id /\ n = req[r].token
    BY <1>0, <1>1
  <2>1. sessions' = [sessions EXCEPT ![i].refresh = n, ![i].fresh = TRUE] /\ i \in Ids
    BY <1>1, <2>0, OAuthNoSession DEF UpdateToken
  <2>2. /\ sessions'[i] = [sessions[i] EXCEPT !.refresh = n, !.fresh = TRUE]
        /\ \A j \in Ids \ {i} : sessions'[j] = sessions[j]
    BY <1>0, <2>1
  <2>3. /\ sessions'[i].refresh = n /\ (sessions'[i].current <=> sessions[i].current)
        /\ n # 0
    BY <1>0, <2>0, <2>1, <2>2 DEF OAuthRows
  <2>4. sessions'[i] # NoSession
    BY <2>3, OAuthNoSession
  <2>5. \A j \in Ids : j \in Rows' <=> j \in Rows
    BY <2>1, <2>2, <2>4 DEF Rows
  <2>7. \A j \in Ids : sessions'[j].current <=> sessions[j].current
    BY <2>2, <2>3
  <2>6. Currents' = Currents
    BY <2>7 DEF Currents
  <2>8. ASSUME NEW j \in Ids
        PROVE  sessions'[j].refresh = IF j = req[r].id /\ j \in Rows
                                        THEN req[r].token ELSE sessions[j].refresh
    <3>1. CASE j = i
      BY <2>0, <2>3, <3>1
    <3>2. CASE j # i
      BY <2>0, <2>2, <3>2
    <3> QED BY <3>1, <3>2
  <2> QED BY <2>5, <2>6, <2>8
<1>2. CASE req[r].id \notin Rows
  <2>1. sessions' = sessions
    BY <1>2 DEF UpdateToken
  <2> QED BY <1>2, <2>1 DEF Rows, Currents
<1> QED BY <1>1, <1>2

LEMMA OAuthRemoveRows ==
  ASSUME OAuthFits, NEW r \in OAuthRequests, RemoveSession(r)
  PROVE  /\ \A i \in Ids : i \in Rows' <=> i \in Rows /\ i # req[r].id
         /\ Currents' \subseteq Currents
         /\ \A i \in Rows' : sessions'[i] = sessions[i]
<1>0. sessions \in [Ids -> OAuthRows]
  BY DEF OAuthFits
<1>1. CASE req[r].id \in Rows
  <2>0. PICK i \in Rows : i = req[r].id
    BY <1>1
  <2>1. sessions' = [sessions EXCEPT ![i] = NoSession] /\ i \in Ids
    BY <1>1, <2>0, OAuthNoSession DEF RemoveSession
  <2>2. sessions'[i] = NoSession /\ \A j \in Ids \ {i} : sessions'[j] = sessions[j]
    BY <1>0, <2>1
  <2> QED BY <2>0, <2>1, <2>2, OAuthNoSession DEF Rows, Currents
<1>2. CASE req[r].id \notin Rows
  <2>1. sessions' = sessions
    BY <1>2 DEF RemoveSession
  <2> QED BY <1>2, <2>1 DEF Rows, Currents
<1> QED BY <1>1, <1>2

LEMMA OAuthSaveRows ==
  ASSUME OAuthFits, OAuthRowInv, NEW r \in OAuthRequests, SaveSession(r), req[r].id \in Ids
  PROVE  /\ \A i \in Ids : i \in Rows' <=> i \in Rows \/ i = req[r].id
         /\ Currents' = {req[r].id} /\ contested' = (contested \/ Electing # {})
         /\ sessions'[req[r].id].refresh = 1
         /\ \A i \in Ids \ {req[r].id} : sessions'[i].refresh = sessions[i].refresh
<1>0. sessions \in [Ids -> OAuthRows]
  BY DEF OAuthFits
<1>1. PICK k \in Ids : k = req[r].id
  OBVIOUS
<1>2. sessions' = [i \in Ids |-> IF i = k THEN [refresh |-> 1, fresh |-> TRUE, current |-> TRUE]
                                          ELSE [sessions[i] EXCEPT !.current = FALSE]]
  BY <1>1 DEF SaveSession
<1>3. sessions'[k].refresh = 1 /\ sessions'[k].current /\ sessions'[k] # NoSession
  BY <1>2, OAuthNoSession
<1>4. ASSUME NEW i \in Ids \ {k}
      PROVE  /\ sessions'[i].refresh = sessions[i].refresh /\ ~sessions'[i].current
             /\ i \in Rows' <=> i \in Rows
  <2>1. sessions'[i] = [sessions[i] EXCEPT !.current = FALSE]
    BY <1>2
  <2>2. sessions'[i].refresh = sessions[i].refresh /\ ~sessions'[i].current /\ sessions'[i] \in OAuthRows
    BY <1>0, <2>1 DEF OAuthRows
  <2>3. i \in Rows => sessions'[i] # NoSession
    BY <2>2, OAuthRowExcept DEF OAuthRowInv
  <2>4. i \notin Rows => sessions'[i] = NoSession
    BY <2>1, OAuthNoSession, OAuthRowExcept
  <2> QED BY <2>2, <2>3, <2>4 DEF Rows
<1>5. Currents' = {k}
  BY <1>3, <1>4 DEF Currents
<1> QED BY <1>1, <1>3, <1>4, <1>5 DEF SaveSession, Rows


-----------------------------------------------------------------------------
(***************************************************************************)
(* Identities that are made, saved, refreshed and removed.                 *)
(***************************************************************************)
OAuthStays == UNCHANGED <<sessions, grant, created, lost, reused, contested, replaced>>

\* The steps that read the store and move a request, but refresh nothing.
OAuthReads(r) == \/ ReadState(r) \/ ConsumeState(r) \/ NeedToken(r) \/ NoRefresh(r)
                 \/ BeginLogout(r) \/ Resolve(r) \/ Elect(r) \/ FindOldest(r)

LEMMA OAuthReadsStay ==
  ASSUME OAuthFits, NEW r \in OAuthRequests, OAuthReads(r)
  PROVE  OAuthStays /\ OAuthAlone(r) /\ req'[r].pc \notin {"save", "ask", "store"}
<1>1. CASE ReadState(r)
  BY <1>1, OAuthAlones DEF ReadState, Moves, OAuthFits, OAuthStays, LoginStep
<1>2. CASE ConsumeState(r)
  BY <1>2, OAuthAlones DEF ConsumeState, Moves, Finishes, Rest, OAuthFits, OAuthStays, LoginStep
<1>3. CASE NeedToken(r)
  BY <1>3, OAuthAlones DEF NeedToken, ReqOnly, StoreOnly, OAuthFits, OAuthStays, RefreshStep
<1>4. CASE NoRefresh(r)
  BY <1>4, OAuthAlones DEF NoRefresh, Finishes, Rest, ReqOnly, StoreOnly, OAuthFits, OAuthStays, RefreshStep
<1>5. CASE BeginLogout(r)
  BY <1>5, OAuthLogoutAlone DEF BeginLogout, ReqOnly, StoreOnly, OAuthStays, OAuthAlone, LogoutStep
<1>6. CASE Resolve(r) \/ Elect(r) \/ FindOldest(r)
  BY <1>6, OAuthLogoutAlone DEF Resolve, Elect, FindOldest, ReqOnly, StoreOnly, OAuthStays, OAuthAlone,
     LogoutStep
<1> QED BY <1>1, <1>2, <1>3, <1>4, <1>5, <1>6 DEF OAuthReads

\* Every step of a request.
LEMMA OAuthStepIs ==
  ASSUME NEW r \in OAuthRequests,
         LoginStep(r) \/ SwitchSession(r) \/ RefreshStep(r) \/ LogoutStep(r)
  PROVE  \/ OAuthReads(r) \/ ExchangeCode(r) \/ SaveSession(r) \/ SwitchSession(r) \/ BeginRefresh(r)
         \/ Rotate(r) \/ AnswerLost(r) \/ RefreshRefused(r) \/ UpdateToken(r) \/ Revoke(r)
         \/ RemoveSession(r) \/ Promote(r)
BY DEF LoginStep, RefreshStep, LogoutStep, OAuthReads

LEMMA OAuthFacts ==
  ASSUME OAuthFits, OAuthIdInv
  PROVE  /\ MaxSessions \in Nat /\ created \in Nat /\ created \in 0..MaxSessions
         /\ sessions \in [Ids -> OAuthRows] /\ grant \in [Ids -> Nat]
         /\ \A i \in Ids : i \in Nat /\ i # 0
         /\ \A i : i \in 1..created => i \in Ids /\ i <= created
         /\ \A r \in OAuthRequests : req[r].pc \in {"save", "ask", "store"} => req[r].id \in Ids
                                       /\ req[r].id <= created
BY OAuthAssumption DEF OAuthFits, OAuthIdInv, Ids

LEMMA OAuthRowKept ==
  ASSUME OAuthFits, OAuthRowInv, OAuthIdInv, created' = created,
         \A i \in Ids : i \in Rows' => sessions'[i].refresh # 0 /\ (i \in Rows \/ i <= created),
         \A i \in Ids : i > created => grant'[i] = 0
  PROVE  OAuthRowInv'
<1>1. \A i \in Ids : i \in Rows => i <= created
  BY DEF OAuthRowInv
<1> QED BY <1>1 DEF OAuthRowInv

LEMMA OAuthRowNext ==
  ASSUME OAuthFits, OAuthRowInv, OAuthIdInv, OAuthTokenInv, [OAuthNext]_oauthVars
  PROVE  OAuthRowInv'
<1>0. /\ created \in Nat /\ created \in 0..MaxSessions /\ MaxSessions \in Nat
      /\ grant \in [Ids -> Nat] /\ sessions \in [Ids -> OAuthRows]
      /\ \A i \in Ids : i \in Nat
  BY OAuthFacts
<1>1. ASSUME OAuthSameRows, UNCHANGED <<grant, created>> PROVE OAuthRowInv'
  BY <1>1 DEF OAuthSameRows, OAuthRowInv
<1>2. ASSUME UNCHANGED <<sessions, created>>, NEW i \in Ids, NEW n \in Nat, n = 0 \/ i <= created,
             grant' = [grant EXCEPT ![i] = n]
      PROVE  OAuthRowInv'
  <2>1. Rows' = Rows
    BY <1>2 DEF Rows
  <2>2. \A j \in Ids : j > created => grant'[j] = 0
    BY <1>0, <1>2 DEF OAuthRowInv
  <2> QED BY <1>2, <2>1, <2>2 DEF OAuthRowInv
<1>3. ASSUME UNCHANGED <<sessions, created, grant>> PROVE OAuthRowInv'
  BY <1>3 DEF OAuthRowInv, Rows
<1>4. ASSUME NEW r \in OAuthRequests,
             LoginStep(r) \/ SwitchSession(r) \/ RefreshStep(r) \/ LogoutStep(r)
      PROVE  OAuthRowInv'
  <2>1. CASE OAuthReads(r) \/ BeginRefresh(r)
    BY <1>3, <2>1, OAuthReadsStay DEF OAuthStays, BeginRefresh
  <2>2. CASE ExchangeCode(r)
    <3>1. CASE created' = created + 1 /\ created < MaxSessions /\ grant' = [grant EXCEPT ![created + 1] = 1]
      <4>1. sessions' = sessions /\ Rows' = Rows
        BY <2>2 DEF ExchangeCode, Rows
      <4>2. \A j \in Ids : j > created + 1 => grant'[j] = 0
        BY <1>0, <3>1 DEF OAuthRowInv
      <4>3. \A j \in Ids : j <= created => j <= created + 1
        BY <1>0
      <4> QED BY <1>0, <3>1, <4>1, <4>2, <4>3 DEF OAuthRowInv
    <3>2. CASE UNCHANGED <<created, grant>>
      BY <1>3, <2>2, <3>2 DEF ExchangeCode
    <3> QED BY <2>2, <3>1, <3>2 DEF ExchangeCode
  <2>3. CASE SaveSession(r)
    <3>1. req[r].id \in Ids /\ req[r].id <= created /\ UNCHANGED <<grant, created>>
      BY <2>3, OAuthFacts DEF SaveSession, StoreOnly
    <3>2. /\ \A i \in Ids : i \in Rows' <=> i \in Rows \/ i = req[r].id
          /\ sessions'[req[r].id].refresh = 1
          /\ \A i \in Ids \ {req[r].id} : sessions'[i].refresh = sessions[i].refresh
      BY <2>3, <3>1, OAuthSaveRows
    <3> QED BY <3>1, <3>2, OAuthRowKept DEF OAuthRowInv
  <2>4. CASE SwitchSession(r)
    BY <1>1, <2>4, OAuthSwitchRows DEF SwitchSession, StoreOnly
  <2>5. CASE Rotate(r)
    <3>1. PICK n \in {req[r].token, req[r].token + 1} : grant' = [grant EXCEPT ![req[r].id] = n]
      BY <2>5 DEF Rotate
    <3>2. n \in Nat
      BY <3>1 DEF OAuthFits
    <3>3. req[r].id \in Ids /\ req[r].id <= created /\ UNCHANGED <<sessions, created>>
      BY <2>5, OAuthFacts DEF Rotate
    <3> QED BY <1>2, <3>1, <3>2, <3>3
  <2>6. CASE AnswerLost(r)
    <3>1. req[r].id \in Ids /\ req[r].id <= created /\ UNCHANGED <<sessions, created>>
      BY <2>6, OAuthFacts DEF AnswerLost
    <3>2. CASE grant' = [grant EXCEPT ![req[r].id] = @ + 1]
      <4>1. grant[req[r].id] + 1 \in Nat /\ grant' = [grant EXCEPT ![req[r].id] = grant[req[r].id] + 1]
        BY <1>0, <3>1, <3>2
      <4> QED BY <1>2, <3>1, <4>1
    <3>3. CASE UNCHANGED grant
      BY <1>3, <3>1, <3>3
    <3> QED BY <2>6, <3>2, <3>3 DEF AnswerLost
  <2>7. CASE RefreshRefused(r)
    <3>1. req[r].id \in Ids /\ UNCHANGED <<sessions, created>>
      BY <2>7, OAuthFacts DEF RefreshRefused
    <3>2. grant' = grant \/ grant' = [grant EXCEPT ![req[r].id] = 0]
      BY <2>7 DEF RefreshRefused
    <3> QED BY <1>2, <1>3, <3>1, <3>2
  <2>8. CASE UpdateToken(r)
    <3>1. req[r].token # 0 /\ UNCHANGED <<grant, created>>
      BY <2>8 DEF OAuthTokenInv, UpdateToken
    <3>2. /\ \A i \in Ids : i \in Rows' <=> i \in Rows
          /\ \A i \in Ids : sessions'[i].refresh = IF i = req[r].id /\ i \in Rows
                                                    THEN req[r].token ELSE sessions[i].refresh
      BY <2>8, <3>1, OAuthUpdateRows
    <3> QED BY <3>1, <3>2, OAuthRowKept DEF OAuthRowInv
  <2>9. CASE Revoke(r)
    <3>1. grant' = grant \/ grant' = [grant EXCEPT ![req[r].gen] = 0]
      BY <2>9 DEF Revoke
    <3>2. CASE req[r].gen \in Ids
      BY <1>2, <1>3, <2>9, <3>1, <3>2 DEF Revoke
    <3>3. CASE req[r].gen \notin Ids
      <4>1. grant' = grant
        BY <1>0, <3>1, <3>3
      <4> QED BY <1>3, <2>9, <4>1 DEF Revoke
    <3> QED BY <3>2, <3>3
  <2>10. CASE RemoveSession(r)
    <3>1. UNCHANGED <<grant, created>>
      BY <2>10 DEF RemoveSession, StoreOnly
    <3>2. /\ \A i \in Ids : i \in Rows' <=> i \in Rows /\ i # req[r].id
          /\ \A i \in Rows' : sessions'[i] = sessions[i]
      BY <2>10, OAuthRemoveRows
    <3> QED BY <3>1, <3>2, OAuthRowKept DEF OAuthRowInv
  <2>11. CASE Promote(r)
    BY <1>1, <2>11, OAuthPromoteRows DEF Promote, StoreOnly
  <2> QED BY <1>4, <2>1, <2>2, <2>3, <2>4, <2>5, <2>6, <2>7, <2>8, <2>9, <2>10, <2>11, OAuthStepIs
<1>5. CASE OAuthTime
  BY <1>1, <1>3, <1>5, OAuthExpiryRows DEF OAuthTime, AccessExpires, StateExpires, resetOAuthService,
     OAuthCrash
<1>6. CASE UNCHANGED oauthVars
  BY <1>3, <1>6 DEF oauthVars
<1> QED BY <1>4, <1>5, <1>6, OAuthNextIs


\* A step of r that gives it no identity others do not know of, and leaves the
\* ones that are being saved alone.
LEMMA OAuthIdKept ==
  ASSUME OAuthFits, OAuthRowInv, OAuthIdInv, NEW r \in OAuthRequests, OAuthAlone(r), created' = created,
         \/ req'[r].pc \notin {"save", "ask", "store"}
         \/ req'[r].pc \in {"ask", "store"} /\ req[r].pc \in {"ask", "store"} /\ req'[r].id = req[r].id
         \/ req'[r].pc = "ask" /\ req'[r].id \in Rows,
         \A q \in OAuthRequests \ {r} : req[q].pc = "save" =>
           req[q].id \notin Rows' /\ grant'[req[q].id] \in {0, 1}
  PROVE  OAuthIdInv'
<1>0. created \in Nat /\ Ids \subseteq Nat \ {0} /\ Rows \subseteq Ids
  BY OAuthFacts, OAuthNoSession
<1>1. \A i \in Rows : i \in 1..created
  BY <1>0 DEF OAuthRowInv
<1>2. \A q \in OAuthRequests : req'[q].pc \in {"save", "ask", "store"} => req'[q].id \in 1..created
  BY <1>1 DEF OAuthIdInv, OAuthAlone
<1>3. ASSUME NEW q \in OAuthRequests, req'[q].pc = "save"
      PROVE  /\ req'[q].id \notin Rows' /\ grant'[req'[q].id] \in {0, 1}
             /\ \A p \in OAuthRequests \ {q} :
                  req'[p].pc \in {"save", "ask", "store"} => req'[p].id # req'[q].id
  <2>1. q # r /\ req'[q] = req[q]
    BY <1>3 DEF OAuthAlone
  <2>2. req[q].pc = "save" /\ req[q].id \notin Rows
    BY <1>3, <2>1 DEF OAuthIdInv
  <2>3. ASSUME NEW p \in OAuthRequests \ {q}, req'[p].pc \in {"save", "ask", "store"}
        PROVE  req'[p].id # req'[q].id
    <3>1. CASE p = r
      BY <2>1, <2>2, <2>3, <3>1 DEF OAuthIdInv
    <3>2. CASE p # r
      BY <2>1, <2>2, <2>3, <3>2 DEF OAuthIdInv, OAuthAlone
    <3> QED BY <3>1, <3>2
  <2> QED BY <2>1, <2>2, <2>3
<1> QED BY <1>2, <1>3 DEF OAuthIdInv

LEMMA OAuthIdNext ==
  ASSUME OAuthFits, OAuthRowInv, OAuthIdInv, OAuthTokenInv, [OAuthNext]_oauthVars
  PROVE  OAuthIdInv'
<1>0. /\ created \in Nat /\ created \in 0..MaxSessions /\ MaxSessions \in Nat
      /\ grant \in [Ids -> Nat] /\ sessions \in [Ids -> OAuthRows]
      /\ \A i \in Ids : i \in Nat /\ i # 0
  BY OAuthFacts
<1>1. ASSUME NEW r \in OAuthRequests,
             LoginStep(r) \/ SwitchSession(r) \/ RefreshStep(r) \/ LogoutStep(r)
      PROVE  OAuthIdInv'
  <2> DEFINE Others == \A q \in OAuthRequests \ {r} : req[q].pc = "save" =>
                         req[q].id \notin Rows' /\ grant'[req[q].id] \in {0, 1}
  <2>0. OAuthAlone(r)
    BY <1>1, OAuthAlones
  <2>1. ASSUME Rows' \subseteq Rows, grant' = grant PROVE Others
    BY <2>1 DEF OAuthIdInv
  <2>2. sessions' = sessions => Rows' = Rows
    BY DEF Rows
  <2>3. req[r].pc \in {"ask", "store"} => \A q \in OAuthRequests \ {r} : req[q].pc = "save" =>
          /\ req[q].id # req[r].id /\ req[q].id \in Ids
          /\ req[q].id \notin Rows /\ grant[req[q].id] \in {0, 1}
    BY OAuthFacts DEF OAuthIdInv
  <2>4. ASSUME sessions' = sessions, req[r].pc \in {"ask", "store"}, NEW n,
               grant' = grant \/ grant' = [grant EXCEPT ![req[r].id] = n]
        PROVE  Others
    BY <1>0, <2>2, <2>3, <2>4
  <2>5. Finishes(r) => req'[r].pc = "idle"
    BY DEF Finishes, Rest, OAuthFits
  <2>6. CASE OAuthReads(r)
    <3>1. Rows' = Rows /\ UNCHANGED <<grant, created>> /\ req'[r].pc \notin {"save", "ask", "store"}
      BY <2>2, <2>6, OAuthReadsStay DEF OAuthStays
    <3>2. Others
      BY <2>1, <3>1
    <3> QED BY <2>0, <3>1, <3>2, OAuthIdKept
  <2>7. CASE ExchangeCode(r)
    <3>0. sessions' = sessions /\ Rows' = Rows
      BY <2>2, <2>7 DEF ExchangeCode
    <3>1. CASE /\ created' = created + 1 /\ created < MaxSessions
               /\ grant' = [grant EXCEPT ![created + 1] = 1]
               /\ req' = [req EXCEPT ![r].pc = "save", ![r].id = created + 1]
      <4>1. PICK k \in Ids : k = created + 1
        BY <1>0, <3>1 DEF Ids
      <4>2. req'[r].pc = "save" /\ req'[r].id = k
        BY <3>1, <4>1 DEF OAuthFits
      <4>3. k \notin Rows' /\ grant'[k] = 1 /\ \A i \in Ids \ {k} : grant'[i] = grant[i]
        BY <1>0, <3>0, <3>1, <4>1 DEF OAuthRowInv
      <4>4. \A q \in OAuthRequests \ {r} : req[q].pc \in {"save", "ask", "store"} =>
              req[q].id \in 1..created /\ req[q].id \in Ids /\ req[q].id # k
        BY <1>0, <4>1 DEF OAuthIdInv, Ids
      <4>5. \A q \in OAuthRequests : req'[q].pc \in {"save", "ask", "store"} => req'[q].id \in 1..created'
        <5>1. k \in 1..created' /\ \A i \in 1..created : i \in 1..created'
          BY <1>0, <3>1, <4>1
        <5>2. ASSUME NEW q \in OAuthRequests \ {r} PROVE req'[q] = req[q]
          BY <2>0 DEF OAuthAlone
        <5> QED BY <4>2, <4>4, <5>1, <5>2
      <4>6. ASSUME NEW q \in OAuthRequests, req'[q].pc = "save"
            PROVE  /\ req'[q].id \notin Rows' /\ grant'[req'[q].id] \in {0, 1}
                   /\ \A p \in OAuthRequests \ {q} :
                        req'[p].pc \in {"save", "ask", "store"} => req'[p].id # req'[q].id
        <5>1. CASE q = r
          BY <2>0, <4>2, <4>3, <4>4, <5>1 DEF OAuthAlone
        <5>2. CASE q # r
          <6>1. req'[q] = req[q] /\ req[q].pc = "save"
            BY <2>0, <4>6, <5>2 DEF OAuthAlone
          <6>2. req[q].id \notin Rows' /\ grant'[req[q].id] \in {0, 1}
            BY <3>0, <4>3, <4>4, <5>2, <6>1 DEF OAuthIdInv
          <6>3. \A p \in OAuthRequests \ {q} :
                  req'[p].pc \in {"save", "ask", "store"} => req'[p].id # req[q].id
            <7> SUFFICES ASSUME NEW p \in OAuthRequests \ {q}, req'[p].pc \in {"save", "ask", "store"}
                         PROVE  req'[p].id # req[q].id
              OBVIOUS
            <7>1. CASE p = r
              BY <4>2, <4>4, <5>2, <6>1, <7>1
            <7>2. CASE p # r
              BY <2>0, <6>1, <7>2 DEF OAuthIdInv, OAuthAlone
            <7> QED BY <7>1, <7>2
          <6> QED BY <6>1, <6>2, <6>3
        <5> QED BY <5>1, <5>2
      <4> QED BY <4>5, <4>6 DEF OAuthIdInv
    <3>2. CASE Finishes(r) /\ UNCHANGED <<created, grant>>
      <4>1. Others
        BY <2>1, <3>0, <3>2
      <4> QED BY <2>0, <2>5, <3>2, <4>1, OAuthIdKept
    <3> QED BY <2>7, <3>1, <3>2 DEF ExchangeCode
  <2>8. CASE SaveSession(r)
    <3>1. /\ req[r].pc = "save" /\ req[r].id \in Ids /\ UNCHANGED <<grant, created>>
          /\ req'[r].pc = "idle"
      BY <2>5, <2>8, OAuthFacts DEF SaveSession, StoreOnly
    <3>2. \A i \in Ids : i \in Rows' <=> i \in Rows \/ i = req[r].id
      BY <2>8, <3>1, OAuthSaveRows
    <3>3. \A q \in OAuthRequests \ {r} : req[q].pc = "save" => req[q].id \in Ids
      BY OAuthFacts
    <3>4. Others
      BY <3>1, <3>2, <3>3 DEF OAuthIdInv
    <3> QED BY <2>0, <3>1, <3>4, OAuthIdKept
  <2>9. CASE SwitchSession(r)
    <3>1. Rows' = Rows /\ UNCHANGED <<grant, created, req>> /\ req[r].pc = "idle"
      BY <2>9, OAuthSwitchRows, OAuthNoSession DEF OAuthSameRows, SwitchSession, StoreOnly, OAuthCall, Rows
    <3>2. Others
      BY <2>1, <3>1
    <3> QED BY <2>0, <3>1, <3>2, OAuthIdKept
  <2>10. CASE BeginRefresh(r)
    <3>1. UNCHANGED <<sessions, grant, created>> /\ TheCurrent \in Rows
      BY <2>10, OAuthTheCurrent DEF BeginRefresh
    <3>2. req'[r].pc = "ask" /\ req'[r].id = TheCurrent
      BY <2>10 DEF BeginRefresh, OAuthFits
    <3>3. Others
      BY <2>1, <2>2, <3>1
    <3> QED BY <2>0, <3>1, <3>2, <3>3, OAuthIdKept
  <2>11. CASE Rotate(r)
    <3>1. PICK n \in {req[r].token, req[r].token + 1} :
            /\ grant' = [grant EXCEPT ![req[r].id] = n]
            /\ req' = [req EXCEPT ![r].pc = "store", ![r].token = n]
      BY <2>11 DEF Rotate
    <3>2. req'[r].pc = "store" /\ req'[r].id = req[r].id /\ req[r].pc = "ask"
          /\ UNCHANGED <<sessions, created>>
      BY <2>11, <3>1 DEF Rotate, OAuthFits
    <3>3. Others
      BY <2>4, <3>1, <3>2
    <3> QED BY <2>0, <3>2, <3>3, OAuthIdKept
  <2>12. CASE AnswerLost(r)
    <3>1. /\ req[r].pc \in {"ask", "store"} /\ UNCHANGED <<sessions, created>> /\ req'[r].pc = "idle"
          /\ grant' = grant \/ grant' = [grant EXCEPT ![req[r].id] = @ + 1]
      BY <2>5, <2>12 DEF AnswerLost
    <3>2. Others
      BY <1>0, <2>4, <3>1
    <3> QED BY <2>0, <3>1, <3>2, OAuthIdKept
  <2>13. CASE RefreshRefused(r)
    <3>1. /\ req[r].pc = "ask" /\ UNCHANGED <<sessions, created>> /\ req'[r].pc = "idle"
          /\ grant' = grant \/ grant' = [grant EXCEPT ![req[r].id] = 0]
      BY <2>5, <2>13 DEF RefreshRefused
    <3>2. Others
      BY <2>4, <3>1
    <3> QED BY <2>0, <3>1, <3>2, OAuthIdKept
  <2>14. CASE UpdateToken(r)
    <3>1. req[r].token # 0 /\ UNCHANGED <<grant, created>> /\ req'[r].pc = "idle"
      BY <2>5, <2>14 DEF OAuthTokenInv, UpdateToken
    <3>2. Rows' = Rows
      BY <2>14, <3>1, OAuthUpdateRows DEF Rows
    <3>3. Others
      BY <2>1, <3>1, <3>2
    <3> QED BY <2>0, <3>1, <3>3, OAuthIdKept
  <2>15. CASE Revoke(r)
    <3>1. /\ UNCHANGED <<sessions, created>> /\ req'[r].pc = "resolve"
          /\ grant' = grant \/ grant' = [grant EXCEPT ![req[r].gen] = 0]
      BY <2>15 DEF Revoke, Moves, OAuthFits
    <3>2. \A i \in Ids : grant'[i] \in {grant[i], 0}
      BY <1>0, <3>1
    <3>3. \A q \in OAuthRequests \ {r} : req[q].pc = "save" => req[q].id \in Ids
      BY OAuthFacts
    <3>4. Others
      BY <2>2, <3>1, <3>2, <3>3 DEF OAuthIdInv
    <3> QED BY <2>0, <3>1, <3>4, OAuthIdKept
  <2>16. CASE RemoveSession(r) \/ Promote(r)
    <3>1. UNCHANGED <<grant, created>>
      BY <2>16 DEF RemoveSession, Promote, StoreOnly
    <3>2. req'[r].pc \notin {"save", "ask", "store"}
      BY <2>16, OAuthLogoutAlone DEF LogoutStep
    <3>3. \A i \in Ids : i \in Rows' => i \in Rows
      BY <2>16, OAuthRemoveRows, OAuthPromoteRows DEF OAuthSameRows
    <3>4. Others
      BY <2>1, <3>1, <3>3 DEF Rows
    <3> QED BY <2>0, <3>1, <3>2, <3>4, OAuthIdKept
  <2> QED BY <1>1, <2>6, <2>7, <2>8, <2>9, <2>10, <2>11, <2>12, <2>13, <2>14, <2>15, <2>16, OAuthStepIs
<1>2. ASSUME Rows' = Rows, UNCHANGED <<req, grant, created>> PROVE OAuthIdInv'
  BY <1>2 DEF OAuthIdInv
<1>3. CASE AccessExpires
  <2>1. Rows' = Rows
    BY <1>3, OAuthExpiryRows DEF OAuthSameRows, Rows
  <2> QED BY <1>2, <1>3, <2>1 DEF AccessExpires
<1>4. CASE StateExpires \/ resetOAuthService \/ UNCHANGED oauthVars
  BY <1>2, <1>4 DEF StateExpires, resetOAuthService, oauthVars, Rows
<1>5. CASE OAuthCrash
  BY <1>5 DEF OAuthCrash, Rest, OAuthIdInv
<1> QED BY <1>1, <1>3, <1>4, <1>5, OAuthNextIs DEF OAuthTime



-----------------------------------------------------------------------------
(***************************************************************************)
(* Refresh tokens.                                                         *)
(***************************************************************************)
OAuthTokenOf(q) ==
  /\ req[q].pc \in {"ask", "store"} => req[q].token # 0
  /\ (~replaced /\ req[q].pc = "ask") =>
       req[q].token >= grant[req[q].id] \/ req[q].id \in lost
  /\ (~replaced /\ req[q].pc = "store") =>
       \/ req[q].token = grant[req[q].id] \/ grant[req[q].id] = 0
       \/ req[q].id \in lost

\* What the database has is what Cloudflare accepts, or will not be again.
OAuthSettled(i) == grant[i] = 0 \/ i \in lost \/ sessions[i].refresh = grant[i]

OAuthStoring(i) == \E q \in OAuthRequests : req[q].pc = "store" /\ req[q].id = i

OAuthKnown == replaced \/ \A i \in Rows : OAuthSettled(i) \/ OAuthStoring(i)

LEMMA OAuthTokenIs ==
  OAuthTokenInv <=> /\ \A q \in OAuthRequests : OAuthTokenOf(q)
                    /\ replaced \/ reused \subseteq lost
                    /\ OAuthKnown
BY DEF OAuthKnown, OAuthTokenInv, OAuthTokenOf, OAuthSettled, OAuthStoring, RefreshTokensUsedOnce, StoredTokenIsLive

\* A step of r that leaves it without a token.
LEMMA OAuthTokenKept ==
  ASSUME OAuthFits, OAuthRowInv, OAuthIdInv, OAuthTokenInv, NEW r \in OAuthRequests, OAuthAlone(r),
         req'[r].pc \notin {"ask", "store"}, lost \subseteq lost', replaced \/ reused' \subseteq lost',
         \A i \in Ids : i <= created => grant'[i] \in {grant[i], 0} \/ i \in lost',
         \A i \in Ids : i \in Rows' =>
           \/ OAuthSettled(i)'
           \/ /\ i \in Rows /\ sessions'[i].refresh = sessions[i].refresh
              /\ ~(req[r].pc = "store" /\ req[r].id = i)
  PROVE  OAuthTokenInv'
<1>0. /\ Rows' \subseteq Ids /\ replaced' = replaced
      /\ created \in Nat /\ grant \in [Ids -> Nat] /\ \A i \in Ids : i \in Nat /\ i # 0
  BY OAuthFacts DEF Rows, OAuthAlone
<1>1. ASSUME NEW q \in OAuthRequests PROVE OAuthTokenOf(q)'
  <2>1. CASE q = r
    BY <2>1 DEF OAuthTokenOf
  <2>2. CASE q # r
    <3>1. req'[q] = req[q] /\ OAuthTokenOf(q)
      BY <2>2, OAuthTokenIs DEF OAuthAlone
    <3>2. CASE req[q].pc \in {"ask", "store"}
      <4>1. PICK i \in Ids : i = req[q].id
        BY <3>2, OAuthFacts
      <4>2. grant'[i] \in {grant[i], 0} \/ i \in lost'
        BY <3>2, <4>1, OAuthFacts
      <4>3. grant[i] \in Nat /\ req[q].token \in Nat
        BY <1>0 DEF OAuthFits
      <4> QED BY <1>0, <3>1, <4>1, <4>2, <4>3 DEF OAuthTokenOf
    <3>3. CASE req[q].pc \notin {"ask", "store"}
      BY <3>1, <3>3 DEF OAuthTokenOf
    <3> QED BY <3>2, <3>3
  <2> QED BY <2>1, <2>2
<1>2. ASSUME ~replaced, NEW i \in Ids, i \in Rows' PROVE OAuthSettled(i)' \/ OAuthStoring(i)'
  <2>1. CASE OAuthSettled(i)'
    BY <2>1
  <2>2. CASE /\ i \in Rows /\ sessions'[i].refresh = sessions[i].refresh
             /\ ~(req[r].pc = "store" /\ req[r].id = i)
    <3>1. i <= created /\ (OAuthSettled(i) \/ OAuthStoring(i))
      BY <1>2, <2>2, OAuthTokenIs DEF OAuthRowInv, OAuthKnown
    <3>2. OAuthSettled(i) => OAuthSettled(i)'
      BY <2>2, <3>1 DEF OAuthSettled
    <3>3. OAuthStoring(i) => OAuthStoring(i)'
      BY <2>2 DEF OAuthStoring, OAuthAlone
    <3> QED BY <3>1, <3>2, <3>3
  <2> QED BY <1>2, <2>1, <2>2
<1>3. (replaced \/ reused \subseteq lost)'
  BY <1>0
<1>4. OAuthKnown'
  BY <1>0, <1>2 DEF OAuthKnown
<1>5. (\A q \in OAuthRequests : OAuthTokenOf(q))'
  BY <1>1
<1> QED BY <1>3, <1>4, <1>5, OAuthTokenIs, PTL


\* The refresh of one request, step by step.
LEMMA OAuthTokenBegin ==
  ASSUME OAuthFits, OAuthRowInv, OAuthIdInv, OAuthLockInv, OAuthTokenInv,
         NEW r \in OAuthRequests, BeginRefresh(r)
  PROVE  OAuthTokenInv'
<1>0. /\ UNCHANGED <<sessions, grant, lost, reused, replaced>>
      /\ req[r].pc = "queue" /\ req'[r].pc = "ask" /\ Rows' = Rows
  BY DEF BeginRefresh, GetsLock, OAuthFits, Rows
<1>1. OAuthAlone(r)
  BY OAuthAlones DEF RefreshStep
<1>2. PICK i \in Rows : i = TheCurrent
  BY OAuthTheCurrent DEF BeginRefresh
<1>3. i \in Ids /\ grant[i] \in Nat
  BY OAuthNoSession, OAuthFacts
<1>4. req'[r].token = sessions[i].refresh /\ req'[r].id = i
  BY <1>2 DEF BeginRefresh, OAuthFits
<1>5. req'[r].token # 0 /\ req'[r].token \in Nat
  BY <1>3, <1>4, OAuthFacts DEF OAuthRowInv, OAuthRows
<1>6. ~replaced => OAuthSettled(i)
  <2>1. ~replaced => ~OAuthStoring(i)
    <3> SUFFICES ASSUME ~replaced, NEW q \in OAuthRequests, req[q].pc = "store" PROVE FALSE
      BY DEF OAuthStoring
    <3>1. req[q].gen = service /\ req[r].gen = service /\ refreshMu[service] = q
      BY <1>0 DEF OAuthLockInv
    <3>2. refreshMu[service] = "free"
      BY <3>1 DEF BeginRefresh, GetsLock
    <3> QED BY <3>1, <3>2, OAuthAssumption
  <2> QED BY <2>1, OAuthTokenIs DEF OAuthKnown
<1>7. OAuthTokenOf(r)'
  BY <1>0, <1>3, <1>4, <1>5, <1>6 DEF OAuthTokenOf, OAuthSettled
<1>8. ASSUME NEW q \in OAuthRequests \ {r} PROVE OAuthTokenOf(q)'
  BY <1>0, <1>1, OAuthTokenIs DEF OAuthTokenOf, OAuthAlone
<1>9. ASSUME NEW j \in Rows, OAuthSettled(j) \/ OAuthStoring(j)
      PROVE  (OAuthSettled(j) \/ OAuthStoring(j))'
  BY <1>0, <1>1, <1>9 DEF OAuthSettled, OAuthStoring, OAuthAlone
<1>10. (\A q \in OAuthRequests : OAuthTokenOf(q))'
  BY <1>7, <1>8
<1>11. OAuthKnown'
  BY <1>0, <1>9, OAuthTokenIs DEF OAuthKnown
<1>12. (replaced \/ reused \subseteq lost)'
  BY <1>0, OAuthTokenIs
<1> QED BY <1>10, <1>11, <1>12, OAuthTokenIs, PTL

LEMMA OAuthTokenRotate ==
  ASSUME OAuthFits, OAuthRowInv, OAuthIdInv, OAuthLockInv, OAuthTokenInv,
         NEW r \in OAuthRequests, Rotate(r)
  PROVE  OAuthTokenInv'
<1>1. PICK n \in {req[r].token, req[r].token + 1} :
        /\ grant' = [grant EXCEPT ![req[r].id] = n]
        /\ req' = [req EXCEPT ![r].pc = "store", ![r].token = n]
  BY DEF Rotate
<1>2. PICK i \in Ids : i = req[r].id
  BY OAuthFacts DEF Rotate
<1>3. /\ req[r].pc = "ask" /\ req'[r].pc = "store" /\ req'[r].token = n /\ req'[r].id = i
      /\ UNCHANGED <<sessions, lost, reused, replaced>> /\ Rows' = Rows
  BY <1>1, <1>2 DEF Rotate, OAuthFits, Rows
<1>4. grant'[i] = n /\ \A j \in Ids \ {i} : grant'[j] = grant[j]
  BY <1>1, <1>2, OAuthFacts
<1>5. OAuthAlone(r)
  BY OAuthAlones DEF RefreshStep
<1>6. n # 0
  <2>1. req[r].token \in Nat /\ req[r].token # 0
    BY <1>3, OAuthTokenIs DEF OAuthTokenOf, OAuthFits
  <2> QED BY <2>1
<1>7. OAuthTokenOf(r)'
  BY <1>3, <1>4, <1>6 DEF OAuthTokenOf
<1>8. ASSUME NEW q \in OAuthRequests \ {r} PROVE OAuthTokenOf(q)'
  <2>1. req'[q] = req[q] /\ OAuthTokenOf(q)
    BY <1>5, OAuthTokenIs DEF OAuthAlone
  <2>2. ~replaced => req[q].pc \notin {"ask", "store"}
    BY <1>3, OAuthOneRefresh
  <2> QED BY <1>3, <2>1, <2>2 DEF OAuthTokenOf
<1>9. ASSUME NEW j \in Ids, OAuthSettled(j) \/ OAuthStoring(j)
      PROVE  (OAuthSettled(j) \/ OAuthStoring(j))'
  <2>1. CASE j = i
    BY <1>3, <2>1 DEF OAuthStoring
  <2>2. CASE j # i
    BY <1>3, <1>4, <1>5, <1>9, <2>2 DEF OAuthSettled, OAuthStoring, OAuthAlone
  <2> QED BY <2>1, <2>2
<1>10. (\A q \in OAuthRequests : OAuthTokenOf(q))'
  BY <1>7, <1>8
<1>11. OAuthKnown'
  BY <1>3, <1>9, OAuthTokenIs, OAuthNoSession DEF OAuthKnown
<1>12. (replaced \/ reused \subseteq lost)'
  BY <1>3, OAuthTokenIs
<1> QED BY <1>10, <1>11, <1>12, OAuthTokenIs, PTL

LEMMA OAuthTokenEnd ==
  ASSUME OAuthFits, OAuthRowInv, OAuthIdInv, OAuthLockInv, OAuthTokenInv, NEW r \in OAuthRequests,
         AnswerLost(r) \/ RefreshRefused(r) \/ UpdateToken(r)
  PROVE  OAuthTokenInv'
<1>0. /\ replaced \/ reused \subseteq lost
      /\ OAuthTokenOf(r) /\ grant \in [Ids -> Nat]
      /\ req[r].token \in Nat
  BY OAuthTokenIs, OAuthFacts DEF OAuthFits
<1>1. PICK i \in Ids : i = req[r].id
  BY OAuthFacts DEF AnswerLost, RefreshRefused, UpdateToken
<1>2. OAuthAlone(r) /\ req'[r].pc = "idle"
  <2>1. Finishes(r) /\ RefreshStep(r)
    BY DEF RefreshStep, AnswerLost, RefreshRefused, UpdateToken
  <2>2. req'[r].pc = "idle"
    BY <2>1 DEF Finishes, Rest, OAuthFits
  <2> QED BY <2>1, <2>2, OAuthAlones
<1>3. CASE AnswerLost(r)
  <2>1. /\ lost' = lost \cup {i} /\ reused' = reused /\ sessions' = sessions /\ Rows' = Rows
        /\ \A j \in Ids \ {i} : grant'[j] = grant[j]
    BY <1>0, <1>1, <1>3 DEF AnswerLost, Rows
  <2>2. OAuthSettled(i)'
    BY <2>1 DEF OAuthSettled
  <2>3. \A j \in Ids : grant'[j] \in {grant[j], 0} \/ j \in lost'
    BY <2>1
  <2> QED BY <1>0, <1>1, <1>2, <2>1, <2>2, <2>3, OAuthTokenKept
<1>4. CASE RefreshRefused(r)
  <2>1. lost' = lost /\ sessions' = sessions /\ Rows' = Rows /\ req[r].pc = "ask"
    BY <1>4 DEF RefreshRefused, Rows
  <2>2. \A j \in Ids : grant'[j] \in {grant[j], 0}
    BY <1>0, <1>1, <1>4 DEF RefreshRefused
  <2>3. replaced \/ reused' \subseteq lost'
    <3>1. CASE req[r].token < grant[i]
      <4>1. grant[i] \in Nat /\ ~(req[r].token >= grant[i])
        BY <1>0, <3>1
      <4>2. replaced \/ i \in lost
        BY <1>0, <1>1, <2>1, <4>1 DEF OAuthTokenOf
      <4>3. reused' = reused \cup {i}
        BY <1>1, <1>4, <3>1 DEF RefreshRefused
      <4> QED BY <1>0, <2>1, <4>2, <4>3
    <3>2. CASE ~(req[r].token < grant[i])
      BY <1>0, <1>1, <1>4, <2>1, <3>2 DEF RefreshRefused
    <3> QED BY <3>1, <3>2
  <2> QED BY <1>2, <2>1, <2>2, <2>3, OAuthTokenKept
<1>5. CASE UpdateToken(r)
  <2>1. UNCHANGED <<grant, lost, reused, replaced>> /\ req[r].token # 0 /\ req[r].pc = "store"
    BY <1>0, <1>5 DEF UpdateToken, OAuthTokenOf
  <2>2. /\ \A j \in Ids : j \in Rows' <=> j \in Rows
        /\ \A j \in Ids : sessions'[j].refresh = IF j = req[r].id /\ j \in Rows
                                                   THEN req[r].token ELSE sessions[j].refresh
    BY <1>5, <2>1, OAuthUpdateRows
  <2>3. CASE replaced
    <3>1. \A q \in OAuthRequests : req'[q].pc \in {"ask", "store"} => req'[q].token # 0
      BY <1>2, OAuthTokenIs DEF OAuthTokenOf, OAuthAlone
    <3>2. replaced'
      BY <2>1, <2>3
    <3> QED BY <3>1, <3>2 DEF OAuthTokenInv, RefreshTokensUsedOnce, StoredTokenIsLive
  <2>4. CASE ~replaced
    <3>1. i \in Rows' => OAuthSettled(i)'
      BY <1>0, <1>1, <2>1, <2>2, <2>4 DEF OAuthSettled, OAuthTokenOf
    <3>2. \A j \in Ids \ {i} : j \in Rows' => j \in Rows /\ sessions'[j].refresh = sessions[j].refresh
      BY <1>1, <2>2
    <3> QED BY <1>0, <1>1, <1>2, <2>1, <3>1, <3>2, OAuthTokenKept
  <2> QED BY <2>3, <2>4
<1> QED BY <1>3, <1>4, <1>5


LEMMA OAuthTokenTime ==
  ASSUME OAuthFits, OAuthRowInv, OAuthIdInv, OAuthTokenInv, OAuthTime \/ UNCHANGED oauthVars
  PROVE  OAuthTokenInv'
<1>1. CASE AccessExpires
  <2>1. OAuthSameRows /\ UNCHANGED <<req, grant, replaced, lost, reused>>
    BY <1>1, OAuthExpiryRows DEF AccessExpires
  <2>2. /\ \A i \in Ids : sessions'[i].refresh = sessions[i].refresh
        /\ Rows' = Rows /\ Rows \subseteq Ids
    BY <2>1 DEF OAuthSameRows, Rows
  <2> QED BY <2>1, <2>2 DEF OAuthTokenInv, RefreshTokensUsedOnce, StoredTokenIsLive
<1>2. CASE StateExpires \/ UNCHANGED oauthVars
  BY <1>2 DEF StateExpires, oauthVars, OAuthTokenInv, RefreshTokensUsedOnce, StoredTokenIsLive, Rows
<1>3. CASE resetOAuthService
  BY <1>3 DEF resetOAuthService, OAuthTokenInv, RefreshTokensUsedOnce, StoredTokenIsLive
<1>4. CASE OAuthCrash
  <2>1. /\ UNCHANGED <<sessions, grant, replaced, reused>> /\ Rows' = Rows
        /\ lost' = lost \cup {req[r].id : r \in {q \in OAuthRequests : req[q].pc = "store"}}
    BY <1>4 DEF OAuthCrash, Rows
  <2>2. \A q \in OAuthRequests : req'[q].pc = "idle"
    BY <1>4 DEF OAuthCrash, Rest
  <2>3. ASSUME NEW i \in Rows, OAuthSettled(i) \/ OAuthStoring(i) PROVE OAuthSettled(i)'
    BY <2>1, <2>3 DEF OAuthSettled, OAuthStoring
  <2>4. OAuthKnown'
    BY <2>1, <2>3, OAuthTokenIs DEF OAuthKnown
  <2>5. (replaced \/ reused \subseteq lost)'
    BY <2>1, OAuthTokenIs
  <2>6. (\A q \in OAuthRequests : OAuthTokenOf(q))'
    BY <2>2 DEF OAuthTokenOf
  <2> QED BY <2>4, <2>5, <2>6, OAuthTokenIs, PTL
<1> QED BY <1>1, <1>2, <1>3, <1>4 DEF OAuthTime

LEMMA OAuthTokenNext ==
  ASSUME OAuthFits, OAuthRowInv, OAuthIdInv, OAuthLockInv, OAuthTokenInv, [OAuthNext]_oauthVars
  PROVE  OAuthTokenInv'
<1>0. /\ created \in Nat /\ grant \in [Ids -> Nat] /\ \A i \in Ids : i \in Nat /\ i # 0
      /\ replaced \/ reused \subseteq lost
  BY OAuthFacts, OAuthTokenIs
<1>1. ASSUME NEW r \in OAuthRequests,
             LoginStep(r) \/ SwitchSession(r) \/ RefreshStep(r) \/ LogoutStep(r)
      PROVE  OAuthTokenInv'
  <2>0. OAuthAlone(r)
    BY <1>1, OAuthAlones
  <2>1. CASE OAuthReads(r)
    <3>1. /\ UNCHANGED <<sessions, grant, lost, reused>> /\ Rows' = Rows
          /\ req'[r].pc \notin {"ask", "store"}
      BY <2>1, OAuthReadsStay DEF OAuthStays, Rows
    <3>2. req[r].pc # "store"
      BY <2>1 DEF OAuthReads, ReadState, ConsumeState, NeedToken, NoRefresh, GetsLock, BeginLogout,
         Resolve, Elect, FindOldest, OAuthCall
    <3> QED BY <1>0, <2>0, <3>1, <3>2, OAuthTokenKept
  <2>2. CASE ExchangeCode(r)
    <3>1. UNCHANGED <<sessions, lost, reused>> /\ Rows' = Rows /\ req[r].pc = "code"
      BY <2>2 DEF ExchangeCode, Rows
    <3>2. req'[r].pc \in {"save", "idle"}
      BY <2>2 DEF ExchangeCode, Finishes, Rest, OAuthFits
    <3>3. \A i \in Ids : i <= created => grant'[i] = grant[i]
      BY <1>0, <2>2 DEF ExchangeCode
    <3> QED BY <1>0, <2>0, <3>1, <3>2, <3>3, OAuthTokenKept
  <2>3. CASE SaveSession(r)
    <3>1. PICK k \in Ids : k = req[r].id
      BY <2>3, OAuthFacts DEF SaveSession
    <3>2. /\ UNCHANGED <<grant, lost, reused>> /\ req[r].pc = "save" /\ req'[r].pc = "idle"
      BY <2>3 DEF SaveSession, StoreOnly, Finishes, Rest, OAuthFits
    <3>3. /\ \A i \in Ids : i \in Rows' <=> i \in Rows \/ i = k
          /\ sessions'[k].refresh = 1
          /\ \A i \in Ids \ {k} : sessions'[i].refresh = sessions[i].refresh
      BY <2>3, <3>1, OAuthSaveRows
    <3>4. grant[k] \in {0, 1}
      BY <3>1, <3>2 DEF OAuthIdInv
    <3>5. OAuthSettled(k)'
      BY <3>2, <3>3, <3>4 DEF OAuthSettled
    <3> QED BY <1>0, <2>0, <3>2, <3>3, <3>5, OAuthTokenKept
  <2>4. CASE SwitchSession(r)
    <3>1. OAuthSameRows /\ UNCHANGED <<grant, lost, reused, req>> /\ req[r].pc = "idle"
      BY <2>4, OAuthSwitchRows DEF SwitchSession, StoreOnly, OAuthCall
    <3> QED BY <1>0, <2>0, <3>1, OAuthTokenKept DEF OAuthSameRows
  <2>5. CASE Revoke(r)
    <3>1. /\ UNCHANGED <<sessions, lost, reused>> /\ Rows' = Rows /\ req[r].pc = "revoke"
          /\ req'[r].pc = "resolve"
      BY <2>5 DEF Revoke, Moves, OAuthFits, Rows
    <3>2. \A i \in Ids : grant'[i] \in {grant[i], 0}
      BY <1>0, <2>5 DEF Revoke
    <3> QED BY <1>0, <2>0, <3>1, <3>2, OAuthTokenKept
  <2>6. CASE RemoveSession(r)
    <3>1. UNCHANGED <<grant, lost, reused>> /\ req[r].pc = "remove" /\ req'[r].pc \notin {"ask", "store"}
      BY <2>6, OAuthLogoutAlone DEF RemoveSession, StoreOnly, LogoutStep
    <3>2. /\ \A i \in Ids : i \in Rows' => i \in Rows /\ sessions'[i] = sessions[i]
      BY <2>6, OAuthRemoveRows
    <3> QED BY <1>0, <2>0, <3>1, <3>2, OAuthTokenKept
  <2>7. CASE Promote(r)
    <3>1. /\ OAuthSameRows /\ UNCHANGED <<grant, lost, reused>> /\ req[r].pc = "promote"
          /\ req'[r].pc \notin {"ask", "store"}
      BY <2>7, OAuthPromoteRows, OAuthLogoutAlone DEF Promote, StoreOnly, LogoutStep
    <3> QED BY <1>0, <2>0, <3>1, OAuthTokenKept DEF OAuthSameRows
  <2> QED BY <1>1, <2>1, <2>2, <2>3, <2>4, <2>5, <2>6, <2>7, OAuthStepIs, OAuthTokenBegin,
             OAuthTokenRotate, OAuthTokenEnd
<1> QED BY <1>1, OAuthNextIs, OAuthTokenTime



-----------------------------------------------------------------------------
(***************************************************************************)
(* One current session.                                                    *)
(***************************************************************************)
OAuthSeats == {"elect", "first", "promote"}

\* A request that elects nobody, before or after its step.
LEMMA OAuthCurrentKept ==
  ASSUME OAuthFits, OAuthCurrentInv, NEW r \in OAuthRequests, OAuthAlone(r),
         Rows' = Rows, Currents' = Currents, contested' = contested,
         req[r].pc \notin OAuthSeats, req'[r].pc \notin OAuthSeats
  PROVE  OAuthCurrentInv'
<1>1. ASSUME NEW q \in OAuthRequests
      PROVE  /\ req'[q].pc \in OAuthSeats <=> req[q].pc \in OAuthSeats
             /\ req'[q].pc \in OAuthSeats => req'[q] = req[q]
  BY DEF OAuthAlone
<1>2. Electing' = Electing
  BY <1>1 DEF Electing, OAuthSeats
<1>3. /\ (\E q \in OAuthRequests : req[q].pc \in OAuthSeats) =>
           \E q \in OAuthRequests : req'[q].pc \in OAuthSeats
      /\ \A q \in OAuthRequests : req'[q].pc = "promote" => req'[q] = req[q]
  BY <1>1 DEF OAuthSeats
<1> QED BY <1>2, <1>3 DEF OAuthCurrentInv, OAuthSeats

\* A deletion, from the row it removes to the one it promotes.
LEMMA OAuthCurrentElect ==
  ASSUME OAuthFits, OAuthRowInv, OAuthCurrentInv, ~contested', ~contested, NEW r \in OAuthRequests,
         RemoveSession(r) \/ Elect(r) \/ FindOldest(r) \/ Promote(r)
  PROVE  OAuthCurrentInv'
<1>0. /\ OAuthAlone(r) /\ Rows \subseteq Ids /\ Currents \subseteq Rows /\ \A i \in Ids : i \in Nat
      /\ Rows' \subseteq Ids /\ Currents' \subseteq Ids
  BY OAuthAlones, OAuthNoSession, OAuthAssumption DEF LogoutStep, Ids, Rows, Currents
<1>1. \A q \in OAuthRequests \ {r} : req'[q] = req[q]
  BY <1>0 DEF OAuthAlone
<1>2. Finishes(r) => req'[r].pc = "idle"
  BY DEF Finishes, Rest, OAuthFits
<1>3. CASE RemoveSession(r)
  <2>1. /\ \A i \in Ids : i \in Rows' <=> i \in Rows /\ i # req[r].id
        /\ Currents' \subseteq Currents
    BY <1>3, OAuthRemoveRows
  <2>2. CASE req[r].id \in Rows
    <3>1. req'[r].pc = "elect" /\ req[r].pc = "remove"
      BY <1>3, <2>2 DEF RemoveSession, Moves, OAuthFits
    <3>2. Electing' \subseteq Electing
      BY <1>1, <3>1 DEF Electing
    <3>3. \A q \in OAuthRequests : req'[q].pc = "promote" => req'[q] = req[q]
      BY <1>1, <3>1
    <3>4. \A i \in Rows' : i \in Rows
      BY <1>0, <2>1
    <3>5. \A i \in Currents' : i \in Currents
      BY <2>1
    <3>6. \E q \in OAuthRequests : req'[q].pc = "elect"
      BY <3>1
    <3>7. /\ \A i, j \in Currents : i = j
          /\ Electing # {} => \A i \in Currents, j \in Rows : i <= j
          /\ \A q \in OAuthRequests : (req[q].pc = "promote" /\ req[q].id \in Rows) =>
               \A j \in Rows : req[q].id <= j
      BY DEF OAuthCurrentInv
    <3> QED BY <3>2, <3>3, <3>4, <3>5, <3>6, <3>7 DEF OAuthCurrentInv
  <2>3. CASE req[r].id \notin Rows
    <3>1. /\ sessions' = sessions /\ contested' = contested /\ req[r].pc = "remove"
          /\ req'[r].pc = "idle"
      BY <1>2, <1>3, <2>3 DEF RemoveSession
    <3>2. Rows' = Rows /\ Currents' = Currents
      BY <3>1 DEF Rows, Currents
    <3> QED BY <1>0, <3>1, <3>2, OAuthCurrentKept DEF OAuthSeats
  <2> QED BY <2>2, <2>3
<1>4. CASE Elect(r)
  <2>1. sessions' = sessions /\ Rows' = Rows /\ Currents' = Currents /\ req[r].pc = "elect"
    BY <1>4 DEF Elect, ReqOnly, Rows, Currents
  <2>2. CASE Currents = {}
    <3>1. req'[r].pc = "first"
      BY <1>4, <2>2 DEF Elect, Moves, OAuthFits
    <3>2. \A q \in OAuthRequests : req'[q].pc = "promote" => req'[q] = req[q]
      BY <1>1, <3>1
    <3> QED BY <2>1, <2>2, <3>1, <3>2 DEF OAuthCurrentInv
  <2>3. CASE Currents # {}
    <3>1. req'[r].pc = "idle"
      BY <1>2, <1>4, <2>3 DEF Elect
    <3>2. \A q \in OAuthRequests : req'[q].pc = "promote" => req'[q] = req[q]
      BY <1>1, <3>1
    <3>3. Electing' \subseteq Electing
      BY <1>1, <3>1 DEF Electing
    <3> QED BY <2>1, <2>3, <3>2, <3>3 DEF OAuthCurrentInv
  <2> QED BY <2>2, <2>3
<1>5. CASE FindOldest(r)
  <2>1. /\ sessions' = sessions /\ Rows' = Rows /\ Currents' = Currents /\ req[r].pc = "first"
        /\ r \in Electing
    BY <1>5 DEF FindOldest, ReqOnly, Rows, Currents, Electing
  <2>2. CASE Rows = {}
    <3>1. req'[r].pc = "idle"
      BY <1>2, <1>5, <2>2 DEF FindOldest
    <3> QED BY <1>0, <2>1, <2>2 DEF OAuthCurrentInv
  <2>3. CASE Rows # {}
    <3>1. req'[r].pc = "promote" /\ req'[r].id = OldestRow
      BY <1>5, <2>3 DEF FindOldest, OAuthFits
    <3>2. \A j \in Rows : OldestRow <= j
      BY <2>3, OAuthOldestRow
    <3>3. \A q \in OAuthRequests : (req'[q].pc = "promote" /\ req'[q].id \in Rows') =>
            \A j \in Rows' : req'[q].id <= j
      BY <1>1, <2>1, <3>1, <3>2 DEF OAuthCurrentInv
    <3> QED BY <2>1, <3>1, <3>3 DEF OAuthCurrentInv
  <2> QED BY <2>2, <2>3
<1>6. CASE Promote(r)
  <2>1. req[r].pc = "promote" /\ r \in Electing /\ req'[r].pc = "idle"
    BY <1>2, <1>6 DEF Promote, Electing
  <2>2. req[r].id \in Rows
    BY <1>6, OAuthPromoteRows
  <2>3. PICK i \in Rows : i = req[r].id
    BY <2>2
  <2>4. OAuthSameRows /\ Currents' = Currents \cup {i}
    BY <1>6, <2>2, <2>3, OAuthPromoteRows
  <2>5. Rows' = Rows
    BY <1>0, <2>4 DEF OAuthSameRows
  <2>6. \A j \in Rows : i <= j
    BY <2>1, <2>3 DEF OAuthCurrentInv
  <2>7. ASSUME NEW j \in Currents PROVE j = i
    <3>1. j <= i
      BY <2>1 DEF OAuthCurrentInv
    <3>2. i <= j /\ i \in Nat /\ j \in Nat
      BY <1>0, <2>6
    <3> QED BY <3>1, <3>2
  <2>8. Currents' = {i}
    BY <2>4, <2>7
  <2>9. \A q \in OAuthRequests : req'[q].pc = "promote" => req'[q] = req[q]
    BY <1>1, <2>1
  <2>10. \A q \in OAuthRequests : (req'[q].pc = "promote" /\ req'[q].id \in Rows') =>
           \A j \in Rows' : req'[q].id <= j
    BY <2>5, <2>9 DEF OAuthCurrentInv
  <2> QED BY <2>5, <2>6, <2>8, <2>10 DEF OAuthCurrentInv
<1> QED BY <1>3, <1>4, <1>5, <1>6

LEMMA OAuthCurrentNext ==
  ASSUME OAuthFits, OAuthRowInv, OAuthIdInv, OAuthTokenInv, OAuthCurrentInv, [OAuthNext]_oauthVars
  PROVE  OAuthCurrentInv'
<1> SUFFICES ASSUME ~contested' PROVE OAuthCurrentInv'
  BY DEF OAuthCurrentInv
<1>1. ASSUME NEW r \in OAuthRequests,
             LoginStep(r) \/ SwitchSession(r) \/ RefreshStep(r) \/ LogoutStep(r)
      PROVE  OAuthCurrentInv'
  <2>0. OAuthAlone(r) /\ (Finishes(r) => req'[r].pc = "idle")
    BY <1>1, OAuthAlones DEF Finishes, Rest, OAuthFits
  <2>1. ASSUME sessions' = sessions PROVE Rows' = Rows /\ Currents' = Currents
    BY <2>1 DEF Rows, Currents
  <2>2. CASE RemoveSession(r) \/ Elect(r) \/ FindOldest(r) \/ Promote(r)
    <3>1. ~contested
      BY <2>2 DEF RemoveSession, Elect, FindOldest, Promote, ReqOnly
    <3> QED BY <2>2, <3>1, OAuthCurrentElect
  <2>3. CASE OAuthReads(r) /\ ~Elect(r) /\ ~FindOldest(r)
    <3>1. sessions' = sessions /\ contested' = contested
      BY <2>3, OAuthReadsStay DEF OAuthStays
    <3>2. req[r].pc \notin OAuthSeats
      BY <2>3 DEF OAuthSeats, OAuthReads, ReadState, ConsumeState, NeedToken, NoRefresh, GetsLock,
         BeginLogout, Resolve, OAuthCall
    <3>3. req'[r].pc \notin OAuthSeats
      BY <2>0, <2>3 DEF OAuthSeats, OAuthReads, ReadState, ConsumeState, NeedToken, NoRefresh,
         BeginLogout, Resolve, Moves, OAuthFits
    <3> QED BY <2>0, <2>1, <3>1, <3>2, <3>3, OAuthCurrentKept
  <2>4. CASE ExchangeCode(r) \/ BeginRefresh(r) \/ Rotate(r) \/ AnswerLost(r) \/ RefreshRefused(r)
             \/ Revoke(r)
    <3>1. sessions' = sessions /\ contested' = contested /\ req[r].pc \notin OAuthSeats
      BY <2>4 DEF ExchangeCode, BeginRefresh, GetsLock, Rotate, AnswerLost, RefreshRefused, Revoke,
         OAuthSeats
    <3>2. req'[r].pc \notin OAuthSeats
      BY <2>0, <2>4 DEF ExchangeCode, BeginRefresh, Rotate, AnswerLost, RefreshRefused, Revoke, Moves,
         OAuthSeats, OAuthFits
    <3> QED BY <2>0, <2>1, <3>1, <3>2, OAuthCurrentKept
  <2>5. CASE UpdateToken(r)
    <3>1. req[r].pc = "store" /\ req'[r].pc = "idle" /\ contested' = contested /\ req[r].token # 0
      BY <2>0, <2>5 DEF UpdateToken, OAuthTokenInv
    <3>2. Rows' = Rows /\ Currents' = Currents
      BY <2>5, <3>1, OAuthUpdateRows DEF Rows
    <3> QED BY <2>0, <3>1, <3>2, OAuthCurrentKept DEF OAuthSeats
  <2>6. ASSUME NEW i, Currents' = {i}, Electing' = {} PROVE OAuthCurrentInv'
    <3>1. \A q \in OAuthRequests : req'[q].pc # "promote"
      BY <2>6 DEF Electing
    <3> QED BY <2>6, <3>1 DEF OAuthCurrentInv
  <2>7. CASE SaveSession(r)
    <3>1. Currents' = {req[r].id} /\ Electing = {}
      BY <2>7, OAuthFacts, OAuthSaveRows DEF SaveSession
    <3>2. Electing' = {}
      BY <2>0, <2>7, <3>1 DEF Electing, SaveSession, OAuthAlone
    <3> QED BY <2>6, <3>1, <3>2
  <2>8. CASE SwitchSession(r)
    <3>1. Electing = {} /\ \E i \in Rows : Currents' = {i}
      BY <2>8, OAuthSwitchRows
    <3>2. Electing' = {}
      BY <2>8, <3>1 DEF Electing, SwitchSession
    <3> QED BY <2>6, <3>1, <3>2
  <2> QED BY <1>1, <2>2, <2>3, <2>4, <2>5, <2>7, <2>8, OAuthStepIs
<1>2. ASSUME Rows' = Rows, Currents' = Currents, UNCHANGED <<req, contested>> PROVE OAuthCurrentInv'
  BY <1>2 DEF OAuthCurrentInv, Electing
<1>3. CASE AccessExpires
  <2>1. Rows' = Rows /\ Currents' = Currents
    BY <1>3, OAuthExpiryRows DEF OAuthSameRows, Rows
  <2> QED BY <1>2, <1>3, <2>1 DEF AccessExpires
<1>4. CASE StateExpires \/ resetOAuthService \/ UNCHANGED oauthVars
  BY <1>2, <1>4 DEF StateExpires, resetOAuthService, oauthVars, Rows, Currents
<1>5. CASE OAuthCrash
  <2>1. /\ Rows' = Rows /\ Currents' = Currents /\ \A q \in OAuthRequests : req'[q].pc = "idle"
        /\ ~contested /\ \A q \in OAuthRequests : req[q].pc \notin {"elect", "first", "promote"}
    BY <1>5 DEF OAuthCrash, Rest, Rows, Currents
  <2>2. Electing' = {}
    BY <2>1 DEF Electing
  <2> QED BY <2>1, <2>2 DEF OAuthCurrentInv
<1> QED BY <1>1, <1>3, <1>4, <1>5, OAuthNextIs DEF OAuthTime



-----------------------------------------------------------------------------
(***************************************************************************)
(* The theorems.                                                           *)
(***************************************************************************)
OAuthAllInv == OAuthFits /\ OAuthRowInv /\ OAuthIdInv /\ OAuthLockInv /\ OAuthTokenInv /\ OAuthCurrentInv

LEMMA OAuthAllInit == OAuthInit => OAuthAllInv
<1> SUFFICES ASSUME OAuthInit PROVE OAuthAllInv
  OBVIOUS
<1>0. OAuthFits
  BY OAuthFitsInit
<1>1. /\ created \in Nat /\ created \in 0..MaxSessions /\ Ids = 1..MaxSessions /\ MaxSessions \in Nat
      /\ \A r \in OAuthRequests : req[r].pc = "idle"
  BY OAuthAssumption DEF OAuthInit, Rest, Ids
<1>2. ASSUME NEW i \in Ids
      PROVE  /\ i \in Nat
             /\ i \in Rows => i <= created /\ sessions[i].refresh = 1 /\ grant[i] = 1
             /\ i > created => grant[i] = 0
             /\ i \in Currents => i = 1
             /\ (i = 1 /\ i <= created) => i \in Currents
  <2>1. CASE i > created
    BY <1>1, <2>1, OAuthNoSession DEF OAuthInit, Rows, Currents
  <2>2. CASE ~(i > created)
    <3>1. sessions[i] = [refresh |-> 1, fresh |-> TRUE, current |-> i = 1] /\ grant[i] = 1 /\ i <= created
      BY <1>1, <2>2 DEF OAuthInit
    <3>2. PICK b \in BOOLEAN : b <=> i = 1
      OBVIOUS
    <3>3. sessions[i] = [refresh |-> 1, fresh |-> TRUE, current |-> b]
      BY <3>1, <3>2
    <3>4. sessions[i].refresh = 1 /\ (sessions[i].current <=> i = 1)
      BY <3>2, <3>3
    <3> QED BY <1>1, <2>2, <3>1, <3>4 DEF Currents
  <2> QED BY <2>1, <2>2
<1>3. OAuthRowInv
  BY <1>2 DEF OAuthRowInv
<1>4. OAuthIdInv /\ OAuthLockInv
  BY <1>1 DEF OAuthIdInv, OAuthLockInv
<1>5. OAuthTokenInv
  <2>1. \A i \in Rows : sessions[i].refresh = grant[i]
    BY <1>2, OAuthNoSession
  <2> QED BY <1>1, <2>1 DEF OAuthTokenInv, RefreshTokensUsedOnce, StoredTokenIsLive, OAuthInit
<1>6. OAuthCurrentInv
  <2>1. Electing = {} /\ \A r \in OAuthRequests : req[r].pc # "promote"
    BY <1>1 DEF Electing
  <2>2. \A i \in Currents : i = 1
    BY <1>2, OAuthNoSession
  <2>3. ASSUME NEW i \in Rows PROVE 1 \in Currents
    <3>1. i \in Ids /\ i <= created /\ i \in 1..MaxSessions
      BY <1>1, <1>2, OAuthNoSession
    <3>2. 1 \in Ids /\ 1 <= created
      BY <1>1, <3>1
    <3> QED BY <1>2, <3>2
  <2>4. Rows = {} \/ Currents # {}
    BY <2>3
  <2> QED BY <2>1, <2>2, <2>4 DEF OAuthCurrentInv
<1> QED BY <1>0, <1>3, <1>4, <1>5, <1>6 DEF OAuthAllInv

LEMMA OAuthInvariance == OAuthSpec => []OAuthAllInv
<1>1. OAuthAllInv /\ [OAuthNext]_oauthVars => OAuthAllInv'
  BY OAuthFitsNext, OAuthRowNext, OAuthIdNext, OAuthLockNext, OAuthTokenNext, OAuthCurrentNext
     DEF OAuthAllInv
<1> QED BY <1>1, OAuthAllInit, PTL DEF OAuthSpec

\* The variables keep their types, the identities their bounds.
THEOREM OAuthTypeCorrect == OAuthSpec => []OAuthTypeOK
<1>1. OAuthAllInv => OAuthTypeOK
  BY DEF OAuthAllInv, OAuthFits, OAuthTypeOK, OAuthRows, OAuthPlaces
<1> QED BY <1>1, OAuthInvariance, PTL

\* Whatever logins, switches, deletions and elections interleave, one identity
\* is current as soon as no election runs, as long as none was overtaken.
THEOREM OneIsCurrent == OAuthSpec => []OneCurrentSession
<1>1. OAuthAllInv => OneCurrentSession
  BY OAuthTheCurrent DEF OAuthAllInv, OAuthCurrentInv, OneCurrentSession
<1> QED BY <1>1, OAuthInvariance, PTL

\* However many requests find the access token expired, refreshMu and the second
\* look at the store make one of them send the refresh token, once.
THEOREM TokensAreSpentOnce == OAuthSpec => []RefreshTokensUsedOnce
<1>1. OAuthAllInv => RefreshTokensUsedOnce
  BY DEF OAuthAllInv, OAuthTokenInv
<1> QED BY <1>1, OAuthInvariance, PTL

\* The stored refresh token is the one Cloudflare accepts, refreshes, logins and
\* deletions of other identities notwithstanding.
THEOREM StoredTokensLive == OAuthSpec => []StoredTokenIsLive
<1>1. OAuthAllInv => StoredTokenIsLive
  BY DEF OAuthAllInv, OAuthTokenInv
<1> QED BY <1>1, OAuthInvariance, PTL

\* A refresh that was under way when its identity was removed updates no row:
\* only a login makes one.
THEOREM LogoutLasts == OAuthSpec => LogoutIsFinal
<1> DEFINE Saved(i) == \E r \in OAuthRequests : req[r].pc = "save" /\ req[r].id = i
<1>1. ASSUME OAuthAllInv, [OAuthNext]_oauthVars, NEW i \in Ids, i \notin Rows, i \in Rows'
      PROVE  Saved(i)
  <2>0. OAuthFits /\ OAuthRowInv /\ OAuthIdInv /\ OAuthTokenInv
    BY <1>1 DEF OAuthAllInv
  <2>1. sessions' # sessions
    BY <1>1 DEF Rows
  <2>2. ASSUME NEW r \in OAuthRequests,
               LoginStep(r) \/ SwitchSession(r) \/ RefreshStep(r) \/ LogoutStep(r)
        PROVE  Saved(i)
    <3>1. CASE SaveSession(r)
      <4>1. req[r].pc = "save" /\ req[r].id \in Ids
        BY <2>0, <3>1, OAuthFacts DEF SaveSession
      <4>2. i \in Rows' <=> i \in Rows \/ i = req[r].id
        BY <2>0, <3>1, <4>1, OAuthSaveRows
      <4> QED BY <1>1, <4>1, <4>2
    <3>2. CASE UpdateToken(r)
      <4>1. req[r].token # 0
        BY <2>0, <3>2 DEF OAuthTokenInv, UpdateToken
      <4> QED BY <1>1, <2>0, <3>2, <4>1, OAuthUpdateRows
    <3>3. CASE SwitchSession(r) \/ Promote(r) \/ RemoveSession(r)
      BY <1>1, <2>0, <3>3, OAuthSwitchRows, OAuthPromoteRows, OAuthRemoveRows DEF OAuthSameRows
    <3>4. CASE OAuthReads(r)
      BY <2>0, <2>1, <3>4, OAuthReadsStay DEF OAuthStays
    <3>5. CASE ExchangeCode(r) \/ BeginRefresh(r) \/ Rotate(r) \/ AnswerLost(r) \/ RefreshRefused(r)
               \/ Revoke(r)
      BY <2>1, <3>5 DEF ExchangeCode, BeginRefresh, Rotate, AnswerLost, RefreshRefused, Revoke
    <3> QED BY <2>2, <3>1, <3>2, <3>3, <3>4, <3>5, OAuthStepIs
  <2>3. CASE OAuthTime
    <3>1. ~AccessExpires
      BY <1>1, <2>0, OAuthExpiryRows DEF OAuthSameRows
    <3> QED BY <2>1, <2>3, <3>1 DEF OAuthTime, StateExpires, resetOAuthService, OAuthCrash
  <2>4. CASE UNCHANGED oauthVars
    BY <2>1, <2>4 DEF oauthVars
  <2> QED BY <1>1, <2>2, <2>3, <2>4, OAuthNextIs
<1>2. OAuthAllInv /\ [OAuthNext]_oauthVars =>
        [\A i \in Ids : i \notin Rows /\ i \in Rows' =>
           \E r \in OAuthRequests : req[r].pc = "save" /\ req[r].id = i]_oauthVars
  BY <1>1
<1> QED BY <1>2, OAuthInvariance, PTL DEF OAuthSpec, LogoutIsFinal

-----------------------------------------------------------------------------
(***************************************************************************)
(* Proofs about R2Upload, for any number of requests, uploads, chunks and  *)
(* restarts.                                                               *)
(*                                                                         *)
(* ObjectIsWhole is not inductive: it needs that a chunk marked as         *)
(* received is on disk (ReceivedIsWritten, MarkedIsWritten), hence all of  *)
(* them for an upload that is being completed (CompletedIsWritten), and    *)
(* that nothing on disk is ever unwritten.  DirectoriesAreOwned needs that *)
(* only a request about to remove directories names any (JobsFit).         *)
(***************************************************************************)
Places == {"idle", "prune", "enter", "open", "write", "mark", "load", "stream",
           "unmark", "forget", "clear"}

JobTypes == [pc: Places, u: 0..MaxUploads, i: 0..Chunks, whole: BOOLEAN, dirs: SUBSET Uploads]

\* What a request has at each place.
UploadFits(j) ==
  /\ j.pc \notin {"idle", "clear"} => j.u \in Uploads
  /\ j.pc \in {"open", "write", "mark"} => j.i \in 1..Chunks
  /\ j.pc \notin {"enter", "clear"} => j.dirs = {}

JobsFit == job \in [UploadRequests -> JobTypes] /\ \A r \in UploadRequests : UploadFits(job[r])

\* Chunk i of upload u is on disk.
Written(u, i) == part[u][i] = "all"

ReceivedIsWritten == \A u \in Uploads : \A i \in received[u] : Written(u, i)

MarkedIsWritten ==
  \A r \in UploadRequests : job[r].pc = "mark" => Written(job[r].u, job[r].i)

CompletedIsWritten ==
  \A r \in UploadRequests :
    job[r].pc \in {"load", "stream"} =>
      job[r].whole /\ \A i \in 1..Chunks : Written(job[r].u, i)

UploadTyped == UploadTypeOK /\ JobsFit

UploadInv == /\ UploadTyped
             /\ ReceivedIsWritten /\ MarkedIsWritten /\ CompletedIsWritten
             /\ ObjectIsWhole

\* A request that has nothing to do.
LEMMA NoJobFits == NoJob \in JobTypes /\ UploadFits(NoJob)
  BY UploadAssumption DEF NoJob, JobTypes, UploadFits, Places

LEMMA UploadIsCounted == Uploads \subseteq 0..MaxUploads
  BY UploadAssumption DEF Uploads

LEMMA UploadInitiallyInv == UploadInit => UploadInv /\ DirectoriesAreOwned
<1> SUFFICES ASSUME UploadInit PROVE UploadInv /\ DirectoriesAreOwned
  OBVIOUS
<1>1. UploadTypeOK
  BY UploadAssumption DEF UploadInit, UploadTypeOK, NoJob
<1>2. JobsFit
  BY NoJobFits DEF UploadInit, JobsFit
<1>3. ReceivedIsWritten /\ MarkedIsWritten /\ CompletedIsWritten /\ ObjectIsWhole
  BY DEF UploadInit, NoJob, ReceivedIsWritten, MarkedIsWritten, CompletedIsWritten,
         ObjectIsWhole
<1>4. DirectoriesAreOwned
  BY DEF UploadInit, DirectoriesAreOwned
<1> QED
  BY <1>1, <1>2, <1>3, <1>4 DEF UploadInv, UploadTyped

-----------------------------------------------------------------------------
(***************************************************************************)
(* Type correctness.                                                       *)
(***************************************************************************)
\* A step that gives request r the job j keeps the jobs in order.
LEMMA OneJobChanges ==
  ASSUME JobsFit, NEW r \in UploadRequests, NEW j \in JobTypes, UploadFits(j),
         job' = [job EXCEPT ![r] = j]
  PROVE  JobsFit'
  BY DEF JobsFit, UploadFits

\* What the jobs say of their places.
LEMMA PlacesAreTyped ==
  ASSUME JobsFit
  PROVE  \A r \in UploadRequests : job[r].pc \in Places
  BY DEF JobsFit, JobTypes

\* A chunk that is written anew.
LEMMA PartIsTyped ==
  ASSUME UploadTyped, NEW u \in Uploads, NEW i \in 1..Chunks, NEW c \in {"hole", "some", "all"},
         part' = [part EXCEPT ![u][i] = c]
  PROVE  /\ part' \in [Uploads -> [1..Chunks -> {"hole", "some", "all"}]]
         /\ part'[u][i] = c
         /\ \A v \in Uploads, k \in 1..Chunks : v # u \/ k # i => part'[v][k] = part[v][k]
  BY DEF UploadTyped, UploadTypeOK

\* Job r, with its fields.
LEMMA JobIsTyped ==
  ASSUME JobsFit, NEW r \in UploadRequests
  PROVE  job[r] \in JobTypes /\ UploadFits(job[r])
  BY DEF JobsFit

LEMMA StepKeepsTypes == UploadTyped /\ [UploadNext]_uploadVars => UploadTyped'
<1> SUFFICES ASSUME UploadTyped, [UploadNext]_uploadVars PROVE UploadTyped'
  OBVIOUS
<1> USE DEF TableSame, DiskSame, RestSame
<1>0. /\ UploadTypeOK
      /\ JobsFit
  BY DEF UploadTyped
<1>1. ASSUME NEW r \in UploadRequests, StartStep(r) PROVE UploadTyped'
  <2>1. job[r] \in JobTypes /\ UploadFits(job[r])
    BY <1>0, JobIsTyped
  <2>2. CASE CreateFile(r)
    <3>1. used' \in Uploads /\ used' \in 0..MaxUploads
      BY <2>2, <1>0, UploadAssumption DEF CreateFile, UploadTypeOK, Uploads
    <3>2. [NoJob EXCEPT !.pc = "prune", !.u = used'] \in JobTypes
      BY <3>1, NoJobFits DEF JobTypes, NoJob, Places
    <3>3. UploadFits([NoJob EXCEPT !.pc = "prune", !.u = used'])
      BY <3>1 DEF NoJob, UploadFits
    <3>4. JobsFit'
      BY <2>2, <3>2, <3>3, <1>0, OneJobChanges DEF CreateFile
    <3> QED
      BY <2>2, <3>1, <3>4, <1>0, PlacesAreTyped DEF CreateFile, UploadTyped, UploadTypeOK, JobsFit, JobTypes, Places
  <2>3. CASE pruneExpired(r)
    <3> DEFINE j == [job[r] EXCEPT !.pc = "enter", !.dirs = listed \cap stale]
    <3>1. j \in JobTypes /\ UploadFits(j)
      BY <2>1, <2>3, <1>0 DEF pruneExpired, JobTypes, UploadFits, Places, UploadTypeOK
    <3>2. job' = [job EXCEPT ![r] = j]
      BY <2>3, <2>1, <1>0 DEF pruneExpired, JobsFit, JobTypes
    <3>3. JobsFit'
      BY <3>1, <3>2, <1>0, OneJobChanges
    <3> QED
      BY <2>3, <3>3, <1>0 DEF pruneExpired, UploadTyped, UploadTypeOK, JobsFit, JobTypes, Places
  <2>4. CASE EnterTable(r)
    <3>1. JobsFit'
      BY <2>4, <1>0, NoJobFits, OneJobChanges DEF EnterTable, Answer
    <3>2. job[r].u \in Uploads
      BY <2>1, <2>4 DEF EnterTable, UploadFits
    <3> QED
      BY <2>4, <3>1, <3>2, <1>0 DEF EnterTable, UploadTyped, UploadTypeOK, JobsFit, JobTypes, Places
  <2> QED
    BY <1>1, <2>2, <2>3, <2>4 DEF StartStep
<1>2. ASSUME NEW r \in UploadRequests, ChunkStep(r) PROVE UploadTyped'
  <2>1. job[r] \in JobTypes /\ UploadFits(job[r])
    BY <1>0, JobIsTyped
  <2>2. ASSUME NEW place \in {"write", "mark"}, Then(r, place),
               job[r].pc \in {"open", "write"}
        PROVE  JobsFit'
    <3> DEFINE j == [job[r] EXCEPT !.pc = place]
    <3>1. j \in JobTypes /\ UploadFits(j)
      BY <2>1, <2>2 DEF JobTypes, UploadFits, Places
    <3>2. job' = [job EXCEPT ![r] = j]
      BY <2>2 DEF Then
    <3> QED
      BY <3>1, <3>2, <1>0, OneJobChanges
  <2>3. Answer(r) => JobsFit'
    BY <1>0, NoJobFits, OneJobChanges DEF Answer
  <2>4. CASE CheckChunk(r)
    <3>1. PICK u \in listed \ completing, i \in 1..Chunks :
            job' = [job EXCEPT ![r] = [NoJob EXCEPT !.pc = "open", !.u = u, !.i = i]]
      BY <2>4 DEF CheckChunk
    <3>2. u \in Uploads
      BY <1>0 DEF UploadTypeOK
    <3> DEFINE j == [NoJob EXCEPT !.pc = "open", !.u = u, !.i = i]
    <3>6. i \in 0..Chunks
      BY UploadAssumption
    <3>3. j \in JobTypes
      BY <3>2, <3>6, UploadIsCounted, NoJobFits DEF JobTypes, NoJob, Places
    <3>4. UploadFits(j)
      BY <3>2 DEF NoJob, UploadFits
    <3>5. JobsFit'
      BY <3>1, <3>3, <3>4, <1>0, OneJobChanges
    <3> QED
      BY <2>4, <3>5, <1>0 DEF CheckChunk, UploadTyped, UploadTypeOK, JobsFit, JobTypes, Places
  <2>5. CASE OpenPart(r)
    <3>1. JobsFit'
      BY <2>5, <2>2, <2>3 DEF OpenPart
    <3> QED
      BY <2>5, <3>1, <1>0 DEF OpenPart, UploadTyped, UploadTypeOK, JobsFit, JobTypes, Places
  <2>6. CASE WriteSome(r)
    <3>1. job[r].u \in Uploads /\ job[r].i \in 1..Chunks
      BY <2>1, <2>6 DEF WriteSome, UploadFits
    <3>2. part' \in [Uploads -> [1..Chunks -> {"hole", "some", "all"}]]
      BY <2>6, <3>1, PartIsTyped DEF WriteSome
    <3> QED
      BY <2>6, <3>2, <1>0 DEF WriteSome, UploadTyped, UploadTypeOK, JobsFit
  <2>7. CASE BodyBreaks(r)
    <3>1. JobsFit'
      BY <2>7, <2>3 DEF BodyBreaks
    <3> QED
      BY <2>7, <3>1, <1>0 DEF BodyBreaks, UploadTyped, UploadTypeOK, JobsFit, JobTypes, Places
  <2>8. CASE WriteRest(r)
    <3>1. job[r].u \in Uploads /\ job[r].i \in 1..Chunks
      BY <2>1, <2>8 DEF WriteRest, UploadFits
    <3>2. part' \in [Uploads -> [1..Chunks -> {"hole", "some", "all"}]]
      BY <2>8, <3>1, PartIsTyped DEF WriteRest
    <3>3. JobsFit'
      BY <2>8, <2>2 DEF WriteRest
    <3> QED
      BY <2>8, <3>2, <3>3, <1>0 DEF WriteRest, UploadTyped, UploadTypeOK, JobsFit, JobTypes, Places
  <2>9. CASE MarkReceived(r)
    <3>1. job[r].u \in Uploads /\ job[r].i \in 1..Chunks
      BY <2>1, <2>9 DEF MarkReceived, UploadFits
    <3>2. JobsFit'
      BY <2>9, <2>3 DEF MarkReceived
    <3>3. received' \in [Uploads -> SUBSET (1..Chunks)] /\ stale' \subseteq Uploads
      BY <2>9, <3>1, <1>0 DEF MarkReceived, UploadTypeOK
    <3> QED
      BY <2>9, <3>2, <3>3, <1>0 DEF MarkReceived, UploadTyped, UploadTypeOK, JobsFit, JobTypes, Places
  <2> QED
    BY <1>2, <2>4, <2>5, <2>6, <2>7, <2>8, <2>9 DEF ChunkStep
<1>3. ASSUME NEW r \in UploadRequests, CompleteStep(r) PROVE UploadTyped'
  <2>1. job[r] \in JobTypes /\ UploadFits(job[r])
    BY <1>0, JobIsTyped
  <2>2. ASSUME NEW place \in {"stream", "unmark", "forget"}, Then(r, place),
               job[r].pc \in {"load", "stream"}
        PROVE  JobsFit'
    <3> DEFINE j == [job[r] EXCEPT !.pc = place]
    <3>1. j \in JobTypes /\ UploadFits(j)
      BY <2>1, <2>2 DEF JobTypes, UploadFits, Places
    <3>2. job' = [job EXCEPT ![r] = j]
      BY <2>2 DEF Then
    <3> QED
      BY <3>1, <3>2, <1>0, OneJobChanges
  <2>3. CASE BeginComplete(r)
    <3>1. PICK u \in listed \ completing :
            /\ completing' = completing \cup {u}
            /\ job' = [job EXCEPT ![r] = [NoJob EXCEPT !.pc = "load", !.u = u]]
      BY <2>3 DEF BeginComplete
    <3>2. u \in Uploads
      BY <1>0 DEF UploadTypeOK
    <3> DEFINE j == [NoJob EXCEPT !.pc = "load", !.u = u]
    <3>3. j \in JobTypes
      BY <3>2, UploadIsCounted, NoJobFits DEF JobTypes, NoJob, Places
    <3>6. UploadFits(j)
      BY <3>2 DEF NoJob, UploadFits
    <3>4. JobsFit'
      BY <3>1, <3>3, <3>6, <1>0, OneJobChanges
    <3> QED
      BY <2>3, <3>1, <3>2, <3>4, <1>0
      DEF BeginComplete, UploadTyped, UploadTypeOK, JobsFit, JobTypes, Places
  <2>4. CASE OpenWhole(r)
    <3>1. JobsFit'
      BY <2>4, <2>2 DEF OpenWhole
    <3> QED
      BY <2>4, <3>1, <1>0 DEF OpenWhole, UploadTyped, UploadTypeOK, JobsFit, JobTypes, Places
  <2>5. CASE StreamChunk(r)
    <3> DEFINE b == job[r].whole /\ part[job[r].u][job[r].i + 1] = "all"
               j == [job[r] EXCEPT !.i = @ + 1, !.whole = b]
    <3>1. job[r].i + 1 \in 0..Chunks /\ b \in BOOLEAN
      BY <2>1, <2>5, UploadAssumption DEF StreamChunk, JobTypes
    <3> HIDE DEF b
    <3>2. j \in JobTypes
      BY <3>1, <2>1 DEF JobTypes
    <3>3. UploadFits(j)
      BY <2>1, <2>5 DEF StreamChunk, UploadFits, JobTypes
    <3>4. job' = [job EXCEPT ![r] = j]
      BY <2>1, <2>5, <1>0 DEF StreamChunk, JobsFit, JobTypes, b
    <3>5. JobsFit'
      BY <3>2, <3>3, <3>4, <1>0, OneJobChanges
    <3> QED
      BY <2>5, <3>5, <1>0 DEF StreamChunk, UploadTyped, UploadTypeOK, JobsFit, JobTypes, Places
  <2>6. CASE StreamFails(r)
    <3>1. JobsFit'
      BY <2>6, <2>2 DEF StreamFails
    <3> QED
      BY <2>6, <3>1, <1>0 DEF StreamFails, UploadTyped, UploadTypeOK, JobsFit, JobTypes, Places
  <2>7. CASE markNotCompleting(r)
    <3>1. JobsFit'
      BY <2>7, <1>0, NoJobFits, OneJobChanges DEF markNotCompleting, Answer
    <3> QED
      BY <2>7, <3>1, <1>0 DEF markNotCompleting, UploadTyped, UploadTypeOK, JobsFit, JobTypes, Places
  <2>8. CASE R2Stores(r)
    <3>1. JobsFit'
      BY <2>8, <2>2 DEF R2Stores
    <3>2. object' \in [Uploads -> {"none", "whole", "torn"}]
      BY <2>8, <1>0 DEF R2Stores, UploadTypeOK
    <3> QED
      BY <2>8, <3>1, <3>2, <1>0 DEF R2Stores, UploadTyped, UploadTypeOK, JobsFit, JobTypes, Places
  <2> QED
    BY <1>3, <2>3, <2>4, <2>5, <2>6, <2>7, <2>8 DEF CompleteStep
<1>4. ASSUME NEW r \in UploadRequests, ClearStep(r) PROVE UploadTyped'
  <2>1. job[r] \in JobTypes /\ UploadFits(job[r])
    BY <1>0, JobIsTyped
  <2>2. ASSUME NEW u \in Uploads
        PROVE  LET j == [NoJob EXCEPT !.pc = "clear", !.dirs = {u}] IN j \in JobTypes /\ UploadFits(j)
    <3> DEFINE j == [NoJob EXCEPT !.pc = "clear", !.dirs = {u}]
    <3>1. {u} \in SUBSET Uploads
      BY <2>2
    <3>2. j \in JobTypes
      BY <3>1, NoJobFits DEF JobTypes, NoJob, Places
    <3>3. UploadFits(j)
      BY DEF NoJob, UploadFits
    <3> QED
      BY <3>2, <3>3
  <2>3. CASE Forget(r)
    <3>1. JobsFit'
      <4>1. CASE job[r].pc = "forget"
        BY <2>3, <4>1, <2>1, <2>2, <1>0, NoJobFits, OneJobChanges DEF Forget, UploadCall, UploadFits
      <4>2. CASE job[r].pc # "forget"
        BY <2>3, <4>2, <2>2, <1>0, OneJobChanges DEF Forget, UploadTypeOK
      <4> QED
        BY <4>1, <4>2
    <3>2. listed' \subseteq listed /\ completing' \subseteq completing
      BY <2>3 DEF Forget
    <3> QED
      BY <2>3, <3>1, <3>2, <1>0 DEF Forget, UploadTyped, UploadTypeOK, JobsFit, JobTypes, Places
  <2>4. CASE RemoveDir(r)
    <3>1. JobsFit'
      BY <2>4, <1>0, NoJobFits, OneJobChanges DEF RemoveDir, Answer
    <3> QED
      BY <2>4, <3>1, <1>0 DEF RemoveDir, UploadTyped, UploadTypeOK, JobsFit, JobTypes, Places
  <2> QED
    BY <1>4, <2>3, <2>4 DEF ClearStep
<1>5. CASE DayPasses
  BY <1>5, <1>0 DEF DayPasses, UploadTyped, UploadTypeOK, JobsFit
<1>6. CASE UploadCrash
  <2>1. JobsFit'
    BY <1>6, NoJobFits DEF UploadCrash, JobsFit
  <2>2. received' \in [Uploads -> SUBSET (1..Chunks)]
    BY <1>6 DEF UploadCrash
  <2> QED
    BY <1>6, <2>1, <2>2, <1>0 DEF UploadCrash, UploadTyped, UploadTypeOK, JobsFit, JobTypes, Places
<1>7. CASE UNCHANGED uploadVars
  BY <1>7, <1>0 DEF uploadVars, UploadTyped, UploadTypeOK, JobsFit
<1> QED
  BY <1>1, <1>2, <1>3, <1>4, <1>5, <1>6, <1>7 DEF UploadNext

-----------------------------------------------------------------------------
(***************************************************************************)
(* What is on disk.                                                        *)
(***************************************************************************)
\* Nothing that is on disk is unwritten.
WrittenStays == \A u \in Uploads, i \in 1..Chunks : Written(u, i) => Written(u, i)'

LEMMA StepKeepsWritten == UploadTyped /\ [UploadNext]_uploadVars => WrittenStays
<1> SUFFICES ASSUME UploadTyped, [UploadNext]_uploadVars PROVE WrittenStays
  OBVIOUS
<1> USE DEF WrittenStays, Written, DiskSame
<1>1. ASSUME NEW r \in UploadRequests, WriteSome(r) PROVE WrittenStays
  <2>1. job[r].u \in Uploads /\ job[r].i \in 1..Chunks
    BY <1>1, JobIsTyped DEF WriteSome, UploadTyped, UploadFits
  <2> QED
    BY <1>1, <2>1, PartIsTyped DEF WriteSome
<1>2. ASSUME NEW r \in UploadRequests, WriteRest(r) PROVE WrittenStays
  <2>1. job[r].u \in Uploads /\ job[r].i \in 1..Chunks
    BY <1>2, JobIsTyped DEF WriteRest, UploadTyped, UploadFits
  <2> QED
    BY <1>2, <2>1, PartIsTyped DEF WriteRest
<1>3. ASSUME NEW r \in UploadRequests, ChunkStep(r), ~WriteSome(r), ~WriteRest(r)
      PROVE  WrittenStays
  BY <1>3 DEF ChunkStep, CheckChunk, OpenPart, BodyBreaks, MarkReceived
<1>4. ASSUME NEW r \in UploadRequests, StartStep(r) \/ CompleteStep(r) \/ ClearStep(r)
      PROVE  WrittenStays
  BY <1>4 DEF StartStep, CreateFile, pruneExpired, EnterTable, CompleteStep, BeginComplete,
              OpenWhole, StreamChunk, StreamFails, markNotCompleting, R2Stores,
              ClearStep, Forget, RemoveDir
<1>5. DayPasses \/ UploadCrash \/ UNCHANGED uploadVars => WrittenStays
  BY DEF DayPasses, UploadCrash, uploadVars
<1> QED
  BY <1>1, <1>2, <1>3, <1>4, <1>5 DEF UploadNext

\* A chunk is marked as received only after all of it was written.
LEMMA StepKeepsReceived ==
  UploadInv /\ [UploadNext]_uploadVars => ReceivedIsWritten'
<1> SUFFICES ASSUME UploadInv, [UploadNext]_uploadVars PROVE ReceivedIsWritten'
  OBVIOUS
<1>1. WrittenStays /\ UploadTyped
  BY StepKeepsWritten DEF UploadInv
<1>2. received \in [Uploads -> SUBSET (1..Chunks)] /\ ReceivedIsWritten
  BY <1>1 DEF UploadTyped, UploadTypeOK, UploadInv
<1>3. ASSUME UNCHANGED received PROVE ReceivedIsWritten'
  BY <1>1, <1>2, <1>3 DEF ReceivedIsWritten, WrittenStays
<1>4. ASSUME NEW r \in UploadRequests, MarkReceived(r) PROVE ReceivedIsWritten'
  <2>1. job[r].u \in Uploads /\ job[r].i \in 1..Chunks
    BY <1>1, <1>4, JobIsTyped DEF MarkReceived, UploadTyped, UploadFits
  <2>2. Written(job[r].u, job[r].i)
    BY <1>4 DEF MarkReceived, UploadInv, MarkedIsWritten
  <2>3. UNCHANGED part
    BY <1>4 DEF MarkReceived, DiskSame
  <2> QED
    BY <1>2, <1>3, <1>4, <2>1, <2>2, <2>3 DEF MarkReceived, ReceivedIsWritten, Written
<1>5. ASSUME UploadCrash PROVE ReceivedIsWritten'
  BY <1>5 DEF UploadCrash, ReceivedIsWritten
<1>6. ASSUME NEW r \in UploadRequests, ChunkStep(r), ~MarkReceived(r) PROVE UNCHANGED received
  BY <1>6 DEF ChunkStep, CheckChunk, OpenPart, WriteSome, BodyBreaks, WriteRest, TableSame
<1>7. ASSUME NEW r \in UploadRequests, StartStep(r) \/ CompleteStep(r) \/ ClearStep(r)
      PROVE  UNCHANGED received
  BY <1>7 DEF StartStep, CreateFile, pruneExpired, EnterTable, CompleteStep, BeginComplete,
              OpenWhole, StreamChunk, StreamFails, markNotCompleting, R2Stores,
              ClearStep, Forget, RemoveDir, TableSame
<1>8. DayPasses \/ UNCHANGED uploadVars => UNCHANGED received
  BY DEF DayPasses, uploadVars
<1> QED
  BY <1>3, <1>4, <1>5, <1>6, <1>7, <1>8 DEF UploadNext

-----------------------------------------------------------------------------
(***************************************************************************)
(* Requests that mark a chunk or complete an upload.                       *)
(***************************************************************************)
LEMMA OneMoves ==
  ASSUME job \in [UploadRequests -> JobTypes], NEW r \in UploadRequests,
         NEW q \in UploadRequests
  PROVE  /\ \A j : job' = [job EXCEPT ![r] = j] => job'[q] = IF q = r THEN j ELSE job[q]
         /\ \A place : Then(r, place) =>
              job'[q] = IF q = r THEN [job[r] EXCEPT !.pc = place] ELSE job[q]
         /\ Answer(r) => job'[q] = IF q = r THEN NoJob ELSE job[q]
  BY DEF Then, Answer

\* A request that changes but to answer or to be elsewhere is not at one of the
\* places.
LEMMA NotThere ==
  ASSUME job \in [UploadRequests -> JobTypes], NEW r \in UploadRequests,
         NEW q \in UploadRequests, NEW places, "idle" \notin places,
         job'[q].pc \in places
  PROVE  /\ \A j : job' = [job EXCEPT ![r] = j] /\ j.pc \notin places => job'[q] = job[q]
         /\ \A place : Then(r, place) /\ place \notin places => job'[q] = job[q]
         /\ Answer(r) => job'[q] = job[q]
<1>1. ASSUME NEW j, job' = [job EXCEPT ![r] = j], j.pc \notin places PROVE job'[q] = job[q]
  BY <1>1, OneMoves
<1>2. ASSUME NEW place, Then(r, place), place \notin places PROVE job'[q] = job[q]
  <2>1. [job[r] EXCEPT !.pc = place].pc = place
    BY DEF JobTypes
  <2> QED
    BY <1>2, <2>1, OneMoves
<1>3. ASSUME Answer(r) PROVE job'[q] = job[q]
  BY <1>3, OneMoves DEF NoJob
<1> QED
  BY <1>1, <1>2, <1>3

\* The steps that bring no request to mark, load or stream.
LEMMA ElsewhereSteps ==
  ASSUME job \in [UploadRequests -> JobTypes], NEW r \in UploadRequests,
         NEW q \in UploadRequests, job'[q].pc \in {"mark", "load", "stream"},
         \/ StartStep(r) \/ ClearStep(r) \/ CheckChunk(r) \/ OpenPart(r) \/ WriteSome(r)
         \/ BodyBreaks(r) \/ MarkReceived(r) \/ StreamFails(r) \/ markNotCompleting(r)
         \/ R2Stores(r)
  PROVE  job'[q] = job[q]
<1> DEFINE places == {"mark", "load", "stream"}
<1>1. /\ \A j : job' = [job EXCEPT ![r] = j] /\ j.pc \notin places => job'[q] = job[q]
      /\ \A place : Then(r, place) /\ place \notin places => job'[q] = job[q]
      /\ Answer(r) => job'[q] = job[q]
  BY NotThere
<1>2. CASE pruneExpired(r)
  BY <1>2 DEF pruneExpired, JobTypes
<1>3. CASE CreateFile(r)
  <2>1. [NoJob EXCEPT !.pc = "prune", !.u = used'].pc = "prune"
    BY DEF NoJob
  <2> QED
    BY <1>1, <1>3, <2>1 DEF CreateFile
<1>4. CASE CheckChunk(r)
  <2>1. PICK u, i : job' = [job EXCEPT ![r] = [NoJob EXCEPT !.pc = "open", !.u = u, !.i = i]]
    BY <1>4 DEF CheckChunk
  <2>2. [NoJob EXCEPT !.pc = "open", !.u = u, !.i = i].pc = "open"
    BY DEF NoJob
  <2> QED
    BY <1>1, <2>1, <2>2
<1>5. CASE Forget(r)
  <2>1. PICK v : job' = [job EXCEPT ![r] =
                          IF v \in listed THEN [NoJob EXCEPT !.pc = "clear", !.dirs = {v}]
                                          ELSE NoJob]
    BY <1>5 DEF Forget
  <2>2. [NoJob EXCEPT !.pc = "clear", !.dirs = {v}].pc = "clear" /\ NoJob.pc = "idle"
    BY DEF NoJob
  <2> QED
    BY <1>1, <2>1, <2>2
<1>6. EnterTable(r) \/ BodyBreaks(r) \/ MarkReceived(r) \/ markNotCompleting(r) \/ RemoveDir(r)
        => Answer(r)
  BY DEF EnterTable, BodyBreaks, MarkReceived, markNotCompleting, RemoveDir
<1>7. CASE OpenPart(r) \/ StreamFails(r) \/ R2Stores(r)
  BY <1>1, <1>7 DEF OpenPart, StreamFails, R2Stores
<1>8. WriteSome(r) => job'[q] = job[q]
  BY DEF WriteSome
<1> QED
  BY <1>1, <1>2, <1>3, <1>4, <1>5, <1>6, <1>7, <1>8 DEF StartStep, ClearStep

LEMMA WhoMarks ==
  ASSUME UploadTyped, [UploadNext]_uploadVars, NEW q \in UploadRequests, job'[q].pc = "mark"
  PROVE  job'[q] = job[q] \/ WriteRest(q)
<1>1. job \in [UploadRequests -> JobTypes]
  BY DEF UploadTyped, JobsFit
<1>2. ASSUME NEW r \in UploadRequests, WriteRest(r) PROVE job'[q] = job[q] \/ WriteRest(q)
  BY <1>1, <1>2, OneMoves DEF WriteRest
<1>3. ASSUME NEW r \in UploadRequests, BeginComplete(r) \/ OpenWhole(r) \/ StreamChunk(r)
      PROVE  job'[q] = job[q]
  <2>1. CASE BeginComplete(r)
    <3>1. PICK u : job' = [job EXCEPT ![r] = [NoJob EXCEPT !.pc = "load", !.u = u]]
      BY <2>1 DEF BeginComplete
    <3>2. [NoJob EXCEPT !.pc = "load", !.u = u].pc = "load"
      BY DEF NoJob
    <3> QED
      BY <1>1, <3>1, <3>2, OneMoves
  <2>2. CASE OpenWhole(r)
    <3>1. Then(r, "stream") \/ Then(r, "unmark")
      BY <2>2 DEF OpenWhole
    <3>2. ASSUME NEW place \in {"stream", "unmark"}, Then(r, place) PROVE job'[q] = job[q]
      <4>1. [job[r] EXCEPT !.pc = place].pc = place
        BY <1>1 DEF JobTypes
      <4>2. job'[q] = IF q = r THEN [job[r] EXCEPT !.pc = place] ELSE job[q]
        BY <1>1, <3>2, OneMoves
      <4> QED
        BY <4>1, <4>2
    <3> QED
      BY <3>1, <3>2
  <2>3. CASE StreamChunk(r)
    BY <1>1, <2>3 DEF StreamChunk, JobTypes
  <2> QED
    BY <1>3, <2>1, <2>2, <2>3
<1>4. DayPasses \/ UNCHANGED uploadVars => job'[q] = job[q]
  BY DEF DayPasses, uploadVars
<1>5. ~UploadCrash
  BY DEF UploadCrash, NoJob
<1> QED
  BY <1>1, <1>2, <1>3, <1>4, <1>5, ElsewhereSteps DEF UploadNext, ChunkStep, CompleteStep

LEMMA StepKeepsMarked == UploadInv /\ [UploadNext]_uploadVars => MarkedIsWritten'
<1> SUFFICES ASSUME UploadInv, [UploadNext]_uploadVars,
                    NEW q \in UploadRequests, job'[q].pc = "mark"
             PROVE  Written(job[q].u, job[q].i)'
  BY DEF MarkedIsWritten, Written
<1>1. UploadTyped /\ WrittenStays
  BY StepKeepsWritten DEF UploadInv
<1>2. CASE job'[q] = job[q]
  <2>1. job[q].u \in Uploads /\ job[q].i \in 1..Chunks
    BY <1>1, <1>2, JobIsTyped DEF UploadTyped, UploadFits
  <2>2. Written(job[q].u, job[q].i)
    BY <1>2 DEF UploadInv, MarkedIsWritten
  <2> QED
    BY <1>1, <1>2, <2>1, <2>2 DEF WrittenStays, Written
<1>3. CASE WriteRest(q)
  <2>1. job[q] \in JobTypes /\ job[q].u \in Uploads /\ job[q].i \in 1..Chunks
    BY <1>1, <1>3, JobIsTyped DEF WriteRest, UploadTyped, UploadFits
  <2>2. job'[q].u = job[q].u /\ job'[q].i = job[q].i
    BY <1>1, <1>3, <2>1 DEF WriteRest, Then, UploadTyped, JobsFit, JobTypes
  <2>3. part'[job[q].u][job[q].i] = "all"
    BY <1>1, <1>3, <2>1, PartIsTyped DEF WriteRest
  <2> QED
    BY <2>2, <2>3 DEF Written
<1> QED
  BY <1>1, <1>2, <1>3, WhoMarks

LEMMA WhoCompletes ==
  ASSUME UploadTyped, [UploadNext]_uploadVars, NEW q \in UploadRequests,
         job'[q].pc \in {"load", "stream"}
  PROVE  job'[q] = job[q] \/ BeginComplete(q) \/ OpenWhole(q) \/ StreamChunk(q)
<1>1. job \in [UploadRequests -> JobTypes]
  BY DEF UploadTyped, JobsFit
<1>2. ASSUME NEW r \in UploadRequests, BeginComplete(r) \/ OpenWhole(r) \/ StreamChunk(r)
      PROVE  job'[q] = job[q] \/ r = q
  BY <1>1, <1>2, OneMoves DEF BeginComplete, OpenWhole, StreamChunk
<1>3. ASSUME NEW r \in UploadRequests, WriteRest(r) PROVE job'[q] = job[q]
  <2>1. Then(r, "mark")
    BY <1>3 DEF WriteRest
  <2>2. [job[r] EXCEPT !.pc = "mark"].pc = "mark"
    BY <1>1 DEF JobTypes
  <2> QED
    BY <1>1, <2>1, <2>2, OneMoves
<1>4. DayPasses \/ UNCHANGED uploadVars => job'[q] = job[q]
  BY DEF DayPasses, uploadVars
<1>5. ~UploadCrash
  BY DEF UploadCrash, NoJob
<1> QED
  BY <1>1, <1>2, <1>3, <1>4, <1>5, ElsewhereSteps DEF UploadNext, ChunkStep, CompleteStep

\* All chunks of an upload that is being completed are on disk.
LEMMA StepKeepsCompleted == UploadInv /\ [UploadNext]_uploadVars => CompletedIsWritten'
<1> SUFFICES ASSUME UploadInv, [UploadNext]_uploadVars,
                    NEW q \in UploadRequests, job'[q].pc \in {"load", "stream"}
             PROVE  job'[q].whole /\ \A i \in 1..Chunks : part'[job'[q].u][i] = "all"
  BY DEF CompletedIsWritten, Written
<1>1. UploadTyped /\ WrittenStays
  BY StepKeepsWritten DEF UploadInv
<1>2. job[q] \in JobTypes /\ job \in [UploadRequests -> JobTypes] /\ UploadFits(job[q])
  BY <1>1, JobIsTyped DEF UploadTyped, JobsFit
<1>3. ASSUME job[q].pc \in {"load", "stream"}, job'[q].u = job[q].u
      PROVE  \A i \in 1..Chunks : part'[job'[q].u][i] = "all"
  <2>1. job[q].u \in Uploads
    BY <1>2, <1>3 DEF UploadFits
  <2> QED
    BY <1>1, <1>3, <2>1 DEF UploadInv, CompletedIsWritten, WrittenStays, Written
<1>4. job[q].pc \in {"load", "stream"} =>
        job[q].whole /\ \A i \in 1..Chunks : part[job[q].u][i] = "all"
  BY DEF UploadInv, CompletedIsWritten, Written
<1>5. CASE job'[q] = job[q]
  BY <1>3, <1>4, <1>5
<1>6. CASE BeginComplete(q)
  <2>1. PICK u \in listed \ completing :
          /\ received[u] = 1..Chunks
          /\ job' = [job EXCEPT ![q] = [NoJob EXCEPT !.pc = "load", !.u = u]]
    BY <1>6 DEF BeginComplete
  <2>2. u \in Uploads
    BY <1>1 DEF UploadTyped, UploadTypeOK
  <2>3. job'[q].u = u /\ job'[q].whole
    BY <1>2, <2>1 DEF NoJob
  <2>4. \A i \in 1..Chunks : Written(u, i)
    BY <2>1, <2>2 DEF UploadInv, ReceivedIsWritten
  <2> QED
    BY <1>1, <2>2, <2>3, <2>4 DEF WrittenStays, Written
<1>7. CASE OpenWhole(q)
  BY <1>2, <1>3, <1>4, <1>7 DEF OpenWhole, Then, JobTypes
<1>8. CASE StreamChunk(q)
  <2>1. job[q].i + 1 \in 1..Chunks
    BY <1>2, <1>8, UploadAssumption DEF StreamChunk, JobTypes
  <2>2. job[q].whole /\ part[job[q].u][job[q].i + 1] = "all"
    BY <1>4, <1>8, <2>1 DEF StreamChunk
  <2>3. job'[q].u = job[q].u
    BY <1>2, <1>8 DEF StreamChunk, JobTypes
  <2>4. job'[q].whole = (job[q].whole /\ part[job[q].u][job[q].i + 1] = "all")
    BY <1>2, <1>8 DEF StreamChunk, JobTypes
  <2> QED
    BY <1>3, <1>8, <2>2, <2>3, <2>4 DEF StreamChunk
<1> QED
  BY <1>1, <1>5, <1>6, <1>7, <1>8, WhoCompletes

LEMMA StepKeepsObjects == UploadInv /\ [UploadNext]_uploadVars => ObjectIsWhole'
<1> SUFFICES ASSUME UploadInv, [UploadNext]_uploadVars PROVE ObjectIsWhole'
  OBVIOUS
<1>1. ObjectIsWhole /\ object \in [Uploads -> {"none", "whole", "torn"}]
  BY DEF UploadInv, UploadTyped, UploadTypeOK
<1>2. UNCHANGED object => ObjectIsWhole'
  BY <1>1 DEF ObjectIsWhole
<1>3. ASSUME NEW r \in UploadRequests, R2Stores(r) PROVE ObjectIsWhole'
  <2>1. job[r].whole
    BY <1>3 DEF R2Stores, UploadInv, CompletedIsWritten
  <2> QED
    BY <1>1, <1>3, <2>1 DEF R2Stores, ObjectIsWhole
<1>4. ASSUME NEW r \in UploadRequests, StartStep(r) \/ ChunkStep(r) \/ ClearStep(r)
      PROVE  UNCHANGED object
  BY <1>4 DEF StartStep, CreateFile, pruneExpired, EnterTable, ChunkStep, CheckChunk, OpenPart,
              WriteSome, BodyBreaks, WriteRest, MarkReceived, ClearStep, Forget, RemoveDir,
              RestSame
<1>5. ASSUME NEW r \in UploadRequests, CompleteStep(r), ~R2Stores(r) PROVE UNCHANGED object
  BY <1>5 DEF CompleteStep, BeginComplete, OpenWhole, StreamChunk, StreamFails,
              markNotCompleting, RestSame
<1>6. DayPasses \/ UploadCrash \/ UNCHANGED uploadVars => UNCHANGED object
  BY DEF DayPasses, UploadCrash, uploadVars, RestSame
<1> QED
  BY <1>2, <1>3, <1>4, <1>5, <1>6 DEF UploadNext

-----------------------------------------------------------------------------
(***************************************************************************)
(* Who owns a directory.                                                   *)
(***************************************************************************)
\* The directories a request answers for.
Owns(j) == j.dirs \cup (IF j.pc \in {"prune", "enter"} THEN {j.u} ELSE {})

UploadOwned(u) == u \in listed \/ u \in leftBehind \/ \E r \in UploadRequests : u \in Owns(job[r])

LEMMA OwnedIsOwned == DirectoriesAreOwned <=> \A u \in dir : UploadOwned(u)
  BY DEF DirectoriesAreOwned, UploadOwned, Owns

LEMMA OwnedIsOwnedNext == DirectoriesAreOwned' <=> \A u \in dir' : UploadOwned(u)'
  BY DEF DirectoriesAreOwned, UploadOwned, Owns

\* What request r answered for goes to the table or stays with it, and no other
\* request is touched.
LEMMA HandOver ==
  ASSUME JobsFit, NEW r \in UploadRequests, NEW j, job' = [job EXCEPT ![r] = j],
         leftBehind \subseteq leftBehind',
         NEW u, UploadOwned(u),
         u \in listed => u \in listed' \cup Owns(j),
         u \in Owns(job[r]) => u \in listed' \cup Owns(j)
  PROVE  UploadOwned(u)'
  BY DEF UploadOwned, JobsFit

LEMMA StepKeepsOwned ==
  UploadTyped /\ DirectoriesAreOwned /\ [UploadNext]_uploadVars => DirectoriesAreOwned'
<1> SUFFICES ASSUME UploadTyped, \A u \in dir : UploadOwned(u), [UploadNext]_uploadVars,
                    NEW u \in dir'
             PROVE  UploadOwned(u)'
  BY OwnedIsOwned, OwnedIsOwnedNext
<1> USE DEF TableSame, DiskSame, RestSame, Then, Answer
<1>0. JobsFit /\ job \in [UploadRequests -> JobTypes] /\ Owns(NoJob) = {}
  BY DEF UploadTyped, JobsFit, Owns, NoJob
<1>1. ASSUME NEW r \in UploadRequests, StartStep(r) PROVE UploadOwned(u)'
  <2>1. job[r] \in JobTypes /\ UploadFits(job[r])
    BY <1>0, JobIsTyped
  <2>2. CASE CreateFile(r)
    <3> DEFINE j == [NoJob EXCEPT !.pc = "prune", !.u = used']
    <3>1. Owns(j) = {used'} /\ Owns(job[r]) = {}
      BY <2>1, <2>2 DEF CreateFile, UploadCall, Owns, UploadFits, NoJob
    <3>2. job' = [job EXCEPT ![r] = j] /\ listed' = listed /\ leftBehind' = leftBehind
      BY <2>2 DEF CreateFile
    <3>3. CASE u = used'
      BY <1>0, <3>1, <3>2, <3>3 DEF UploadOwned
    <3>4. CASE u # used'
      <4>1. u \in dir
        BY <2>2, <3>4 DEF CreateFile
      <4> HIDE DEF j
      <4> QED
        BY <1>0, <3>1, <3>2, <4>1, HandOver
    <3> QED
      BY <3>3, <3>4
  <2>3. CASE pruneExpired(r)
    <3> DEFINE j == [job[r] EXCEPT !.pc = "enter", !.dirs = listed \cap stale]
    <3>1. Owns(j) = {job[r].u} \cup (listed \cap stale) /\ Owns(job[r]) = {job[r].u}
      BY <2>1, <2>3 DEF pruneExpired, Owns, UploadFits, JobTypes
    <3>2. job' = [job EXCEPT ![r] = j] /\ listed' = listed \ stale /\ leftBehind' = leftBehind
          /\ u \in dir
      BY <2>3, <2>1, <1>0 DEF pruneExpired, JobTypes
    <3> HIDE DEF j
    <3> QED
      BY <1>0, <3>1, <3>2, HandOver
  <2>4. CASE EnterTable(r)
    <3>1. Owns(job[r]) = {job[r].u} \cup job[r].dirs
      BY <2>4 DEF EnterTable, Owns
    <3> QED
      BY <1>0, <2>4, <3>1, HandOver DEF EnterTable
  <2> QED
    BY <1>1, <2>2, <2>3, <2>4 DEF StartStep
<1>2. ASSUME NEW r \in UploadRequests, NEW j, job' = [job EXCEPT ![r] = j],
             job[r].pc \notin {"prune", "enter", "clear"},
             listed' = listed, dir' = dir, leftBehind' = leftBehind
      PROVE  UploadOwned(u)'
  <2>1. Owns(job[r]) = {}
    BY <1>0, <1>2, JobIsTyped DEF Owns, UploadFits
  <2> QED
    BY <1>0, <1>2, <2>1, HandOver
<1>3. ASSUME NEW r \in UploadRequests, ChunkStep(r) PROVE UploadOwned(u)'
  <2>1. CASE WriteSome(r)
    BY <2>1 DEF WriteSome, UploadOwned
  <2> QED
    BY <1>2, <1>3, <2>1 DEF ChunkStep, CheckChunk, UploadCall, OpenPart, BodyBreaks, WriteRest,
                            MarkReceived
<1>4. ASSUME NEW r \in UploadRequests, CompleteStep(r) PROVE UploadOwned(u)'
  BY <1>2, <1>4 DEF CompleteStep, BeginComplete, UploadCall, OpenWhole, StreamChunk, StreamFails,
                    markNotCompleting, R2Stores
<1>5. ASSUME NEW r \in UploadRequests, ClearStep(r) PROVE UploadOwned(u)'
  <2>1. CASE Forget(r)
    <3>1. Owns(job[r]) = {}
      BY <1>0, <2>1, JobIsTyped DEF Forget, UploadCall, Owns, UploadFits
    <3>2. PICK v : /\ listed' = listed \ {v}
                   /\ job' = [job EXCEPT ![r] =
                               IF v \in listed THEN [NoJob EXCEPT !.pc = "clear", !.dirs = {v}]
                                               ELSE NoJob]
      BY <2>1 DEF Forget
    <3>3. Owns([NoJob EXCEPT !.pc = "clear", !.dirs = {v}]) = {v}
      BY DEF Owns, NoJob
    <3>4. u \in dir /\ leftBehind' = leftBehind
      BY <2>1 DEF Forget
    <3> QED
      BY <1>0, <3>1, <3>2, <3>3, <3>4, HandOver
  <2>2. CASE RemoveDir(r)
    <3>1. Owns(job[r]) = job[r].dirs
      BY <2>2 DEF RemoveDir, Owns
    <3> QED
      BY <1>0, <2>2, <3>1, HandOver DEF RemoveDir
  <2> QED
    BY <1>5, <2>1, <2>2 DEF ClearStep
<1>6. DayPasses \/ UNCHANGED uploadVars => UploadOwned(u)'
  BY DEF DayPasses, uploadVars, UploadOwned
<1>7. UploadCrash => UploadOwned(u)'
  BY DEF UploadCrash, UploadOwned
<1> QED
  BY <1>1, <1>3, <1>4, <1>5, <1>6, <1>7 DEF UploadNext

-----------------------------------------------------------------------------
(***************************************************************************)
(* The theorems.                                                           *)
(***************************************************************************)
LEMMA UploadInvHolds == UploadSpec => [](UploadInv /\ DirectoriesAreOwned)
<1>1. UploadInv /\ DirectoriesAreOwned /\ [UploadNext]_uploadVars
        => (UploadInv /\ DirectoriesAreOwned)'
  BY StepKeepsTypes, StepKeepsReceived, StepKeepsMarked, StepKeepsCompleted, StepKeepsObjects,
     StepKeepsOwned DEF UploadInv
<1> QED
  BY UploadInitiallyInv, <1>1, PTL DEF UploadSpec

\* The table of uploads, the files and the requests of r2UploadManager stay
\* what the handlers take them for.
THEOREM UploadTypeCorrect == UploadSpec => []UploadTypeOK
<1>1. UploadInv => UploadTypeOK
  BY DEF UploadInv, UploadTyped
<1> QED
  BY UploadInvHolds, <1>1, PTL

\* What complete stores in R2 has every chunk in full, although chunks are
\* written and the file is read without r2UploadManager.mu.
THEOREM StoredIsWhole == UploadSpec => []ObjectIsWhole
<1>1. UploadInv => ObjectIsWhole
  BY DEF UploadInv
<1> QED
  BY UploadInvHolds, <1>1, PTL

\* No directory is lost while the process runs: the table, or a request that
\* is about to enter or remove it, answers for each.
THEOREM NoDirectoryIsLost == UploadSpec => []DirectoriesAreOwned
  BY UploadInvHolds, PTL

-----------------------------------------------------------------------------
(***************************************************************************)
(* Proofs about S3Server, for any number of requests, ports and listeners. *)
(*                                                                         *)
(* RunningIsServed is not inductive: a request that is about to publish a  *)
(* listener, or to shut one down, must not share it with the server field  *)
(* or with another request (HeldApart), and what is about to be published  *)
(* must still listen where its configuration says (PublishedListens).      *)
(* SettledServerIsConfigured needs that whatever is out of step with the   *)
(* saved settings is in the hands of a request that will look at them      *)
(* (SettlingInv).                                                          *)
(***************************************************************************)
Spots == {"idle", "config", "decide", "start", "ensure", "shutdown", "listen", "error",
          "publish", "stop", "stopping"}

Conditions == {"listening", "serving", "failed", "closed"}

Configs == [on: BOOLEAN, auto: BOOLEAN, port: Ports \cup {0}]

AtTypes == [pc: Spots, cfg: Configs, keep: BOOLEAN, old: 0..MaxListeners]

DavTyped == DavTypeOK /\ at \in [DavRequests -> AtTypes]

\* The request answers for the listener it has in old.
Holds(j) == j.pc \in {"publish", "shutdown", "stopping"}

\* A listener has one owner: the server field or one request.
HeldApart ==
  /\ server <= opened /\ doomed \subseteq 1..opened
  /\ \A r \in DavRequests :
       Holds(at[r]) => /\ at[r].old \in 1..opened /\ at[r].old # server
                       /\ \A q \in DavRequests \ {r} :
                            Holds(at[q]) => at[q].old # at[r].old

PublishedListens ==
  \A r \in DavRequests :
    at[r].pc = "publish" =>
      /\ socket[at[r].old] = [st |-> "listening", port |-> at[r].cfg.port]
      /\ at[r].old \notin doomed

DavInv == DavTyped /\ HeldApart /\ PublishedListens /\ RunningIsServed

LEMMA NowhereIsTyped == Nowhere \in AtTypes /\ [Nowhere EXCEPT !.pc = "config"] \in AtTypes
<1>1. 0 \in 0..MaxListeners
  BY DavAssumption
<1>2. [on |-> FALSE, auto |-> FALSE, port |-> 0] \in Configs
  BY DEF Configs
<1>3. Nowhere \in AtTypes
  BY <1>1, <1>2 DEF Nowhere, AtTypes, Spots
<1> QED
  BY <1>3 DEF AtTypes, Spots

LEMMA DavInitiallyInv == DavInit => DavInv
<1> SUFFICES ASSUME DavInit PROVE DavInv
  OBVIOUS
<1>1. PICK r \in DavRequests :
        at = [q \in DavRequests |-> IF q = r THEN [Nowhere EXCEPT !.pc = "config"] ELSE Nowhere]
  BY DEF DavInit
<1>2. at \in [DavRequests -> AtTypes]
  BY <1>1, NowhereIsTyped
<1>3. \A q \in DavRequests : at[q].pc \in {"idle", "config"}
  BY <1>1 DEF Nowhere
<1>4. DavTypeOK
  <2>1. /\ wildcard \in BOOLEAN /\ running \in BOOLEAN /\ raced \in BOOLEAN
        /\ silent \in BOOLEAN
    BY Zenon DEF DavInit
  <2>2. socket \in [Listeners -> [st: Conditions, port: Ports \cup {0}]]
    BY DEF DavInit, Conditions
  <2>3. server \in 0..MaxListeners /\ opened \in 0..MaxListeners /\ addr \in Ports \cup {0}
    BY DavAssumption DEF DavInit
  <2>4. dav \in [on: BOOLEAN, auto: BOOLEAN, port: Ports] /\ doomed \subseteq Listeners
    BY DEF DavInit
  <2> QED
    BY <1>3, <2>1, <2>2, <2>3, <2>4 DEF DavTypeOK, Conditions
<1>5. server <= opened /\ doomed \subseteq 1..opened /\ ~running
  BY DEF DavInit
<1>6. HeldApart /\ PublishedListens /\ RunningIsServed
  BY <1>3, <1>5 DEF HeldApart, Holds, PublishedListens, RunningIsServed
<1> QED
  BY <1>2, <1>4, <1>6 DEF DavInv, DavTyped

-----------------------------------------------------------------------------
(***************************************************************************)
(* Type correctness.                                                       *)
(***************************************************************************)
\* A request that moves on or returns keeps its types, and the others stay.
LEMMA DavMovesAreTyped ==
  ASSUME DavTyped, NEW r \in DavRequests
  PROVE  /\ at[r] \in AtTypes
         /\ \A j \in AtTypes : at' = [at EXCEPT ![r] = j] =>
              /\ at' \in [DavRequests -> AtTypes] /\ at'[r] = j
              /\ \A q \in DavRequests \ {r} : at'[q] = at[q]
         /\ \A place \in Spots : Goto(r, place) =>
              /\ at' \in [DavRequests -> AtTypes] /\ at'[r].pc = place
              /\ at'[r].cfg = at[r].cfg /\ at'[r].old = at[r].old
              /\ \A q \in DavRequests \ {r} : at'[q] = at[q]
         /\ Returns(r) =>
              /\ at' \in [DavRequests -> AtTypes] /\ at'[r].pc = "idle"
              /\ \A q \in DavRequests \ {r} : at'[q] = at[q]
<1>1. at[r] \in AtTypes /\ at \in [DavRequests -> AtTypes]
  BY DEF DavTyped
<1>2. ASSUME NEW j \in AtTypes, at' = [at EXCEPT ![r] = j]
      PROVE  /\ at' \in [DavRequests -> AtTypes] /\ at'[r] = j
             /\ \A q \in DavRequests \ {r} : at'[q] = at[q]
  BY <1>1, <1>2
<1>3. ASSUME NEW place \in Spots, Goto(r, place)
      PROVE  /\ at' \in [DavRequests -> AtTypes] /\ at'[r].pc = place
             /\ at'[r].cfg = at[r].cfg /\ at'[r].old = at[r].old
             /\ \A q \in DavRequests \ {r} : at'[q] = at[q]
  <2> DEFINE j == [at[r] EXCEPT !.pc = place]
  <2>1. j \in AtTypes /\ j.pc = place /\ j.cfg = at[r].cfg /\ j.old = at[r].old
    BY <1>1 DEF AtTypes
  <2>2. at' = [at EXCEPT ![r] = j]
    BY <1>3 DEF Goto
  <2> HIDE DEF j
  <2> QED
    BY <1>2, <2>1, <2>2
<1>4. ASSUME Returns(r)
      PROVE  /\ at' \in [DavRequests -> AtTypes] /\ at'[r].pc = "idle"
             /\ \A q \in DavRequests \ {r} : at'[q] = at[q]
  <2>1. Nowhere.pc = "idle"
    BY DEF Nowhere
  <2> QED
    BY <1>2, <1>4, <2>1, NowhereIsTyped DEF Returns
<1> QED
  BY <1>1, <1>2, <1>3, <1>4

\* The configuration that a request read.
LEMMA ReadIsTyped == DavTyped => dav \in Configs
  BY DEF DavTyped, DavTypeOK, Configs

\* What the steps of a request do to its own record.
Progress(r) ==
  /\ at' \in [DavRequests -> AtTypes]
  /\ \A q \in DavRequests \ {r} : at'[q] = at[q]

LEMMA RequestsProgress ==
  ASSUME DavTyped, NEW r \in DavRequests, DavRequest(r) \/ DavStep(r)
  PROVE  Progress(r)
<1>1. at[r] \in AtTypes
  BY DavMovesAreTyped
<1>2. \A j \in AtTypes : at' = [at EXCEPT ![r] = j] => Progress(r)
  BY DavMovesAreTyped DEF Progress
<1>3. \A place \in Spots : Goto(r, place) => Progress(r)
  BY DavMovesAreTyped DEF Progress
<1>4. Returns(r) => Progress(r)
  BY DavMovesAreTyped DEF Progress
<1>5. ASSUME NEW place \in Spots, NEW b \in BOOLEAN
      PROVE  /\ [Nowhere EXCEPT !.pc = place] \in AtTypes
             /\ [Nowhere EXCEPT !.pc = place, !.keep = b] \in AtTypes
  BY NowhereIsTyped DEF Nowhere, AtTypes
<1>6. CASE DavRequest(r)
  <2>1. running \in BOOLEAN /\ {"config", "start", "stop"} \subseteq Spots
    BY DEF DavTyped, DavTypeOK, Spots
  <2>2. PostConfig(r) => Progress(r)
    BY DEF PostConfig, Progress, DavTyped
  <2> QED
    BY <1>2, <1>5, <1>6, <2>1, <2>2
    DEF DavRequest, SaveSettings, ImportSettings, StartNow, StopNow
<1>7. CASE ReadConfig(r)
  <2> DEFINE place == IF dav.on THEN "decide" ELSE "stop"
             j == [at[r] EXCEPT !.cfg = dav, !.pc = place]
  <2>1. place \in Spots
    BY DEF Spots
  <2> HIDE DEF place
  <2>2. j \in AtTypes
    BY <1>1, <2>1, ReadIsTyped DEF AtTypes
  <2>3. at' = [at EXCEPT ![r] = j]
    BY <1>7, <1>1 DEF ReadConfig, place, DavTyped, AtTypes
  <2> QED
    BY <1>2, <2>2, <2>3
<1>8. CASE ReadAgain(r)
  <2> DEFINE j == [at[r] EXCEPT !.cfg = dav, !.pc = "ensure"]
  <2>1. j \in AtTypes
    BY <1>1, ReadIsTyped DEF AtTypes, Spots
  <2>2. at' = [at EXCEPT ![r] = IF dav.on THEN j ELSE Nowhere]
    BY <1>8 DEF ReadAgain
  <2> HIDE DEF j
  <2> QED
    BY <1>2, <2>1, <2>2, NowhereIsTyped
<1>9. CASE Detach(r)
  <2> DEFINE place == IF server = 0 THEN "listen" ELSE "shutdown"
             j == [at[r] EXCEPT !.old = server, !.pc = place]
  <2>1. place \in Spots /\ server \in 0..MaxListeners
    BY DEF Spots, DavTyped, DavTypeOK
  <2> HIDE DEF place
  <2>2. j \in AtTypes
    BY <1>1, <2>1 DEF AtTypes
  <2>3. at' = [at EXCEPT ![r] = j]
    BY <1>9, <1>1 DEF Detach, place, DavTyped, AtTypes
  <2> QED
    BY <1>2, <2>2, <2>3
<1>10. CASE Listen(r)
  <2> DEFINE j == [at[r] EXCEPT !.pc = "publish", !.old = opened']
  <2>1. opened' \in 0..MaxListeners
    BY <1>10, DavAssumption DEF Listen, DavTyped, DavTypeOK
  <2>2. j \in AtTypes
    BY <1>1, <2>1 DEF AtTypes, Spots
  <2>3. at' = [at EXCEPT ![r] = j]
    BY <1>10, <1>1 DEF Listen, DavTyped, AtTypes
  <2> QED
    BY <1>2, <2>2, <2>3
<1>11. CASE TakeDown(r)
  <2> DEFINE j == [at[r] EXCEPT !.old = server, !.pc = "stopping"]
  <2>1. j \in AtTypes
    BY <1>1 DEF AtTypes, Spots, DavTyped, DavTypeOK
  <2>2. at' = [at EXCEPT ![r] = IF server = 0 THEN Nowhere ELSE j]
    BY <1>11 DEF TakeDown
  <2> HIDE DEF j
  <2> QED
    BY <1>2, <2>1, <2>2, NowhereIsTyped
<1>12. {"start", "stop", "listen", "error"} \subseteq Spots
  BY DEF Spots
<1>13. Decide(r) => Goto(r, "start") \/ Goto(r, "stop")
  BY DEF Decide
<1>14. /\ ShutOld(r) => Goto(r, "listen")
       /\ ListenFails(r) => Goto(r, "error")
       /\ Keep(r) \/ setError(r) \/ Publish(r) \/ ShutDown(r) => Returns(r)
  BY DEF ShutOld, ListenFails, Keep, setError, Publish, ShutDown
<1> QED
  BY <1>3, <1>4, <1>6, <1>7, <1>8, <1>9, <1>10, <1>11, <1>12, <1>13, <1>14 DEF DavStep

\* Where the steps leave a request.
LEMMA WhereItGoes ==
  ASSUME DavTyped, NEW r \in DavRequests
  PROVE  /\ DavRequest(r) => at'[r].pc \in {"idle", "config", "start", "stop"}
         /\ ReadConfig(r) => at'[r].pc \in {"decide", "stop"}
         /\ Decide(r) => at'[r].pc \in {"start", "stop"}
         /\ ReadAgain(r) => at'[r].pc \in {"ensure", "idle"}
         /\ Keep(r) \/ setError(r) \/ Publish(r) \/ ShutDown(r) => at'[r].pc = "idle"
         /\ Detach(r) => at'[r].pc \in {"listen", "shutdown"}
         /\ ShutOld(r) => at'[r].pc = "listen"
         /\ ListenFails(r) => at'[r].pc = "error"
         /\ TakeDown(r) => at'[r].pc \in {"idle", "stopping"}
<1>1. at \in [DavRequests -> AtTypes] /\ at[r] \in AtTypes
  BY DavMovesAreTyped DEF DavTyped
<1>2. /\ Nowhere.pc = "idle"
      /\ \A place : [Nowhere EXCEPT !.pc = place].pc = place
  BY DEF Nowhere
<1>3. \A place \in Spots : Goto(r, place) => at'[r].pc = place
  BY DavMovesAreTyped
<1>4. Returns(r) => at'[r].pc = "idle"
  BY DavMovesAreTyped
<1>5. {"start", "stop", "listen", "error"} \subseteq Spots
  BY DEF Spots
<1>6. DavRequest(r) => at'[r].pc \in {"idle", "config", "start", "stop"}
  <2>1. \A j : at' = [at EXCEPT ![r] = j] => at'[r] = j
    BY <1>1
  <2>4. /\ [Nowhere EXCEPT !.pc = "config", !.keep = TRUE].pc = "config"
        /\ [Nowhere EXCEPT !.pc = "config", !.keep = running].pc = "config"
    BY DEF Nowhere
  <2>2. SaveSettings(r) \/ ImportSettings(r) => at'[r].pc = "config"
    BY <2>1, <2>4, Zenon DEF SaveSettings, ImportSettings
  <2>3. (StartNow(r) => at'[r].pc = "start") /\ (StopNow(r) => at'[r].pc = "stop")
    BY <1>2, <2>1 DEF StartNow, StopNow
  <2>5. PostConfig(r) => at'[r].pc = "idle"
    BY DEF PostConfig, DavCall
  <2> QED
    BY <2>2, <2>3, <2>5 DEF DavRequest
<1>7. ReadConfig(r) => at'[r].pc \in {"decide", "stop"}
  BY <1>1 DEF ReadConfig, AtTypes
<1>8. Decide(r) => at'[r].pc \in {"start", "stop"}
  <2>1. Decide(r) => Goto(r, "start") \/ Goto(r, "stop")
    BY DEF Decide
  <2> QED
    BY <1>3, <1>5, <2>1
<1>9. ReadAgain(r) => at'[r].pc \in {"ensure", "idle"}
  BY <1>1, <1>2 DEF ReadAgain, AtTypes
<1>10. Keep(r) \/ setError(r) \/ Publish(r) \/ ShutDown(r) => at'[r].pc = "idle"
  BY <1>4 DEF Keep, setError, Publish, ShutDown
<1>11. Detach(r) => at'[r].pc \in {"listen", "shutdown"}
  BY <1>1 DEF Detach, AtTypes
<1>12. ShutOld(r) => at'[r].pc = "listen"
  BY <1>3, <1>5 DEF ShutOld
<1>13. ListenFails(r) => at'[r].pc = "error"
  BY <1>3, <1>5 DEF ListenFails
<1>14. TakeDown(r) => at'[r].pc \in {"idle", "stopping"}
  BY <1>1, <1>2 DEF TakeDown, AtTypes
<1> QED
  BY <1>6, <1>7, <1>8, <1>9, <1>10, <1>11, <1>12, <1>13, <1>14

\* The listener that a request shuts down is one.
LEMMA ShutIsListener ==
  ASSUME DavTyped, HeldApart, NEW r \in DavRequests, Holds(at[r])
  PROVE  at[r].old \in Listeners /\ at[r].old \in 1..opened
  BY DavAssumption DEF DavTyped, DavTypeOK, HeldApart, Listeners

\* What Shutdown does to the network.
LEMMA ShutsIsTyped ==
  ASSUME DavTyped, NEW l \in Listeners, Shuts(l)
  PROVE  /\ socket' \in [Listeners -> [st: Conditions,
                                       port: Ports \cup {0}]]
         /\ doomed' \subseteq doomed \cup {l} /\ doomed \subseteq doomed'
         /\ \A k \in Listeners \ {l} : socket'[k] = socket[k]
<1>1. socket[l] \in [st: Conditions, port: Ports \cup {0}]
  BY DEF DavTyped, DavTypeOK, Conditions
<1>2. [socket[l] EXCEPT !.st = "closed"]
        \in [st: Conditions, port: Ports \cup {0}]
  BY <1>1 DEF Conditions
<1>3. socket' = [socket EXCEPT ![l] = [socket[l] EXCEPT !.st = "closed"]] \/ UNCHANGED socket
  BY DEF Shuts
<1>4. UNCHANGED doomed \/ doomed' = doomed \cup {l}
  BY DEF Shuts
<1> QED
  BY <1>2, <1>3, <1>4 DEF DavTyped, DavTypeOK, Conditions

LEMMA RequestKeepsTypes ==
  ASSUME DavTyped, HeldApart, NEW r \in DavRequests, DavRequest(r) \/ DavStep(r)
  PROVE  DavTyped'
<1> USE DEF EnvSame, FieldsSame, NetSame
<1>1. at' \in [DavRequests -> AtTypes] /\ at[r] \in AtTypes
  BY RequestsProgress, DavMovesAreTyped DEF Progress
<1>2. \A q \in DavRequests : at'[q].pc \in Spots
  BY <1>1 DEF AtTypes
<1>3. dav' \in [on: BOOLEAN, auto: BOOLEAN, port: Ports] /\ UNCHANGED wildcard
  BY DEF DavRequest, SaveSettings, ImportSettings, PostConfig, StartNow, StopNow, DavStep, ReadConfig,
         Decide, ReadAgain, Keep, Detach, ShutOld, Listen, ListenFails, setError, Publish,
         TakeDown, ShutDown, DavTyped, DavTypeOK
<1>4. server' \in 0..MaxListeners /\ addr' \in Ports \cup {0}
  BY <1>1, DavAssumption
  DEF DavRequest, SaveSettings, ImportSettings, PostConfig, StartNow, StopNow, DavStep, ReadConfig,
      Decide, ReadAgain, Keep, Detach, ShutOld, Listen, ListenFails, setError, Publish,
      TakeDown, ShutDown, DavTyped, DavTypeOK, AtTypes, Configs
<1>5. running' \in BOOLEAN
  <2>1. running' = FALSE \/ running' = TRUE \/ running' = running
    BY DEF DavRequest, SaveSettings, ImportSettings, PostConfig, StartNow, StopNow, DavStep, ReadConfig,
           Decide, ReadAgain, Keep, Detach, ShutOld, Listen, ListenFails, setError, Publish,
           TakeDown, ShutDown
  <2> QED
    BY <2>1 DEF DavTyped, DavTypeOK
<1>6. raced' \in BOOLEAN
  <2>1. CASE UNCHANGED raced
    BY <2>1 DEF DavTyped, DavTypeOK
  <2>2. CASE Keep(r) \/ ListenFails(r) \/ setError(r) \/ Publish(r)
    BY <2>1, <2>2, Zenon DEF Keep, ListenFails, setError, Publish
  <2>3. Keep(r) \/ ListenFails(r) \/ setError(r) \/ Publish(r) \/ UNCHANGED raced
    BY DEF DavRequest, SaveSettings, ImportSettings, PostConfig, StartNow, StopNow, DavStep, ReadConfig,
           Decide, ReadAgain, Detach, ShutOld, Listen, TakeDown, ShutDown
  <2> QED
    BY <2>1, <2>2, <2>3
<1>7. /\ socket' \in [Listeners -> [st: Conditions, port: Ports \cup {0}]]
      /\ doomed' \subseteq Listeners /\ opened' \in 0..MaxListeners
  <2>1. CASE ShutOld(r) \/ ShutDown(r)
    <3>1. Holds(at[r]) /\ Shuts(at[r].old) /\ UNCHANGED opened
      BY <2>1 DEF ShutOld, ShutDown, Holds
    <3> QED
      BY <3>1, ShutIsListener, ShutsIsTyped DEF DavTyped, DavTypeOK, Conditions
  <2>2. CASE Listen(r)
    <3>1. opened' \in Listeners /\ opened' \in 0..MaxListeners
      BY <2>2, DavAssumption DEF Listen, DavTyped, DavTypeOK, Listeners
    <3>2. [st |-> "listening", port |-> at[r].cfg.port]
            \in [st: Conditions, port: Ports \cup {0}]
      BY <1>1 DEF AtTypes, Configs, Conditions
    <3> QED
      BY <2>2, <3>1, <3>2 DEF Listen, DavTyped, DavTypeOK, Conditions
  <2>3. UNCHANGED <<socket, doomed, opened>> \/ ShutOld(r) \/ ShutDown(r) \/ Listen(r)
    BY DEF DavRequest, SaveSettings, ImportSettings, PostConfig, StartNow, StopNow, DavStep, ReadConfig,
           Decide, ReadAgain, Keep, Detach, ListenFails, setError, Publish, TakeDown
  <2> QED
    BY <2>1, <2>2, <2>3 DEF DavTyped, DavTypeOK, Conditions
<1>8. wildcard' \in BOOLEAN
  BY <1>3 DEF DavTyped, DavTypeOK
<1>9. silent' \in BOOLEAN
  <2>1. \/ silent' = silent \/ silent' = TRUE \/ silent' = FALSE
        \/ silent' = (silent /\ ~dav.on)
    BY DEF DavRequest, SaveSettings, ImportSettings, PostConfig, StartNow, StopNow, DavStep, ReadConfig,
           Decide, ReadAgain, Keep, Detach, ShutOld, Listen, ListenFails, setError, Publish,
           TakeDown, ShutDown
  <2>2. silent \in BOOLEAN
    BY DEF DavTyped, DavTypeOK
  <2> QED
    BY <2>1, <2>2, Zenon
<1> QED
  BY <1>1, <1>2, <1>3, <1>4, <1>5, <1>6, <1>7, <1>8, <1>9 DEF DavTyped, DavTypeOK, Spots, Conditions

LEMMA ServerKeepsTypes ==
  ASSUME DavTyped, NEW l \in Listeners, Serve(l) \/ AcceptFails(l) \/ ServeEnds(l)
  PROVE  DavTyped'
<1>1. socket[l] \in [st: Conditions, port: Ports \cup {0}]
  BY DEF DavTyped, DavTypeOK, Conditions
<1>2. \A st \in Conditions :
        [socket[l] EXCEPT !.st = st]
          \in [st: Conditions, port: Ports \cup {0}]
  BY <1>1
<1>3. \E st \in Conditions : socket' = [socket EXCEPT ![l] = [socket[l] EXCEPT !.st = st]]
  BY DEF Serve, AcceptFails, ServeEnds, Conditions
<1>4. socket' \in [Listeners -> [st: Conditions, port: Ports \cup {0}]]
  BY <1>2, <1>3 DEF DavTyped, DavTypeOK, Conditions
<1>5. running' = running \/ running' = FALSE
  BY DEF Serve, AcceptFails, ServeEnds, FieldsSame, DavTyped, DavTypeOK
<1>6. UNCHANGED <<dav, wildcard, silent, server, addr, at, doomed, opened, raced>>
  BY DEF Serve, AcceptFails, ServeEnds, EnvSame, FieldsSame
<1> QED
  BY <1>4, <1>5, <1>6 DEF DavTyped, DavTypeOK, Conditions

-----------------------------------------------------------------------------
(***************************************************************************)
(* Who answers for a listener.                                             *)
(***************************************************************************)
\* A request that answers for none leaves the owners alone.
LEMMA LetsGo ==
  ASSUME DavTyped, HeldApart, NEW r \in DavRequests, Progress(r), ~Holds(at'[r]),
         server' \in {0, server}, opened' = opened, doomed' \subseteq 1..opened
  PROVE  HeldApart'
<1>1. opened \in Nat /\ server \in Nat
  BY DavAssumption DEF DavTyped, DavTypeOK
<1>2. server' <= opened'
  BY <1>1 DEF HeldApart
<1>3. ASSUME NEW q \in DavRequests, Holds(at'[q])
      PROVE  /\ at'[q].old \in 1..opened' /\ at'[q].old # server'
             /\ \A p \in DavRequests \ {q} : Holds(at'[p]) => at'[p].old # at'[q].old
  <2>1. q # r /\ at'[q] = at[q]
    BY <1>3 DEF Progress
  <2>2. at[q].old \in 1..opened /\ at[q].old # server
    BY <1>3, <2>1 DEF HeldApart
  <2>3. at'[q].old # server'
    BY <1>1, <2>1, <2>2
  <2>4. ASSUME NEW p \in DavRequests \ {q}, Holds(at'[p]) PROVE at'[p].old # at'[q].old
    BY <1>3, <2>1, <2>4 DEF HeldApart, Progress
  <2> QED
    BY <2>1, <2>2, <2>3, <2>4
<1> QED
  BY <1>2, <1>3 DEF HeldApart, Holds

\* A request that takes over the listener l that nobody else answers for.
LEMMA TakesOver ==
  ASSUME DavTyped, HeldApart, NEW r \in DavRequests, Progress(r),
         NEW l, at'[r].old = l, l \in 1..opened', l # server',
         \A q \in DavRequests \ {r} : Holds(at[q]) => at[q].old # l /\ at[q].old # server',
         server' <= opened', opened' \in Nat, opened <= opened', doomed' = doomed
  PROVE  HeldApart'
<1>1. opened \in Nat /\ doomed' \subseteq 1..opened'
  BY DavAssumption DEF DavTyped, DavTypeOK, HeldApart
<1>2. ASSUME NEW q \in DavRequests, Holds(at'[q])
      PROVE  /\ at'[q].old \in 1..opened' /\ at'[q].old # server'
             /\ \A p \in DavRequests \ {q} : Holds(at'[p]) => at'[p].old # at'[q].old
  <2>1. CASE q = r
    BY <2>1 DEF Progress
  <2>2. CASE q # r
    <3>1. at'[q] = at[q] /\ at[q].old \in 1..opened
      BY <1>2, <2>2 DEF Progress, HeldApart
    <3>2. at'[q].old \in 1..opened'
      BY <1>1, <3>1
    <3>3. ASSUME NEW p \in DavRequests \ {q}, Holds(at'[p]) PROVE at'[p].old # at'[q].old
      BY <1>2, <2>2, <3>1, <3>3 DEF HeldApart, Progress
    <3> QED
      BY <1>2, <2>2, <3>1, <3>2, <3>3
  <2> QED
    BY <2>1, <2>2
<1> QED
  BY <1>1, <1>2 DEF HeldApart, Holds

LEMMA RequestKeepsApart ==
  ASSUME DavInv, NEW r \in DavRequests, DavRequest(r) \/ DavStep(r)
  PROVE  HeldApart'
<1> USE DEF EnvSame, FieldsSame, NetSame
<1>1. DavTyped /\ HeldApart /\ Progress(r) /\ at[r] \in AtTypes
  BY RequestsProgress, DavMovesAreTyped DEF DavInv
<1>2. opened \in Nat /\ server \in Nat /\ doomed \subseteq 1..opened /\ server <= opened
  BY <1>1, DavAssumption DEF DavTyped, DavTypeOK, HeldApart
<1>3. \A q \in DavRequests : Holds(at[q]) => at[q].old \in 1..opened /\ at[q].old # server
  BY <1>1 DEF HeldApart
<1>4. at \in [DavRequests -> AtTypes]
  BY <1>1 DEF DavTyped
<1>5. CASE DavRequest(r)
  <2>1. UNCHANGED <<server, opened, doomed>>
    BY <1>5 DEF DavRequest, SaveSettings, ImportSettings, PostConfig, StartNow, StopNow
  <2>2. at'[r].pc \in {"idle", "config", "start", "stop"}
    BY <1>1, <1>5, WhereItGoes
  <2> QED
    BY <1>1, <1>2, <2>1, <2>2, LetsGo DEF Holds
<1>6. CASE ReadConfig(r) \/ Decide(r) \/ ReadAgain(r) \/ Keep(r) \/ ListenFails(r)
             \/ setError(r)
  <2>1. UNCHANGED <<server, opened, doomed>>
    BY <1>6 DEF ReadConfig, Decide, ReadAgain, Keep, ListenFails, setError
  <2>2. ~Holds(at'[r])
    BY <1>1, <1>6, WhereItGoes DEF Holds
  <2> QED
    BY <1>1, <1>2, <2>1, <2>2, LetsGo
<1>7. CASE ShutOld(r) \/ ShutDown(r)
  <2>1. /\ Holds(at[r]) /\ Shuts(at[r].old) /\ UNCHANGED <<server, opened>>
    BY <1>7 DEF ShutOld, ShutDown, Holds
  <2>2. doomed' \subseteq 1..opened
    BY <1>1, <1>2, <2>1, ShutIsListener, ShutsIsTyped
  <2>3. at'[r].pc \in {"listen", "idle"}
    BY <1>1, <1>4, <1>7 DEF ShutOld, ShutDown, Goto, Returns, Nowhere, AtTypes
  <2> QED
    BY <1>1, <2>1, <2>2, <2>3, LetsGo DEF Holds
<1>8. CASE Detach(r)
  <2>1. server' = 0 /\ UNCHANGED <<opened, doomed>>
    BY <1>8 DEF Detach
  <2>2. at'[r].old = server /\ at'[r].pc = IF server = 0 THEN "listen" ELSE "shutdown"
    BY <1>1, <1>4, <1>8 DEF Detach, AtTypes
  <2>3. CASE server = 0
    BY <1>1, <1>2, <2>1, <2>2, <2>3, LetsGo DEF Holds
  <2>4. CASE server # 0
    <3>1. \A q \in DavRequests \ {r} : Holds(at[q]) => at[q].old # server /\ at[q].old # server'
      BY <1>3, <2>1
    <3>2. server \in 1..opened' /\ server # server' /\ server' <= opened'
          /\ opened' \in Nat /\ opened <= opened'
      BY <1>2, <2>1, <2>4
    <3> QED
      BY <1>1, <2>1, <2>2, <3>1, <3>2, TakesOver
  <2> QED
    BY <2>3, <2>4
<1>9. CASE Listen(r)
  <2>1. opened' = opened + 1 /\ UNCHANGED <<server, doomed>>
    BY <1>9 DEF Listen
  <2>2. at'[r].old = opened'
    BY <1>1, <1>4, <1>9 DEF Listen, AtTypes
  <2>3. \A q \in DavRequests \ {r} : Holds(at[q]) => at[q].old # opened' /\ at[q].old # server'
    BY <1>2, <1>3, <2>1
  <2>4. opened' \in 1..opened' /\ opened' # server' /\ server' <= opened'
        /\ opened' \in Nat /\ opened <= opened'
    BY <1>2, <2>1
  <2> QED
    BY <1>1, <2>1, <2>2, <2>3, <2>4, TakesOver
<1>10. CASE Publish(r)
  <2>1. server' = at[r].old /\ UNCHANGED <<opened, doomed>> /\ Holds(at[r])
    BY <1>10 DEF Publish, Holds
  <2>2. at'[r].pc = "idle"
    BY <1>1, <1>10, DavMovesAreTyped DEF Publish
  <2>3. ASSUME NEW q \in DavRequests, Holds(at'[q])
        PROVE  /\ at'[q].old \in 1..opened' /\ at'[q].old # server'
               /\ \A p \in DavRequests \ {q} : Holds(at'[p]) => at'[p].old # at'[q].old
    <3>1. q # r /\ at'[q] = at[q]
      BY <1>1, <2>2, <2>3 DEF Progress, Holds
    <3>2. ASSUME NEW p \in DavRequests \ {q}, Holds(at'[p]) PROVE at'[p].old # at'[q].old
      <4>1. p # r /\ at'[p] = at[p]
        BY <1>1, <2>2, <3>2 DEF Progress, Holds
      <4> QED
        BY <1>1, <2>3, <3>1, <3>2, <4>1 DEF HeldApart
    <3> QED
      BY <1>1, <2>1, <2>3, <3>1, <3>2 DEF HeldApart
  <2>4. server' <= opened' /\ doomed' \subseteq 1..opened'
    BY <1>2, <1>3, <2>1
  <2> QED
    BY <2>3, <2>4 DEF HeldApart, Holds
<1>11. CASE TakeDown(r)
  <2>1. server' = 0 /\ UNCHANGED <<opened, doomed>>
    BY <1>11 DEF TakeDown
  <2>2. CASE server = 0
    <3>1. at'[r].pc = "idle"
      BY <1>4, <1>11, <2>2 DEF TakeDown, Nowhere
    <3> QED
      BY <1>1, <1>2, <2>1, <3>1, LetsGo DEF Holds
  <2>3. CASE server # 0
    <3>1. \A q \in DavRequests \ {r} : Holds(at[q]) => at[q].old # server /\ at[q].old # server'
      BY <1>3, <2>1
    <3>2. server \in 1..opened' /\ server # server' /\ server' <= opened'
          /\ opened' \in Nat /\ opened <= opened'
      BY <1>2, <2>1, <2>3
    <3>3. at'[r].old = server
      BY <1>1, <1>4, <1>11, <2>3 DEF TakeDown, AtTypes
    <3> QED
      BY <1>1, <2>1, <3>1, <3>2, <3>3, TakesOver
  <2> QED
    BY <2>2, <2>3
<1> QED
  BY <1>5, <1>6, <1>7, <1>8, <1>9, <1>10, <1>11 DEF DavStep

LEMMA ServerKeepsApart ==
  ASSUME DavInv, NEW l \in Listeners, Serve(l) \/ AcceptFails(l) \/ ServeEnds(l)
  PROVE  HeldApart'
<1>1. UNCHANGED <<server, at, doomed, opened>>
  BY DEF Serve, AcceptFails, ServeEnds, FieldsSame
<1> QED
  BY <1>1 DEF DavInv, HeldApart, Holds

-----------------------------------------------------------------------------
(***************************************************************************)
(* What is published, and what is reported as running.                     *)
(***************************************************************************)
\* The listeners of requests about to publish and of the server that is
\* reported as running are none that a step shuts down.
LEMMA RequestKeepsPublished ==
  ASSUME DavInv, NEW r \in DavRequests, DavRequest(r) \/ DavStep(r)
  PROVE  PublishedListens'
<1> USE DEF EnvSame, FieldsSame, NetSame
<1>1. DavTyped /\ HeldApart /\ PublishedListens /\ Progress(r) /\ at[r] \in AtTypes
      /\ at \in [DavRequests -> AtTypes]
  BY RequestsProgress, DavMovesAreTyped DEF DavInv, DavTyped
<1>2. ASSUME at'[r].pc # "publish",
             \A q \in DavRequests \ {r} : at[q].pc = "publish" =>
               socket'[at[q].old] = socket[at[q].old] /\ at[q].old \notin doomed'
      PROVE  PublishedListens'
  <2> SUFFICES ASSUME NEW q \in DavRequests, at'[q].pc = "publish"
               PROVE  /\ socket'[at'[q].old] = [st |-> "listening", port |-> at'[q].cfg.port]
                      /\ at'[q].old \notin doomed'
    BY DEF PublishedListens
  <2>1. q # r /\ at'[q] = at[q]
    BY <1>1, <1>2 DEF Progress
  <2> QED
    BY <1>1, <1>2, <2>1 DEF PublishedListens
<1>3. ASSUME UNCHANGED <<socket, doomed>>
      PROVE  \A q \in DavRequests \ {r} : at[q].pc = "publish" =>
               socket'[at[q].old] = socket[at[q].old] /\ at[q].old \notin doomed'
  BY <1>1, <1>3 DEF PublishedListens
<1>4. CASE DavRequest(r)
  <2>1. at'[r].pc # "publish"
    BY <1>1, <1>4, WhereItGoes
  <2>2. UNCHANGED <<socket, doomed>>
    BY <1>4 DEF DavRequest, SaveSettings, ImportSettings, PostConfig, StartNow, StopNow
  <2> QED
    BY <1>2, <1>3, <2>1, <2>2
<1>5. CASE \/ ReadConfig(r) \/ Decide(r) \/ ReadAgain(r) \/ Keep(r) \/ Detach(r)
           \/ ListenFails(r) \/ setError(r) \/ Publish(r) \/ TakeDown(r)
  <2>1. at'[r].pc # "publish"
    BY <1>1, <1>5, WhereItGoes
  <2>2. UNCHANGED <<socket, doomed>>
    BY <1>5
    DEF ReadConfig, Decide, ReadAgain, Keep, Detach, ListenFails, setError, Publish, TakeDown
  <2> QED
    BY <1>2, <1>3, <2>1, <2>2
<1>6. CASE ShutOld(r) \/ ShutDown(r)
  <2>1. Holds(at[r]) /\ Shuts(at[r].old)
    BY <1>6 DEF ShutOld, ShutDown, Holds
  <2>2. at'[r].pc # "publish"
    BY <1>1, <1>6 DEF ShutOld, ShutDown, Goto, Returns, Nowhere, AtTypes
  <2>3. ASSUME NEW q \in DavRequests \ {r}, at[q].pc = "publish"
        PROVE  socket'[at[q].old] = socket[at[q].old] /\ at[q].old \notin doomed'
    <3>1. Holds(at[q])
      BY <2>3 DEF Holds
    <3>2. at[q].old \in Listeners /\ at[q].old # at[r].old
      BY <1>1, <2>1, <2>3, <3>1, ShutIsListener DEF HeldApart
    <3>3. at[q].old \notin doomed
      BY <1>1, <2>3 DEF PublishedListens
    <3> QED
      BY <1>1, <2>1, <3>2, <3>3, ShutIsListener, ShutsIsTyped
  <2> QED
    BY <1>2, <2>2, <2>3
<1>7. CASE Listen(r)
  <2>1. opened \in Nat /\ opened' = opened + 1 /\ doomed' = doomed /\ doomed \subseteq 1..opened
    BY <1>1, <1>7, DavAssumption DEF Listen, DavTyped, DavTypeOK, HeldApart
  <2>2. opened' \in Listeners
    BY <1>7, <2>1, DavAssumption DEF Listen, Listeners
  <2>3. socket' = [socket EXCEPT ![opened'] = [st |-> "listening", port |-> at[r].cfg.port]]
        /\ DOMAIN socket = Listeners
    BY <1>1, <1>7 DEF Listen, DavTyped, DavTypeOK
  <2>4. at'[r].old = opened' /\ at'[r].cfg = at[r].cfg
    BY <1>1, <1>7 DEF Listen, AtTypes
  <2> SUFFICES ASSUME NEW q \in DavRequests, at'[q].pc = "publish"
               PROVE  /\ socket'[at'[q].old] = [st |-> "listening", port |-> at'[q].cfg.port]
                      /\ at'[q].old \notin doomed'
    BY DEF PublishedListens
  <2>5. CASE q = r
    BY <2>1, <2>2, <2>3, <2>4, <2>5
  <2>6. CASE q # r
    <3>1. at'[q] = at[q] /\ at[q].old \in 1..opened
      BY <1>1, <2>6 DEF Progress, HeldApart, Holds
    <3>2. socket'[at[q].old] = socket[at[q].old]
      BY <2>1, <2>3, <3>1
    <3> QED
      BY <1>1, <2>1, <3>1, <3>2 DEF PublishedListens
  <2> QED
    BY <2>5, <2>6
<1> QED
  BY <1>4, <1>5, <1>6, <1>7 DEF DavStep

LEMMA RequestKeepsServed ==
  ASSUME DavInv, NEW r \in DavRequests, DavRequest(r) \/ DavStep(r)
  PROVE  RunningIsServed'
<1> USE DEF EnvSame, FieldsSame, NetSame
<1>1. DavTyped /\ HeldApart /\ PublishedListens /\ RunningIsServed
  BY DEF DavInv
<1>2. ASSUME UNCHANGED <<server, addr, running, socket, doomed>> PROVE RunningIsServed'
  BY <1>1, <1>2 DEF RunningIsServed, Open, Failing
<1>3. CASE DavRequest(r) \/ ReadConfig(r) \/ Decide(r) \/ ReadAgain(r) \/ Keep(r)
             \/ ListenFails(r)
  <2>1. UNCHANGED <<server, addr, running, socket, doomed>>
    BY <1>3 DEF DavRequest, SaveSettings, ImportSettings, PostConfig, StartNow, StopNow, ReadConfig, Decide,
                ReadAgain, Keep, ListenFails
  <2> QED
    BY <1>2, <2>1
<1>4. CASE Detach(r) \/ setError(r) \/ TakeDown(r)
  BY <1>4 DEF Detach, setError, TakeDown, RunningIsServed
<1>5. CASE ShutOld(r) \/ ShutDown(r)
  <2>1. Holds(at[r]) /\ Shuts(at[r].old) /\ UNCHANGED <<server, addr, running>>
    BY <1>5 DEF ShutOld, ShutDown, Holds
  <2>2. at[r].old \in Listeners /\ at[r].old # server
    BY <1>1, <2>1, ShutIsListener DEF HeldApart
  <2>3. doomed' \subseteq doomed \cup {at[r].old}
        /\ \A k \in Listeners \ {at[r].old} : socket'[k] = socket[k]
    BY <1>1, <2>1, <2>2, ShutsIsTyped
  <2>4. server # 0 => server \in Listeners
    BY <1>1, DavAssumption DEF DavTyped, DavTypeOK, Listeners
  <2> QED
    BY <1>1, <2>1, <2>2, <2>3, <2>4 DEF RunningIsServed, Open, Failing
<1>6. CASE Listen(r)
  <2>1. opened' = opened + 1 /\ opened \in Nat /\ server \in Nat /\ server <= opened
    BY <1>1, <1>6, DavAssumption DEF Listen, DavTyped, DavTypeOK, HeldApart
  <2>2. socket'[server] = socket[server] /\ UNCHANGED <<server, addr, running, doomed>>
    BY <1>6, <2>1 DEF Listen
  <2> QED
    BY <1>1, <2>2 DEF RunningIsServed, Open, Failing
<1>7. CASE Publish(r)
  <2>1. at[r].old \in 1..opened
    BY <1>1, <1>7 DEF Publish, HeldApart, Holds
  <2>2. at[r].old # 0
    BY <2>1
  <2>3. /\ socket[at[r].old] = [st |-> "listening", port |-> at[r].cfg.port]
        /\ at[r].old \notin doomed
    BY <1>1, <1>7 DEF Publish, PublishedListens
  <2>4. server' = at[r].old /\ addr' = at[r].cfg.port /\ UNCHANGED <<socket, doomed>>
    BY <1>7 DEF Publish
  <2>5. at[r].old \in Listeners
    BY <2>1, <1>1, DavAssumption DEF DavTyped, DavTypeOK, Listeners
  <2> QED
    BY <2>2, <2>3, <2>4, <2>5 DEF RunningIsServed, Open, Failing
<1> QED
  BY <1>3, <1>4, <1>5, <1>6, <1>7 DEF DavStep

\* Serve and the end of Serve change the listener they are about.
LEMMA ServerKeepsPublished ==
  ASSUME DavInv, NEW l \in Listeners, Serve(l) \/ AcceptFails(l) \/ ServeEnds(l)
  PROVE  PublishedListens'
<1>1. UNCHANGED <<at, doomed>>
  BY DEF Serve, AcceptFails, ServeEnds
<1>2. \A k \in Listeners : k # l => socket'[k] = socket[k]
  BY DEF Serve, AcceptFails, ServeEnds, DavInv, DavTyped, DavTypeOK
<1>3. ASSUME NEW q \in DavRequests, at[q].pc = "publish"
      PROVE  at[q].old # l /\ at[q].old \in Listeners
  <2>2. at[q].old \in Listeners
    BY <1>3, ShutIsListener DEF DavInv, Holds
  <2>1. socket[at[q].old].st = "listening"
    <3>1. socket[at[q].old] = [st |-> "listening", port |-> at[q].cfg.port]
      BY <1>3 DEF DavInv, PublishedListens
    <3> QED
      BY <3>1
  <2>3. Serve(l) => at[q].old # l
    BY <1>3 DEF Serve, Published
  <2>4. AcceptFails(l) \/ ServeEnds(l) => at[q].old # l
    BY <2>1 DEF AcceptFails, ServeEnds
  <2> QED
    BY <2>2, <2>3, <2>4, Zenon
<1> QED
  BY <1>1, <1>2, <1>3 DEF DavInv, PublishedListens

LEMMA ServerKeepsServed ==
  ASSUME DavInv, NEW l \in Listeners, Serve(l) \/ AcceptFails(l) \/ ServeEnds(l)
  PROVE  RunningIsServed'
<1>1. DavTyped /\ RunningIsServed
  BY DEF DavInv
<1>2. socket[l] \in [st: Conditions, port: Ports \cup {0}]
  BY <1>1 DEF DavTyped, DavTypeOK, Conditions
<1>5. server # 0 => server \in Listeners
  BY <1>1, DavAssumption DEF DavTyped, DavTypeOK, Listeners
<1>3. CASE Serve(l)
  <2>1. UNCHANGED <<server, addr, running, doomed>>
    BY <1>3 DEF Serve, FieldsSame
  <2>2. \A k \in Listeners : k # l => socket'[k] = socket[k]
    BY <1>1, <1>3 DEF Serve, DavTyped, DavTypeOK
  <2>3. l \notin doomed => socket'[l].st = "serving" /\ socket'[l].port = socket[l].port
    BY <1>1, <1>2, <1>3 DEF Serve, DavTyped, DavTypeOK
  <2> QED
    BY <1>1, <1>5, <2>1, <2>2, <2>3 DEF RunningIsServed, Open, Failing
<1>6. CASE AcceptFails(l)
  <2>1. UNCHANGED <<server, addr, running, doomed>>
    BY <1>6 DEF AcceptFails, FieldsSame
  <2>2. \A k \in Listeners : k # l => socket'[k] = socket[k]
    BY <1>1, <1>6 DEF AcceptFails, DavTyped, DavTypeOK
  <2>3. socket'[l].st = "failed" /\ socket'[l].port = socket[l].port
    BY <1>1, <1>2, <1>6 DEF AcceptFails, DavTyped, DavTypeOK
  <2> QED
    BY <1>1, <1>5, <2>1, <2>2, <2>3 DEF RunningIsServed, Open, Failing
<1>4. CASE ServeEnds(l)
  <2>1. UNCHANGED <<server, addr, doomed>>
    BY <1>4 DEF ServeEnds
  <2>2. running' => running /\ server # l
    BY <1>4 DEF ServeEnds
  <2>3. \A k \in Listeners : k # l => socket'[k] = socket[k]
    BY <1>1, <1>4 DEF ServeEnds, DavTyped, DavTypeOK
  <2> QED
    BY <1>1, <1>5, <2>1, <2>2, <2>3 DEF RunningIsServed, Open, Failing
<1> QED
  BY <1>3, <1>4, <1>6

-----------------------------------------------------------------------------
(***************************************************************************)
(* The theorems.                                                           *)
(***************************************************************************)
LEMMA DavStepKeepsInv == DavInv /\ [DavNext]_davVars => DavInv'
<1> SUFFICES ASSUME DavInv, [DavNext]_davVars PROVE DavInv'
  OBVIOUS
<1>0. DavTyped /\ HeldApart
  BY DEF DavInv
<1>1. ASSUME NEW r \in DavRequests, DavRequest(r) \/ DavStep(r) PROVE DavInv'
  BY <1>0, <1>1, RequestKeepsTypes, RequestKeepsApart, RequestKeepsPublished, RequestKeepsServed
  DEF DavInv
<1>2. ASSUME NEW l \in Listeners, Serve(l) \/ AcceptFails(l) \/ ServeEnds(l) PROVE DavInv'
  BY <1>0, <1>2, ServerKeepsTypes, ServerKeepsApart, ServerKeepsPublished, ServerKeepsServed
  DEF DavInv
<1>3. CASE UNCHANGED davVars
  BY <1>3 DEF davVars, DavInv, DavTyped, DavTypeOK, HeldApart, Holds, PublishedListens,
              RunningIsServed, Open, Failing
<1> QED
  BY <1>1, <1>2, <1>3 DEF DavNext

LEMMA DavInvHolds == DavSpec => []DavInv
  BY DavInitiallyInv, DavStepKeepsInv, PTL DEF DavSpec

\* The fields of s3DedicatedServer, the sockets and the requests keep their
\* types.
THEOREM DavTypeCorrect == DavSpec => []DavTypeOK
<1>1. DavInv => DavTypeOK
  BY DEF DavInv, DavTyped
<1> QED
  BY DavInvHolds, <1>1, PTL

\* A server reported as running has a listener at the reported address that is
\* open, or that failed and whose goroutine is about to report it, however many
\* requests reconcile, start and stop it at once.
THEOREM ReportedServerIsServed == DavSpec => []RunningIsServed
<1>1. DavInv => RunningIsServed
  BY DEF DavInv
<1> QED
  BY DavInvHolds, <1>1, PTL

-----------------------------------------------------------------------------
(***************************************************************************)
(* What is left when the requests are done.  As long as no request acted   *)
(* on what another had changed in between, every open listener has an      *)
(* owner, and whoever last changed the settings still has to look at them, *)
(* or has brought the server where they want it.  Settings that were saved *)
(* with nobody looking at them (silent) are out of step until a request    *)
(* reads them.                                                             *)
(***************************************************************************)
\* r is on its way to a pc of the set.
DavAt(r, spots) == at[r].pc \in spots

DavOwned ==
  ~raced => \A l \in Open : \/ l = server \/ l \in doomed
                            \/ \E r \in DavRequests : Holds(at[r]) /\ at[r].old = l

DisabledGoesDown ==
  ~raced /\ ~silent /\ ~dav.on => server = 0 \/ \E r \in DavRequests : DavAt(r, {"config", "stop"})

Follows == {"config", "decide", "start", "ensure", "stop"}

PortIsFollowed ==
  ~raced /\ ~silent /\ running /\ addr # dav.port => \E r \in DavRequests : DavAt(r, Follows)

EnabledWhenStarted ==
  \A r \in DavRequests : DavAt(r, {"ensure", "shutdown", "listen", "publish"}) => at[r].cfg.on

SettlingInv == DavOwned /\ DisabledGoesDown /\ PortIsFollowed /\ EnabledWhenStarted

LEMMA InitiallySettling == DavInit => SettlingInv
<1> SUFFICES ASSUME DavInit PROVE SettlingInv
  OBVIOUS
<1>1. \A q \in DavRequests : at[q].pc \in {"idle", "config"}
  BY DEF DavInit, Nowhere
<1>2. Open = {} /\ server = 0 /\ ~running
  BY DEF DavInit, Open
<1> QED
  BY <1>1, <1>2 DEF SettlingInv, DavOwned, DisabledGoesDown, PortIsFollowed,
                    EnabledWhenStarted, DavAt

\* Once set, the flag stays.
LEMMA RacedStays == ASSUME [DavNext]_davVars PROVE raced => raced'
BY DEF davVars, DavNext, DavRequest, DavStep, SaveSettings, ImportSettings, PostConfig, StartNow, StopNow,
       ReadConfig, Decide, ReadAgain, Keep, Detach, ShutOld, Listen, ListenFails, setError,
       Publish, TakeDown, ShutDown, Serve, AcceptFails, ServeEnds

\* Who ends and who begins that nobody looks at the settings.
LEMMA WhoSilences ==
  ASSUME NEW r \in DavRequests, DavRequest(r) \/ DavStep(r)
  PROVE  /\ silent /\ ~silent' => ReadConfig(r) \/ (ReadAgain(r) /\ dav.on)
         /\ PostConfig(r) => silent'
         /\ ReadConfig(r) \/ ReadAgain(r) => dav' = dav
<1>1. ReadAgain(r) /\ silent /\ ~silent' => dav.on
  BY DEF ReadAgain
<1> QED
  BY <1>1 DEF EnvSame, DavRequest, SaveSettings, ImportSettings, PostConfig, StartNow, StopNow, DavStep,
     ReadConfig, Decide, ReadAgain, Keep, Detach, ShutOld, Listen, ListenFails, setError, Publish,
     TakeDown, ShutDown

\* Which fields of the server and of the configuration a step may change.
LEMMA WhoChanges ==
  ASSUME NEW r \in DavRequests, DavRequest(r) \/ DavStep(r)
  PROVE  /\ dav' = dav \/ SaveSettings(r) \/ ImportSettings(r) \/ PostConfig(r)
         /\ ~Publish(r) => /\ server' = server \/ (server' = 0 /\ (Detach(r) \/ TakeDown(r)))
                           /\ running' => running /\ ~Detach(r) /\ ~TakeDown(r)
                           /\ addr' = addr \/ TakeDown(r)
<1> USE DEF EnvSame, FieldsSame
<1>1. CASE DavRequest(r)
  BY <1>1 DEF DavRequest, SaveSettings, ImportSettings, PostConfig, StartNow, StopNow, Detach, TakeDown, DavCall
<1>2. CASE ReadConfig(r) \/ Decide(r) \/ ReadAgain(r) \/ Keep(r) \/ ShutOld(r) \/ Listen(r)
             \/ ListenFails(r) \/ ShutDown(r)
  BY <1>2 DEF ReadConfig, Decide, ReadAgain, Keep, ShutOld, Listen, ListenFails, ShutDown,
              Detach, TakeDown
<1>3. CASE setError(r) \/ Detach(r) \/ TakeDown(r) \/ Publish(r)
  BY <1>3 DEF setError, Detach, TakeDown, Publish
<1> QED BY <1>1, <1>2, <1>3 DEF DavStep

\* The place of a request that changes the settings, and of one that takes the
\* server in its hands.
LEMMA WhereItIs ==
  ASSUME DavTyped, NEW r \in DavRequests
  PROVE  /\ SaveSettings(r) \/ ImportSettings(r) => at'[r].pc = "config"
         /\ ReadConfig(r) /\ ~dav.on => at'[r].pc = "stop"
         /\ ReadAgain(r) /\ dav.on => at'[r].pc = "ensure" /\ at'[r].cfg = dav
         /\ ReadAgain(r) /\ ~dav.on => at'[r].pc = "idle"
         /\ Detach(r) => at'[r].old = server /\ at'[r].cfg = at[r].cfg
                         /\ (server # 0 => at'[r].pc = "shutdown")
         /\ TakeDown(r) /\ server # 0 => at'[r].old = server /\ at'[r].pc = "stopping"
         /\ Listen(r) => /\ at'[r].old = opened' /\ at'[r].pc = "publish"
                         /\ at'[r].cfg = at[r].cfg
<1>1. at \in [DavRequests -> AtTypes] /\ at[r] \in AtTypes
  BY DavMovesAreTyped DEF DavTyped
<1>2. \A j : at' = [at EXCEPT ![r] = j] => at'[r] = j
  BY <1>1
<1>3. /\ [Nowhere EXCEPT !.pc = "config", !.keep = TRUE].pc = "config"
      /\ [Nowhere EXCEPT !.pc = "config", !.keep = running].pc = "config"
      /\ Nowhere.pc = "idle"
  BY DEF Nowhere
<1>4. SaveSettings(r) \/ ImportSettings(r) => at'[r].pc = "config"
  BY <1>2, <1>3, Zenon DEF SaveSettings, ImportSettings
<1>5. ReadConfig(r) /\ ~dav.on => at'[r].pc = "stop"
  BY <1>1 DEF ReadConfig, AtTypes
<1>6. ReadAgain(r) /\ dav.on => at'[r].pc = "ensure" /\ at'[r].cfg = dav
  BY <1>1 DEF ReadAgain, AtTypes
<1>7. ReadAgain(r) /\ ~dav.on => at'[r].pc = "idle"
  BY <1>1, <1>3 DEF ReadAgain
<1>8. Detach(r) => at'[r].old = server /\ at'[r].cfg = at[r].cfg
                   /\ (server # 0 => at'[r].pc = "shutdown")
  BY <1>1 DEF Detach, AtTypes
<1>9. TakeDown(r) /\ server # 0 => at'[r].old = server /\ at'[r].pc = "stopping"
  BY <1>1 DEF TakeDown, AtTypes
<1>10. Listen(r) => /\ at'[r].old = opened' /\ at'[r].pc = "publish"
                    /\ at'[r].cfg = at[r].cfg
  BY <1>1 DEF Listen, AtTypes
<1> QED BY <1>4, <1>5, <1>6, <1>7, <1>8, <1>9, <1>10

\* No listener opens but by Listen.
LEMMA WhatIsOpen ==
  ASSUME DavInv, NEW r \in DavRequests, DavRequest(r) \/ DavStep(r), NEW l \in Open'
  PROVE  /\ l \in Listeners
         /\ l \in Open \/ (Listen(r) /\ l = opened')
         /\ doomed \subseteq doomed'
         /\ ((ShutOld(r) \/ ShutDown(r)) /\ l = at[r].old) => l \in doomed'
<1> USE DEF EnvSame, FieldsSame, NetSame
<1>0. l \in Listeners /\ socket'[l].st \in {"listening", "serving"} /\ DavTyped /\ HeldApart
  BY DEF Open, DavInv
<1>1. CASE ShutOld(r) \/ ShutDown(r)
  <2>1. Holds(at[r]) /\ Shuts(at[r].old)
    BY <1>1 DEF ShutOld, ShutDown, Holds
  <2>2. at[r].old \in Listeners
    BY <1>0, <2>1, ShutIsListener
  <2>3. doomed \subseteq doomed' /\ \A k \in Listeners \ {at[r].old} : socket'[k] = socket[k]
    BY <1>0, <2>1, <2>2, ShutsIsTyped
  <2>4. CASE l # at[r].old
    BY <1>0, <2>3, <2>4 DEF Open
  <2>5. CASE l = at[r].old
    <3>1. CASE socket[l].st = "serving"
      <4>1. socket' = [socket EXCEPT ![l].st = "closed"]
        BY <2>1, <2>5, <3>1 DEF Shuts
      <4>2. socket'[l].st = "closed"
        BY <1>0, <4>1 DEF DavTyped, DavTypeOK
      <4> QED BY <1>0, <4>2
    <3>2. CASE socket[l].st # "serving"
      <4>1. doomed' = doomed \cup {l} /\ UNCHANGED socket
        BY <2>1, <2>5, <3>2 DEF Shuts
      <4> QED BY <1>0, <2>3, <4>1 DEF Open
    <3> QED BY <3>1, <3>2
  <2> QED BY <1>0, <2>3, <2>4, <2>5
<1>2. CASE Listen(r)
  <2>1. UNCHANGED doomed /\ ~ShutOld(r) /\ ~ShutDown(r)
    BY <1>2 DEF Listen, ShutOld, ShutDown
  <2>2. l # opened' => socket'[l] = socket[l]
    BY <1>0, <1>2 DEF Listen, DavTyped, DavTypeOK
  <2> QED BY <1>0, <1>2, <2>1, <2>2 DEF Open
<1>3. CASE ~Listen(r) /\ ~ShutOld(r) /\ ~ShutDown(r)
  <2>1. UNCHANGED <<socket, doomed>>
    BY <1>3 DEF DavRequest, SaveSettings, ImportSettings, PostConfig, StartNow, StopNow, DavStep, ReadConfig,
                Decide, ReadAgain, Keep, Detach, ListenFails, setError, Publish, TakeDown
  <2> QED BY <1>0, <1>3, <2>1 DEF Open
<1> QED BY <1>1, <1>2, <1>3

LEMMA RequestKeepsOwned ==
  ASSUME DavInv, SettlingInv, NEW r \in DavRequests, DavRequest(r) \/ DavStep(r)
  PROVE  DavOwned'
<1> SUFFICES ASSUME ~raced', NEW l \in Open'
             PROVE  \/ l = server' \/ l \in doomed'
                    \/ \E q \in DavRequests : Holds(at'[q]) /\ at'[q].old = l
  BY DEF DavOwned, Holds
<1>1. /\ DavTyped /\ Progress(r) /\ l \in Listeners /\ doomed \subseteq doomed'
      /\ l \in Open \/ (Listen(r) /\ l = opened')
  BY RequestsProgress, WhatIsOpen DEF DavInv
<1>2. ~raced
  BY RacedStays DEF DavNext
<1>3. l # 0
  BY <1>1 DEF Listeners
<1>4. CASE Listen(r) /\ l = opened'
  BY <1>1, <1>4, WhereItIs DEF Holds
<1>5. CASE l \in Open /\ l = server
  <2>1. ~Publish(r)
    BY <1>3, <1>5 DEF Publish
  <2>2. CASE server' = server
    BY <1>5, <2>2
  <2>3. CASE Detach(r) \/ TakeDown(r)
    BY <1>1, <1>3, <1>5, <2>3, WhereItIs DEF Holds
  <2> QED BY <2>1, <2>2, <2>3, WhoChanges
<1>6. CASE l \in doomed
  BY <1>1, <1>6
<1>7. ASSUME NEW q \in DavRequests, Holds(at[q]), at[q].old = l
      PROVE  \/ l = server' \/ l \in doomed'
             \/ \E p \in DavRequests : Holds(at'[p]) /\ at'[p].old = l
  <2>1. CASE q # r
    BY <1>1, <1>7, <2>1 DEF Progress
  <2>2. CASE q = r
    <3>1. Publish(r) \/ ShutOld(r) \/ ShutDown(r)
      BY <1>7, <2>2 DEF Holds, DavRequest, SaveSettings, ImportSettings, PostConfig, StartNow, StopNow,
         DavCall, DavStep, ReadConfig, Decide, ReadAgain, Keep, Detach, Listen, ListenFails,
         setError, TakeDown
    <3>2. CASE Publish(r)
      BY <1>7, <2>2, <3>2 DEF Publish
    <3>3. CASE ShutOld(r) \/ ShutDown(r)
      BY <1>7, <2>2, <3>3, WhatIsOpen
    <3> QED BY <3>1, <3>2, <3>3
  <2> QED BY <2>1, <2>2
<1>8. l \in Open => \/ l = server \/ l \in doomed
                    \/ \E q \in DavRequests : Holds(at[q]) /\ at[q].old = l
  BY <1>2 DEF SettlingInv, DavOwned
<1> QED BY <1>1, <1>4, <1>5, <1>6, <1>7, <1>8

\* A request that publishes found the settings as they are.
LEMMA PublishesTheSettings ==
  ASSUME EnabledWhenStarted, NEW r \in DavRequests, Publish(r), ~raced'
  PROVE  dav.on /\ dav' = dav /\ addr' = dav.port
BY DEF EnabledWhenStarted, DavAt, Publish, EnvSame

LEMMA RequestKeepsDown ==
  ASSUME DavInv, SettlingInv, NEW r \in DavRequests, DavRequest(r) \/ DavStep(r)
  PROVE  DisabledGoesDown'
<1> SUFFICES ASSUME ~raced', ~silent', ~dav'.on, server' # 0
             PROVE  \E q \in DavRequests : at'[q].pc \in {"config", "stop"}
  BY DEF DisabledGoesDown, DavAt
<1>1. DavTyped /\ Progress(r) /\ EnabledWhenStarted /\ ~raced
  BY RequestsProgress, RacedStays DEF DavInv, SettlingInv, DavNext
<1>2. CASE SaveSettings(r) \/ ImportSettings(r)
  BY <1>1, <1>2, WhereItIs
<1>4. CASE silent
  <2>1. ReadConfig(r) /\ ~dav.on
    BY <1>4, WhoSilences
  <2> QED BY <1>1, <2>1, WhereItIs
<1>3. CASE dav' = dav /\ ~silent
  <2>1. ~Publish(r)
    BY <1>1, <1>3, PublishesTheSettings
  <2>2. server' = server
    BY <2>1, WhoChanges
  <2>3. PICK q \in DavRequests : at[q].pc \in {"config", "stop"}
    BY <1>1, <1>3, <2>2 DEF SettlingInv, DisabledGoesDown, DavAt
  <2>4. CASE q # r
    BY <1>1, <2>3, <2>4 DEF Progress
  <2>5. CASE q = r
    <3>1. ReadConfig(r) \/ TakeDown(r)
      BY <2>3, <2>5 DEF DavRequest, SaveSettings, ImportSettings, PostConfig, StartNow, StopNow,
         DavCall, DavStep, ReadConfig, Decide, ReadAgain, Keep, Detach, ShutOld, Listen,
         ListenFails, setError, Publish, TakeDown, ShutDown
    <3>2. ~TakeDown(r)
      BY DEF TakeDown
    <3> QED BY <1>1, <1>3, <3>1, <3>2, WhereItIs
  <2> QED BY <2>4, <2>5
<1> QED BY <1>2, <1>3, <1>4, WhoChanges, WhoSilences

LEMMA RequestKeepsPort ==
  ASSUME DavInv, SettlingInv, NEW r \in DavRequests, DavRequest(r) \/ DavStep(r)
  PROVE  PortIsFollowed'
<1> SUFFICES ASSUME ~raced', ~silent', running', addr' # dav'.port
             PROVE  \E q \in DavRequests : at'[q].pc \in Follows
  BY DEF PortIsFollowed, DavAt
<1>1. DavTyped /\ Progress(r) /\ EnabledWhenStarted /\ ~raced
  BY RequestsProgress, RacedStays DEF DavInv, SettlingInv, DavNext
<1>2. CASE SaveSettings(r) \/ ImportSettings(r)
  BY <1>1, <1>2, WhereItIs DEF Follows
<1>4. CASE silent
  <2>1. ReadConfig(r) \/ (ReadAgain(r) /\ dav.on)
    BY <1>4, WhoSilences
  <2> QED BY <1>1, <2>1, WhereItGoes, WhereItIs DEF Follows
<1>3. CASE dav' = dav /\ ~silent
  <2>1. ~Publish(r)
    BY <1>1, <1>3, PublishesTheSettings
  <2>2. running /\ addr' = addr /\ ~Detach(r) /\ ~TakeDown(r)
    BY <2>1, WhoChanges
  <2>3. PICK q \in DavRequests : at[q].pc \in Follows
    BY <1>1, <1>3, <2>2 DEF SettlingInv, PortIsFollowed, DavAt
  <2>4. CASE q # r
    BY <1>1, <2>3, <2>4 DEF Progress
  <2>5. CASE q = r
    <3>1. ReadConfig(r) \/ Decide(r) \/ ReadAgain(r) \/ Keep(r)
      BY <2>2, <2>3, <2>5 DEF Follows, DavRequest, SaveSettings, ImportSettings, PostConfig, StartNow,
         StopNow, DavCall, DavStep, ShutOld, Listen, ListenFails, setError, Publish, ShutDown
    <3>2. CASE ReadConfig(r) \/ Decide(r)
      BY <1>1, <3>2, WhereItGoes DEF Follows
    <3>3. CASE ReadAgain(r) /\ dav.on
      BY <1>1, <3>3, WhereItIs DEF Follows
    <3>4. CASE ReadAgain(r) /\ ~dav.on
      <4>1. server # 0
        BY <2>2 DEF DavInv, RunningIsServed, Open, Failing, Listeners
      <4>2. PICK p \in DavRequests : at[p].pc \in {"config", "stop"}
        BY <1>1, <1>3, <3>4, <4>1 DEF SettlingInv, DisabledGoesDown, DavAt
      <4>3. p # r
        BY <3>4, <4>2 DEF ReadAgain
      <4> QED BY <1>1, <4>2, <4>3 DEF Progress, Follows
    <3>5. ~Keep(r)
      BY <1>3, <2>2 DEF Keep
    <3> QED BY <3>1, <3>2, <3>3, <3>4, <3>5
  <2> QED BY <2>4, <2>5
<1> QED BY <1>2, <1>3, <1>4, WhoChanges, WhoSilences

LEMMA RequestKeepsEnabled ==
  ASSUME DavInv, SettlingInv, NEW r \in DavRequests, DavRequest(r) \/ DavStep(r)
  PROVE  EnabledWhenStarted'
<1> DEFINE started == {"ensure", "shutdown", "listen", "publish"}
<1>1. DavTyped /\ Progress(r) /\ EnabledWhenStarted
  BY RequestsProgress DEF DavInv, SettlingInv
<1>2. at'[r].pc \in started => at'[r].cfg.on
  <2>1. CASE DavRequest(r) \/ ReadConfig(r) \/ Decide(r) \/ Keep(r) \/ ListenFails(r)
             \/ setError(r) \/ Publish(r) \/ TakeDown(r) \/ ShutDown(r)
    BY <1>1, <2>1, WhereItGoes
  <2>2. CASE ReadAgain(r)
    BY <1>1, <2>2, WhereItIs
  <2>3. CASE Detach(r) \/ Listen(r)
    <3>1. at[r].cfg.on
      BY <1>1, <2>3 DEF EnabledWhenStarted, DavAt, Detach, Listen
    <3> QED BY <1>1, <2>3, <3>1, WhereItIs
  <2>4. CASE ShutOld(r)
    <3>1. at[r].cfg.on
      BY <1>1, <2>4 DEF EnabledWhenStarted, DavAt, ShutOld
    <3>2. Goto(r, "listen") /\ "listen" \in Spots
      BY <2>4 DEF ShutOld, Spots
    <3> QED BY <1>1, <3>1, <3>2, DavMovesAreTyped
  <2> QED BY <2>1, <2>2, <2>3, <2>4 DEF DavStep
<1>3. ASSUME NEW q \in DavRequests \ {r}, at'[q].pc \in started PROVE at'[q].cfg.on
  BY <1>1, <1>3 DEF Progress, EnabledWhenStarted, DavAt
<1> QED BY <1>2, <1>3 DEF EnabledWhenStarted, DavAt

LEMMA StepKeepsSettling == DavInv /\ SettlingInv /\ [DavNext]_davVars => SettlingInv'
<1> SUFFICES ASSUME DavInv, SettlingInv, [DavNext]_davVars PROVE SettlingInv'
  OBVIOUS
<1>1. ASSUME NEW r \in DavRequests, DavRequest(r) \/ DavStep(r) PROVE SettlingInv'
  BY <1>1, RequestKeepsOwned, RequestKeepsDown, RequestKeepsPort, RequestKeepsEnabled
  DEF SettlingInv
<1>2. ASSUME NEW l \in Listeners, Serve(l) \/ AcceptFails(l) \/ ServeEnds(l) PROVE SettlingInv'
  <2>1. UNCHANGED <<dav, silent, server, addr, at, doomed, raced>> /\ (running' => running)
    <3>1. Serve(l) \/ AcceptFails(l) => running' = running
      BY DEF Serve, AcceptFails, FieldsSame
    <3>2. ServeEnds(l) => running' = (running /\ server # l)
      BY DEF ServeEnds
    <3>3. running' => running
      BY <1>2, <3>1, <3>2, Zenon
    <3> QED BY <1>2, <3>3 DEF Serve, AcceptFails, ServeEnds, EnvSame, FieldsSame
  <2>2. Open' \subseteq Open
    <3>1. \A k \in Listeners : k # l => socket'[k] = socket[k]
      BY <1>2 DEF Serve, AcceptFails, ServeEnds, DavInv, DavTyped, DavTypeOK
    <3>2. l \in Open' => l \in Open
      <4>1. Serve(l) \/ AcceptFails(l) => l \in Open
        BY DEF Serve, AcceptFails, Open
      <4>2. ServeEnds(l) => socket'[l].st = "closed"
        BY DEF ServeEnds, DavInv, DavTyped, DavTypeOK
      <4> QED BY <1>2, <4>1, <4>2 DEF Open
    <3> QED BY <3>1, <3>2 DEF Open
  <2>3. DavOwned'
    BY <2>1, <2>2 DEF SettlingInv, DavOwned
  <2>4. DisabledGoesDown' /\ EnabledWhenStarted'
    BY <2>1 DEF SettlingInv, DisabledGoesDown, EnabledWhenStarted, DavAt
  <2>5. PortIsFollowed'
    BY <2>1 DEF SettlingInv, PortIsFollowed, DavAt
  <2> QED BY <2>3, <2>4, <2>5 DEF SettlingInv
<1>3. CASE UNCHANGED davVars
  BY <1>3 DEF davVars, SettlingInv, DavOwned, Open, DisabledGoesDown, PortIsFollowed,
              EnabledWhenStarted, DavAt, Holds
<1> QED BY <1>1, <1>2, <1>3 DEF DavNext

\* The server ends as configured: when every request is done, and none acted
\* on what another had changed meanwhile, no listener is left over; and unless
\* POST /api/config saved settings that nobody has read since, a disabled server
\* is down and a running one listens where the configuration says.
THEOREM SettledAsConfigured == DavSpec => []SettledServerIsConfigured
<1>1. DavInv /\ SettlingInv => SettledServerIsConfigured
  <2> SUFFICES ASSUME DavInv, SettlingInv, Settled, ~raced
               PROVE  /\ Open \subseteq {server} \cup doomed
                      /\ ~dav.on /\ ~silent => ~running /\ Open \subseteq doomed
                      /\ running /\ ~silent => addr = dav.port
    BY DEF SettledServerIsConfigured
  <2>1. Open \subseteq {server} \cup doomed
    BY DEF SettlingInv, DavOwned, Settled, Holds
  <2>2. ~dav.on /\ ~silent => server = 0
    BY DEF SettlingInv, DisabledGoesDown, Settled, DavAt
  <2>3. ~dav.on /\ ~silent => ~running /\ Open \subseteq doomed
    BY <2>1, <2>2 DEF DavInv, RunningIsServed, Open, Failing, Listeners
  <2>4. running /\ ~silent => addr = dav.port
    BY DEF SettlingInv, PortIsFollowed, Settled, DavAt, Follows
  <2> QED BY <2>1, <2>3, <2>4
<1>2. DavSpec => []SettlingInv
  BY DavInvHolds, InitiallySettling, StepKeepsSettling, PTL DEF DavSpec
<1> QED BY DavInvHolds, <1>1, <1>2, PTL
=============================================================================
