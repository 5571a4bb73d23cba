-------------------------- MODULE Services_proofs ---------------------------
(***************************************************************************)
(* Proofs about the services of MCServices together: each of them behaves  *)
(* as its own specification says, whatever service a behaviour exercises,  *)
(* so that what is proved of one holds of the composition.                 *)
(***************************************************************************)
EXTENDS MCServices, AccountServices_proofs, WebServices_proofs

servicesVars == <<chosen, oauthVars, davVars, uploadVars, loginVars, ingressVars, vars,
                  signalVars>>

LEMMA ServicesInits ==
  ServicesInit => OAuthInit /\ DavInit /\ UploadInit /\ LoginInit /\ IngressInit /\ Init
                    /\ SignalInit
BY DEF ServicesInit

\* The step of one service is a stutter of the others.
LEMMA ServicesSteps ==
  [ServicesNext]_servicesVars =>
    /\ [OAuthNext]_oauthVars /\ [DavNext]_davVars /\ [UploadNext]_uploadVars
    /\ [LoginNext]_loginVars /\ [IngressNext]_ingressVars /\ [Next]_vars
    /\ [SignalNext]_signalVars
<1>1. CASE ServicesNext
  BY <1>1 DEF ServicesNext, oauthSame, davSame, uploadSame, loginSame, ingressSame, fallbackSame,
              signalsSame
<1>2. CASE UNCHANGED servicesVars
  BY <1>2 DEF servicesVars
<1> QED BY <1>1, <1>2

\* The services do not get in each other's way: together they behave as each
\* of them does alone.
THEOREM ServicesCompose ==
  ServicesSpec => OAuthSpec /\ DavSpec /\ UploadSpec /\ LoginSpec /\ IngressSpec /\ Spec
                    /\ SignalSpec
BY ServicesInits, ServicesSteps, PTL
   DEF ServicesSpec, servicesVars, OAuthSpec, DavSpec, UploadSpec, LoginSpec, IngressSpec, Spec,
       SignalSpec

\* The service a behaviour exercises keeps its types.
THEOREM ServicesTypeCorrect == ServicesSpec => []ServicesTypeOK
<1>1. ServicesSpec => [](OAuthTypeOK /\ DavTypeOK /\ UploadTypeOK /\ LoginTypeOK
                           /\ IngressTypeOK /\ TypeOK /\ SignalTypeOK)
  BY ServicesCompose, OAuthTypeCorrect, DavTypeCorrect, UploadTypeCorrect, LoginTypeCorrect,
     IngressTypeCorrect, TypeCorrect, SignalTypeCorrect, PTL
<1>2. OAuthTypeOK /\ DavTypeOK /\ UploadTypeOK /\ LoginTypeOK /\ IngressTypeOK /\ TypeOK
      /\ SignalTypeOK
        => ServicesTypeOK
  BY DEF ServicesTypeOK
<1> QED BY <1>1, <1>2, PTL

\* All that the services promise holds of them together.
THEOREM ServicesAreCorrect ==
  ServicesSpec =>
    /\ [](OneCurrentSession /\ RefreshTokensUsedOnce /\ StoredTokenIsLive)
    /\ [](RunningIsServed /\ SettledServerIsConfigured)
    /\ [](ObjectIsWhole /\ DirectoriesAreOwned)
    /\ [](SessionsMatchPassword /\ GuessesAreBounded)
    /\ [](CatchAllStaysLast /\ BothTriedBeforeGivingUp /\ SignalIsOrderly)
    /\ LogoutIsFinal /\ SoloEditIsExact
<1>1. ServicesSpec => [](OneCurrentSession /\ RefreshTokensUsedOnce /\ StoredTokenIsLive)
                        /\ LogoutIsFinal
  BY ServicesCompose, OneIsCurrent, TokensAreSpentOnce, StoredTokensLive, LogoutLasts, PTL
<1>2. ServicesSpec => /\ [](RunningIsServed /\ SettledServerIsConfigured)
                      /\ [](ObjectIsWhole /\ DirectoriesAreOwned)
  BY ServicesCompose, ReportedServerIsServed, SettledAsConfigured, StoredIsWhole,
     NoDirectoryIsLost, PTL
<1>3. ServicesSpec => /\ [](SessionsMatchPassword /\ GuessesAreBounded)
                      /\ [](CatchAllStaysLast /\ BothTriedBeforeGivingUp /\ SignalIsOrderly)
                      /\ SoloEditIsExact
  BY ServicesCompose, SessionsFollowPassword, GuessingIsLimited, CatchAllIsLast, BothTried,
     SignalsAreOrderly, EditsAreExact, PTL
<1> QED BY <1>1, <1>2, <1>3
=============================================================================
