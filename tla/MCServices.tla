----------------------------- MODULE MCServices -----------------------------
(***************************************************************************)
(* Instances for TLC of the services behind the web interface, and of the  *)
(* signals of the process.  They share no variable and call each other     *)
(* nowhere in the code that is modelled, so each behaviour exercises one   *)
(* of them, chosen at the start, and the others keep their initial state:  *)
(* one run explores what seven would.                                      *)
(***************************************************************************)
EXTENDS OAuthSessions, S3Server, R2Upload, LocalLogin, TunnelIngress, ProtocolFallback,
        ProcessSignals

VARIABLE chosen   \* the service this behaviour exercises

oauthSame    == UNCHANGED oauthVars
davSame      == UNCHANGED davVars
uploadSame   == UNCHANGED uploadVars
loginSame    == UNCHANGED loginVars
ingressSame  == UNCHANGED ingressVars
fallbackSame == UNCHANGED vars
signalsSame  == UNCHANGED signalVars

ServicesInit ==
  /\ chosen \in {"oauth", "dav", "upload", "login", "ingress", "fallback", "signals"}
  /\ OAuthInit /\ DavInit /\ UploadInit /\ LoginInit /\ IngressInit /\ Init
  /\ SignalInit
  /\ chosen # "ingress" =>
       /\ configured = CHOOSE t \in Tunnels : TRUE
       /\ remote = [t \in Tunnels |-> <<>>]
  /\ chosen # "oauth" => created = 0
  /\ chosen # "dav" =>
       /\ ~wildcard /\ dav = [on |-> FALSE, auto |-> FALSE, port |-> CHOOSE p \in Ports : TRUE]
       /\ at[CHOOSE r \in DavRequests : TRUE].pc # "idle"
  /\ chosen # "fallback" => config = "auto"

ServicesNext ==
  /\ UNCHANGED chosen
  /\ \/ /\ chosen = "oauth" /\ OAuthNext
        /\ davSame /\ uploadSame /\ loginSame /\ ingressSame /\ fallbackSame
        /\ signalsSame
     \/ /\ chosen = "dav" /\ DavNext
        /\ oauthSame /\ uploadSame /\ loginSame /\ ingressSame /\ fallbackSame
        /\ signalsSame
     \/ /\ chosen = "upload" /\ UploadNext
        /\ oauthSame /\ davSame /\ loginSame /\ ingressSame /\ fallbackSame
        /\ signalsSame
     \/ /\ chosen = "login" /\ LoginNext
        /\ oauthSame /\ davSame /\ uploadSame /\ ingressSame /\ fallbackSame
        /\ signalsSame
     \/ /\ chosen = "ingress" /\ IngressNext
        /\ oauthSame /\ davSame /\ uploadSame /\ loginSame /\ fallbackSame
        /\ signalsSame
     \/ /\ chosen = "fallback" /\ Next
        /\ oauthSame /\ davSame /\ uploadSame /\ loginSame /\ ingressSame
        /\ signalsSame
     \/ /\ chosen = "signals" /\ SignalNext
        /\ oauthSame /\ davSame /\ uploadSame /\ loginSame /\ ingressSame /\ fallbackSame

ServicesSpec ==
  ServicesInit /\ [][ServicesNext]_<<chosen, oauthVars, davVars, uploadVars,
                                     loginVars, ingressVars, vars, signalVars>>

-----------------------------------------------------------------------------
\* The type invariants of the services together.
ServicesTypeOK ==
  /\ chosen = "oauth" => OAuthTypeOK
  /\ chosen = "dav" => DavTypeOK
  /\ chosen = "upload" => UploadTypeOK
  /\ chosen = "login" => LoginTypeOK
  /\ chosen = "ingress" => IngressTypeOK
  /\ chosen = "fallback" => TypeOK
  /\ chosen = "signals" => SignalTypeOK
=============================================================================
