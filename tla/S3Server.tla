------------------------------ MODULE S3Server ------------------------------
(***************************************************************************)
(* The dedicated S3 WebDAV server (internal/server/s3_webdav_server.go): a *)
(* second HTTP server that requests and main start, restart and stop, each *)
(* by what it read of the configuration and of the server before.          *)
(*                                                                         *)
(* The critical sections of s3DedicatedServer.mu are actions; reading the  *)
(* configuration, shutting an old server down and listening happen outside *)
(* of the lock and are actions as well.                                    *)
(*                                                                         *)
(* Abstractions: a server is the number of its listener.  Shutdown closes  *)
(* the listener of a server that Serve knows of; of one whose goroutine    *)
(* has not reached Serve yet, Serve closes it when it gets there.  A       *)
(* listener whose Accept fails is closed inside Serve, before its          *)
(* goroutine takes the lock to report it: "failed" is the state between.   *)
(***************************************************************************)
EXTENDS Naturals, FiniteSets

CONSTANTS
  DavRequests,    \* requests that may be at work on the server at once
  Ports,          \* values of DedicatedPort
  MaxListeners,   \* bound: listeners ever opened
  MaxDavCalls,    \* bound: requests
  MaxDavFailures  \* bound: Listen or Accept that fails by itself

ASSUME DavAssumption == MaxListeners \in Nat /\ MaxDavCalls \in Nat /\ MaxDavFailures \in Nat

Listeners == 1..MaxListeners

VARIABLES
  dav,          \* the configuration: [on, auto, port]
  wildcard,     \* is the bind host 0.0.0.0? (chosen once)
  server, addr, running,  \* the fields of s3DedicatedServer; addr is a port
  socket,       \* socket[l]: [st, port] of listener l
  doomed,       \* listeners whose server was shut down before Serve began
  at,           \* at[r]: where request r is, with the values it has read
  opened,       \* listeners opened so far
  raced,        \* history: did a request act on what another had changed?
  silent,       \* history: settings saved that no request has read since
  davCalls, davFailures

davVars == <<dav, wildcard, server, addr, running, socket, doomed, at, opened,
             raced, silent, davCalls, davFailures>>

Nowhere == [pc |-> "idle", cfg |-> [on |-> FALSE, auto |-> FALSE, port |-> 0],
            keep |-> FALSE, old |-> 0]
Open == {l \in Listeners : socket[l].st \in {"listening", "serving"}}
Failing == {l \in Listeners : socket[l].st = "failed"}

DavInit ==
  /\ dav \in [on: BOOLEAN, auto: BOOLEAN, port: Ports]
  /\ wildcard \in BOOLEAN
  /\ server = 0 /\ addr = 0 /\ running = FALSE
  /\ socket = [l \in Listeners |-> [st |-> "closed", port |-> 0]]
  /\ doomed = {}
  \* main calls StartS3WebDAV before it accepts requests
  /\ \E r \in DavRequests :
       at = [q \in DavRequests |->
               IF q = r THEN [Nowhere EXCEPT !.pc = "config"] ELSE Nowhere]
  /\ opened = 0 /\ raced = FALSE /\ silent = FALSE
  /\ davCalls = 0 /\ davFailures = 0

-----------------------------------------------------------------------------
\* main accepts requests when StartS3WebDAV has returned.
Booted == davCalls > 0 \/ \A r \in DavRequests : at[r].pc = "idle"

DavCall(r) ==
  /\ at[r].pc = "idle" /\ Booted /\ davCalls < MaxDavCalls
  /\ davCalls' = davCalls + 1

Goto(r, place) == at' = [at EXCEPT ![r].pc = place]
Returns(r)     == at' = [at EXCEPT ![r] = Nowhere]
FieldsSame == UNCHANGED <<server, addr, running>>
NetSame    == UNCHANGED <<socket, doomed, opened, davFailures>>
EnvSame    == UNCHANGED <<dav, wildcard, silent>>

\* A request saves other settings and then calls restartS3WebDAVDedicated.
SaveSettings(r) ==
  /\ DavCall(r)
  /\ dav' \in [on: BOOLEAN, auto: BOOLEAN, port: Ports]
  /\ at' = [at EXCEPT ![r] = [Nowhere EXCEPT !.pc = "config", !.keep = TRUE]]
  /\ UNCHANGED <<wildcard, raced, silent>> /\ FieldsSame /\ NetSame

\* An imported backup: restartS3 of the runtime hooks looks at the server first.
ImportSettings(r) ==
  /\ DavCall(r)
  /\ dav' \in [on: BOOLEAN, auto: BOOLEAN, port: Ports]
  /\ at' = [at EXCEPT ![r] = [Nowhere EXCEPT !.pc = "config", !.keep = running]]
  /\ UNCHANGED <<wildcard, raced, silent>> /\ FieldsSame /\ NetSame

\* POST /api/config: the whole configuration is saved, these settings with it,
\* and nothing is restarted. Another handler that saves an old copy does the same
\* to this server.
PostConfig(r) ==
  /\ DavCall(r)
  /\ dav' \in [on: BOOLEAN, auto: BOOLEAN, port: Ports] \ {dav}
  /\ silent' = TRUE
  /\ UNCHANGED <<wildcard, at, raced>> /\ FieldsSame /\ NetSame

\* reconcileS3WebDAVDedicated reads the configuration.
ReadConfig(r) ==
  /\ at[r].pc = "config"
  /\ at' = [at EXCEPT ![r].cfg = dav, ![r].pc = IF dav.on THEN "decide" ELSE "stop"]
  /\ silent' = FALSE
  /\ UNCHANGED <<dav, wildcard>> /\ FieldsSame /\ NetSame /\ UNCHANGED <<raced, davCalls>>

\* shouldStart: a settings change keeps a stopped server stopped.
Decide(r) ==
  /\ at[r].pc = "decide"
  /\ Goto(r, IF (IF at[r].keep THEN running ELSE at[r].cfg.auto)
               THEN "start" ELSE "stop")
  /\ EnvSame /\ FieldsSame /\ NetSame /\ UNCHANGED <<raced, davCalls>>

\* startS3WebDAVDedicated reads the configuration again; what it finds switched
\* off by now is not started, and not stopped either.
ReadAgain(r) ==
  /\ at[r].pc = "start"
  /\ at' = [at EXCEPT ![r] = IF dav.on THEN [@ EXCEPT !.cfg = dav, !.pc = "ensure"]
                                       ELSE Nowhere]
  /\ silent' = (silent /\ ~dav.on)
  /\ UNCHANGED <<dav, wildcard>> /\ FieldsSame /\ NetSame /\ UNCHANGED <<raced, davCalls>>

\* StartS3WebDAVNow and StopS3WebDAV on behalf of the user.
StartNow(r) ==
  /\ DavCall(r)
  /\ at' = [at EXCEPT ![r] = [Nowhere EXCEPT !.pc = "start"]]
  /\ EnvSame /\ FieldsSame /\ NetSame /\ UNCHANGED raced

StopNow(r) ==
  /\ DavCall(r)
  /\ at' = [at EXCEPT ![r] = [Nowhere EXCEPT !.pc = "stop"]]
  /\ EnvSame /\ FieldsSame /\ NetSame /\ UNCHANGED raced

-----------------------------------------------------------------------------
(***************************************************************************)
(* ensure and stop.                                                        *)
(***************************************************************************)
\* ensure, first critical section: keep a server that listens where it should.
\* The address of a wildcard listener is reported as [::] and never matches.
Keep(r) ==
  /\ at[r].pc = "ensure"
  /\ server # 0 /\ running /\ addr = at[r].cfg.port /\ ~wildcard
  /\ raced' = (raced \/ at[r].cfg # dav)
  /\ Returns(r) /\ EnvSame /\ FieldsSame /\ NetSame /\ UNCHANGED davCalls

\* Mutant: a server that is to be replaced is forgotten.
Mutant_DetachForgets(r) ==
  /\ at[r].pc = "ensure"
  /\ ~(server # 0 /\ running /\ addr = at[r].cfg.port /\ ~wildcard)
  /\ server' = 0 /\ running' = FALSE
  /\ Goto(r, "listen")
  /\ UNCHANGED <<addr, raced, davCalls>> /\ EnvSame /\ NetSame

Detach(r) ==
  /\ at[r].pc = "ensure"
  /\ ~(server # 0 /\ running /\ addr = at[r].cfg.port /\ ~wildcard)
  /\ at' = [at EXCEPT ![r].old = server,
                      ![r].pc = IF server = 0 THEN "listen" ELSE "shutdown"]
  /\ server' = 0 /\ running' = FALSE
  /\ UNCHANGED <<addr, raced, davCalls>> /\ EnvSame /\ NetSame

\* Shutdown of the old server, in ensure and in stop.
Shuts(l) ==
  IF socket[l].st = "serving"
    THEN socket' = [socket EXCEPT ![l].st = "closed"] /\ UNCHANGED doomed
    ELSE doomed' = doomed \cup {l} /\ UNCHANGED socket

ShutOld(r) ==
  /\ at[r].pc = "shutdown"
  /\ Shuts(at[r].old)
  /\ Goto(r, "listen")
  /\ EnvSame /\ FieldsSame /\ UNCHANGED <<raced, opened, davFailures,
                                          davCalls>>

InUse(p) == \E l \in Open : socket[l].port = p

Listen(r) ==
  /\ at[r].pc = "listen" /\ ~InUse(at[r].cfg.port) /\ opened < MaxListeners
  /\ opened' = opened + 1
  /\ socket' = [socket EXCEPT ![opened'] = [st |-> "listening", port |-> at[r].cfg.port]]
  /\ at' = [at EXCEPT ![r].pc = "publish", ![r].old = opened']
  /\ EnvSame /\ FieldsSame /\ UNCHANGED <<doomed, raced, davFailures,
                                          davCalls>>

\* The address is in use, perhaps by a listener of this program, or refused.
ListenFails(r) ==
  /\ at[r].pc = "listen"
  /\ \/ /\ InUse(at[r].cfg.port)
        /\ raced' = TRUE /\ UNCHANGED davFailures
     \/ /\ davFailures < MaxDavFailures
        /\ davFailures' = davFailures + 1 /\ UNCHANGED raced
  /\ Goto(r, "error")
  /\ EnvSame /\ FieldsSame /\ UNCHANGED <<socket, doomed, opened, davCalls>>

setError(r) ==
  /\ at[r].pc = "error"
  /\ running' = FALSE
  /\ raced' = (raced \/ server # 0)
  /\ Returns(r)
  /\ UNCHANGED <<server, addr, davCalls>> /\ EnvSame /\ NetSame

\* ensure, second critical section.
Publish(r) ==
  /\ at[r].pc = "publish"
  /\ server' = at[r].old /\ addr' = at[r].cfg.port /\ running' = TRUE
  /\ raced' = (raced \/ server # 0 \/ at[r].cfg # dav)
  /\ Returns(r) /\ EnvSame /\ NetSame /\ UNCHANGED davCalls

\* stop: the critical section, then the shutdown.
TakeDown(r) ==
  /\ at[r].pc = "stop"
  /\ at' = [at EXCEPT ![r] = IF server = 0 THEN Nowhere
                             ELSE [@ EXCEPT !.old = server, !.pc = "stopping"]]
  /\ server' = 0 /\ running' = FALSE /\ addr' = 0
  /\ EnvSame /\ NetSame /\ UNCHANGED <<raced, davCalls>>

ShutDown(r) ==
  /\ at[r].pc = "stopping"
  /\ Shuts(at[r].old)
  /\ Returns(r)
  /\ EnvSame /\ FieldsSame /\ UNCHANGED <<raced, opened, davFailures,
                                          davCalls>>

-----------------------------------------------------------------------------
(***************************************************************************)
(* The goroutine of a server.                                              *)
(***************************************************************************)
Published(l) == \A r \in DavRequests : ~(at[r].pc = "publish" /\ at[r].old = l)

Serve(l) ==
  /\ socket[l].st = "listening" /\ Published(l)
  /\ socket' = [socket EXCEPT ![l].st = IF l \in doomed THEN "closed" ELSE "serving"]
  /\ EnvSame /\ FieldsSame
  /\ UNCHANGED <<at, doomed, opened, raced, davCalls, davFailures>>

\* Accept fails: Serve closes the listener and returns the error.
AcceptFails(l) ==
  /\ socket[l].st = "serving" /\ davFailures < MaxDavFailures
  /\ davFailures' = davFailures + 1
  /\ socket' = [socket EXCEPT ![l].st = "failed"]
  /\ EnvSame /\ FieldsSame /\ UNCHANGED <<at, doomed, opened, raced, davCalls>>

\* Mutant: the error is logged and not reported.
Mutant_ServeEnds(l) ==
  /\ socket[l].st = "failed"
  /\ socket' = [socket EXCEPT ![l].st = "closed"]
  /\ EnvSame /\ FieldsSame
  /\ UNCHANGED <<at, doomed, opened, raced, davCalls, davFailures>>

\* The goroutine has the lock: the server is reported as stopped if it still is
\* the current. Until now ensure may have kept it.
ServeEnds(l) ==
  /\ socket[l].st = "failed"
  /\ socket' = [socket EXCEPT ![l].st = "closed"]
  /\ running' = (running /\ server # l)
  /\ EnvSame /\ UNCHANGED <<server, addr, at, doomed, opened, raced, davCalls, davFailures>>

-----------------------------------------------------------------------------
DavRequest(r) == \/ SaveSettings(r) \/ ImportSettings(r) \/ PostConfig(r)
                 \/ StartNow(r) \/ StopNow(r)
DavStep(r) == \/ ReadConfig(r) \/ Decide(r) \/ ReadAgain(r) \/ Keep(r)
              \/ Detach(r) \/ ShutOld(r) \/ Listen(r) \/ ListenFails(r)
              \/ setError(r) \/ Publish(r) \/ TakeDown(r) \/ ShutDown(r)

DavNext == \/ \E r \in DavRequests : DavRequest(r) \/ DavStep(r)
           \/ \E l \in Listeners : Serve(l) \/ AcceptFails(l) \/ ServeEnds(l)

DavSpec == DavInit /\ [][DavNext]_davVars

-----------------------------------------------------------------------------
(***************************************************************************)
(* Properties.                                                             *)
(***************************************************************************)
\* The types of the variables.
DavTypeOK ==
  /\ dav \in [on: BOOLEAN, auto: BOOLEAN, port: Ports] /\ wildcard \in BOOLEAN
  /\ server \in 0..MaxListeners /\ addr \in Ports \cup {0} /\ running \in BOOLEAN
  /\ socket \in [Listeners -> [st: {"listening", "serving", "failed", "closed"}, port: Ports \cup {0}]]
  /\ doomed \subseteq Listeners /\ opened \in 0..MaxListeners
  /\ raced \in BOOLEAN /\ silent \in BOOLEAN
  /\ \A r \in DavRequests : at[r].pc \in
       {"idle", "config", "decide", "start", "ensure", "shutdown", "listen", "error",
        "publish", "stop", "stopping"}

\* A server that is reported as running accepts connections at the reported
\* address, or is about to, or its Accept has just failed and its goroutine is
\* waiting for the lock to report that, whatever requests overlap and however a
\* replaced server ends. In the last case ensure keeps the dead server and
\* answers that it runs (s3_webdav_server.go:162-166).
RunningIsServed ==
  running => /\ server \in Open \cup Failing /\ server \notin doomed
             /\ socket[server].port = addr

Settled == \A r \in DavRequests : at[r].pc = "idle"

\* When no request is at work there is no listener but that of the current
\* server and of those that only have to notice their shutdown; a disabled
\* server is down; and a running one listens where the configuration says.
\* Excepted is what happened to requests that overtook each other, and from the
\* last two what POST /api/config saved and no request has read since: nothing
\* tells the server of it.
SettledServerIsConfigured ==
  Settled /\ ~raced =>
    /\ Open \subseteq {server} \cup doomed
    /\ ~dav.on /\ ~silent => ~running /\ Open \subseteq doomed
    /\ running /\ ~silent => addr = dav.port
=============================================================================
