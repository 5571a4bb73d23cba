--------------------------- MODULE LogBroadcaster ---------------------------
(***************************************************************************)
(* internal/logger: every line the program logs goes through one           *)
(* broadcaster, which keeps the recent lines and offers each line to the   *)
(* channels of the subscribed log streams (handleLogStream).               *)
(*                                                                         *)
(* A goroutine that logs takes broadcastWriter.mu and then, inside         *)
(* Broadcast, LogBroadcaster.mu; the clean-up goroutine takes the second   *)
(* and logs while it holds it.  A line below the level the program was     *)
(* started with (LOG_LEVEL) takes neither: it is dropped before the        *)
(* writers are reached.                                                    *)
(*                                                                         *)
(* Abstractions: a line is its number in the order of Broadcast; the ring  *)
(* is then the last RingSize numbers.  Time is one bit per subscriber:     *)
(* lastActive is more than subscriberTimeout ago.                          *)
(***************************************************************************)
EXTENDS Naturals, Sequences

CONSTANTS
  Streams,        \* requests of /api/logs/stream
  RingSize,       \* lines the ring keeps
  ChanSize,       \* subscriberBufferSize
  MaxChatter      \* bound: lines logged by the rest of the program

ASSUME LogAssumption == /\ RingSize \in Nat \ {0} /\ ChanSize \in Nat \ {0}
                        /\ MaxChatter \in Nat

VARIABLES
  logLevel,     \* the least severity that is written, chosen at the start
  logMu,        \* holder of LogBroadcaster.mu across steps: "none" or "cleaner"
  writerMu,     \* holder of broadcastWriter.mu across steps
  logging,      \* logging[g]: where goroutine g is in a call of the logger
  lines,        \* lines broadcast so far
  channel,      \* channel[s]: lines in the channel of s
  subscribed,   \* keys of LogBroadcaster.subscribers
  open,         \* channels that have not been closed
  inactive,     \* subscribers silent for more than subscriberTimeout
  stream,       \* stream[s]: where the handler is
  hand,         \* hand[s]: the lines the handler is writing to its client
  seen,         \* seen[s]: lines the client has received
  since, missed,  \* history: lines when s subscribed; did its channel overflow?
  until,        \* history: lines when s, still streaming, was unsubscribed
  unwanted,     \* streams whose client has left or whose session was revoked
  shutdownC,    \* is Server.shutdownC closed?
  main,         \* the shutdown sequence of main.go
  chatter       \* counter of the bound

logVars == <<logLevel, logMu, writerMu, logging, lines, channel, subscribed,
             open, inactive, stream, hand, seen, since, until, missed,
             unwanted, shutdownC, main, chatter>>

Writers == Streams \cup {"main", "cleaner", "other"}

Severities == {"info", "warn", "error"}

LogInit ==
  /\ logLevel \in Severities
  /\ logMu = "none" /\ writerMu = "none"
  /\ logging = [g \in Writers |-> "no"]
  /\ lines = 0
  /\ channel = [s \in Streams |-> <<>>]
  /\ subscribed = {} /\ open = {} /\ inactive = {}
  /\ stream = [s \in Streams |-> "none"]
  /\ hand = [s \in Streams |-> {}] /\ seen = [s \in Streams |-> {}]
  /\ since = [s \in Streams |-> 0] /\ until = [s \in Streams |-> 0] /\ missed = {}
  /\ unwanted = {} /\ shutdownC = FALSE /\ main = "serving"
  /\ chatter = 0

-----------------------------------------------------------------------------
(***************************************************************************)
(* A call of the logger: the file core writes through broadcastWriter what *)
(* its level enables.                                                      *)
(***************************************************************************)
LevelEnables(severity) ==
  \/ logLevel = "info" \/ severity = "error"
  \/ logLevel = "warn" /\ severity = "warn"

Logs(g, severity) ==
  logging' = IF LevelEnables(severity) THEN [logging EXCEPT ![g] = "writer"]
                                  ELSE logging

EnterWriter(g) ==
  /\ logging[g] = "writer" /\ writerMu = "none"
  /\ writerMu' = g
  /\ logging' = [logging EXCEPT ![g] = "broadcast"]
  /\ UNCHANGED <<logLevel, logMu, lines, channel, subscribed, open, inactive,
                 stream, hand, seen, since, until, missed, unwanted,
                 shutdownC, main, chatter>>

HasRoom(s) == Len(channel[s]) < ChanSize

\* Mutant: a subscriber that seems dead is not served.
Mutant_SkipInactive(g) ==
  /\ logging[g] = "broadcast" /\ logMu = "none"
  /\ lines' = lines + 1
  /\ LET full   == {s \in subscribed : ~HasRoom(s)}
         served == subscribed \ (full \cup inactive)
     IN  /\ channel' = [s \in Streams |->
                          IF s \in served THEN Append(channel[s], lines + 1)
                                          ELSE channel[s]]
         /\ inactive' = inactive \ served
         /\ missed' = missed \cup full
  /\ writerMu' = "none"
  /\ logging' = [logging EXCEPT ![g] = "no"]
  /\ UNCHANGED <<logLevel, logMu, subscribed, open, stream, hand, seen, since,
                 until, unwanted, shutdownC, main, chatter>>

Broadcast(g) ==
  /\ logging[g] = "broadcast" /\ logMu = "none"
  /\ lines' = lines + 1
  /\ LET full   == {s \in subscribed : ~HasRoom(s)}
         served == subscribed \ full
     IN  /\ channel' = [s \in Streams |->
                          IF s \in served THEN Append(channel[s], lines + 1)
                                          ELSE channel[s]]
         /\ inactive' = inactive \ served
         /\ missed' = missed \cup full
  /\ writerMu' = "none"
  /\ logging' = [logging EXCEPT ![g] = "no"]
  /\ UNCHANGED <<logLevel, logMu, subscribed, open, stream, hand, seen, since,
                 until, unwanted, shutdownC, main, chatter>>

\* Some other goroutine of the program logs a line that is written.
OtherLogs ==
  /\ logging["other"] = "no" /\ chatter < MaxChatter
  /\ chatter' = chatter + 1
  /\ Logs("other", "error")
  /\ UNCHANGED <<logLevel, logMu, writerMu, lines, channel, subscribed, open,
                 inactive, stream, hand, seen, since, until, missed, unwanted,
                 shutdownC, main>>

-----------------------------------------------------------------------------
(***************************************************************************)
(* The clean-up goroutine.                                                 *)
(***************************************************************************)
Dead == subscribed \cap inactive

\* The ticker: take the lock and warn about an inactive subscriber.  A warning
\* that is written waits, inside Broadcast, for the lock that this goroutine
\* holds; the delete and the close that follow are then never reached.
CleanerWarns ==
  /\ logMu = "none" /\ logging["cleaner"] = "no"
  /\ Dead # {} /\ LevelEnables("warn")
  /\ logMu' = "cleaner"
  /\ Logs("cleaner", "warn")
  /\ UNCHANGED <<logLevel, writerMu, lines, channel, subscribed, open, inactive,
                 stream, hand, seen, since, until, missed, unwanted,
                 shutdownC, main, chatter>>

\* The ticker where warnings are not written: the inactive subscribers are
\* deleted and their channels closed.
CleanerRemoves ==
  /\ logMu = "none" /\ Dead # {} /\ ~LevelEnables("warn")
  /\ subscribed' = subscribed \ Dead /\ open' = open \ Dead
  /\ until' = [s \in Streams |-> IF s \in Dead THEN lines ELSE until[s]]
  /\ UNCHANGED <<logLevel, logMu, writerMu, logging, lines, channel, inactive,
                 stream, hand, seen, since, missed, unwanted, shutdownC, main,
                 chatter>>

Hung == logMu = "cleaner"

-----------------------------------------------------------------------------
(***************************************************************************)
(* A log stream: handleLogStream.                                          *)
(***************************************************************************)
Quiet(s) == logging[s] = "no"
At(s, place) == stream[s] = place /\ Quiet(s)
Goes(s, place) == stream' = [stream EXCEPT ![s] = place]

Subscribe(s) ==
  /\ stream[s] = "none" /\ logMu = "none"
  /\ subscribed' = subscribed \cup {s} /\ open' = open \cup {s}
  /\ since' = [since EXCEPT ![s] = lines]
  /\ Goes(s, "connected") /\ Logs(s, "info")
  /\ UNCHANGED <<logLevel, logMu, writerMu, lines, channel, inactive, hand,
                 seen, until, missed, unwanted, shutdownC, main, chatter>>

GetRecentLogs(s) ==
  /\ At(s, "connected") /\ logMu = "none"
  /\ hand' = [hand EXCEPT ![s] = {n \in 1..lines : n + RingSize > lines}]
  /\ Goes(s, "write")
  /\ UNCHANGED <<logLevel, logMu, writerMu, logging, lines, channel,
                 subscribed, open, inactive, seen, since, until, missed,
                 unwanted, shutdownC, main, chatter>>

\* The client accepts what was written.
WriteReturns(s) ==
  /\ At(s, "write")
  /\ seen' = [seen EXCEPT ![s] = @ \cup hand[s]]
  /\ hand' = [hand EXCEPT ![s] = {}]
  /\ Goes(s, "select")
  /\ UNCHANGED <<logLevel, logMu, writerMu, logging, lines, channel,
                 subscribed, open, inactive, since, until, missed, unwanted,
                 shutdownC, main, chatter>>

\* The connection is broken by the client, or by httpServer.Close.
WriteFails(s) ==
  /\ At(s, "write") \/ At(s, "beat")
  /\ s \in unwanted \/ main = "closed"
  /\ Goes(s, "leaving") /\ Logs(s, "warn")
  /\ UNCHANGED <<logLevel, logMu, writerMu, lines, channel, subscribed, open,
                 inactive, hand, seen, since, until, missed, unwanted,
                 shutdownC, main, chatter>>

\* The client does not read: there is no WriteTimeout, so a write may block
\* for longer than subscriberTimeout while the channel accepts nothing.
Stalls(s) ==
  /\ At(s, "write") \/ At(s, "beat")
  /\ s \in subscribed
  /\ inactive' = inactive \cup {s}
  /\ UNCHANGED <<logLevel, logMu, writerMu, logging, lines, channel,
                 subscribed, open, stream, hand, seen, since, until, missed,
                 unwanted, shutdownC, main, chatter>>

Heartbeat(s) ==
  /\ At(s, "select")
  /\ Goes(s, "beat")
  /\ UNCHANGED <<logLevel, logMu, writerMu, logging, lines, channel,
                 subscribed, open, inactive, hand, seen, since, until, missed,
                 unwanted, shutdownC, main, chatter>>

MarkActive(s) ==
  /\ At(s, "beat") /\ logMu = "none"
  /\ inactive' = inactive \ {s}
  /\ Goes(s, "select")
  /\ UNCHANGED <<logLevel, logMu, writerMu, logging, lines, channel,
                 subscribed, open, hand, seen, since, until, missed, unwanted,
                 shutdownC, main, chatter>>

ReceiveLine(s) ==
  /\ At(s, "select") /\ channel[s] # <<>>
  /\ hand' = [hand EXCEPT ![s] = {Head(channel[s])}]
  /\ channel' = [channel EXCEPT ![s] = Tail(@)]
  /\ Goes(s, "write")
  /\ UNCHANGED <<logLevel, logMu, writerMu, logging, lines, subscribed, open,
                 inactive, seen, since, until, missed, unwanted, shutdownC,
                 main, chatter>>

\* Mutant: only the context and the session are looked at.
Mutant_LeaveIgnoresShutdown(s) ==
  /\ At(s, "select")
  /\ s \in unwanted
  /\ Goes(s, "leaving") /\ Logs(s, "info")
  /\ UNCHANGED <<logLevel, logMu, writerMu, lines, channel, subscribed, open,
                 inactive, hand, seen, since, until, missed, unwanted,
                 shutdownC, main, chatter>>

\* ctx.Done, shutdownC, authTicker or the closed channel.
Leave(s) ==
  /\ At(s, "select")
  /\ s \in unwanted \/ shutdownC \/ (s \notin open /\ channel[s] = <<>>)
  /\ Goes(s, "leaving") /\ Logs(s, "info")
  /\ UNCHANGED <<logLevel, logMu, writerMu, lines, channel, subscribed, open,
                 inactive, hand, seen, since, until, missed, unwanted,
                 shutdownC, main, chatter>>

\* The deferred Unsubscribe.
Unsubscribe(s) ==
  /\ At(s, "leaving") /\ logMu = "none"
  /\ subscribed' = subscribed \ {s}
  /\ open' = open \ {s}
  /\ Goes(s, "gone")
  /\ UNCHANGED <<logLevel, logMu, writerMu, logging, lines, channel, inactive,
                 hand, seen, since, until, missed, unwanted, shutdownC, main,
                 chatter>>

\* The client disconnects or its session ends.
Unwant(s) ==
  /\ stream[s] \notin {"none", "gone"} /\ s \notin unwanted
  /\ unwanted' = unwanted \cup {s}
  /\ UNCHANGED <<logLevel, logMu, writerMu, logging, lines, channel,
                 subscribed, open, inactive, stream, hand, seen, since, until,
                 missed, shutdownC, main, chatter>>

-----------------------------------------------------------------------------
(***************************************************************************)
(* The end of main: log, PrepareShutdown, httpServer.Shutdown with 30      *)
(* seconds, httpServer.Close, LogBroadcaster.Close.                        *)
(***************************************************************************)
Signal ==
  /\ main = "serving"
  /\ main' = "signalled" /\ Logs("main", "info")
  /\ UNCHANGED <<logLevel, logMu, writerMu, lines, channel, subscribed, open,
                 inactive, stream, hand, seen, since, until, missed, unwanted,
                 shutdownC, chatter>>

PrepareShutdown ==
  /\ main = "signalled" /\ logging["main"] = "no"
  /\ shutdownC' = TRUE /\ main' = "draining"
  /\ UNCHANGED <<logLevel, logMu, writerMu, logging, lines, channel,
                 subscribed, open, inactive, stream, hand, seen, since, until,
                 missed, unwanted, chatter>>

\* Shutdown returned, or gave up, and what is left of connections is closed.
HttpClose ==
  /\ main = "draining"
  /\ main' = "closed"
  /\ UNCHANGED <<logLevel, logMu, writerMu, logging, lines, channel,
                 subscribed, open, inactive, stream, hand, seen, since, until,
                 missed, unwanted, shutdownC, chatter>>

\* LogBroadcaster.Close: the clean-up goroutine has ended, all channels close.
BroadcasterClose ==
  /\ main = "closed" /\ logMu = "none"
  /\ open' = {} /\ subscribed' = {}
  /\ until' = [s \in Streams |-> IF s \in subscribed THEN lines ELSE until[s]]
  /\ main' = "ended"
  /\ UNCHANGED <<logLevel, logMu, writerMu, logging, lines, channel, inactive,
                 stream, hand, seen, since, missed, unwanted, shutdownC,
                 chatter>>

-----------------------------------------------------------------------------
LogCall(g) == EnterWriter(g) \/ Broadcast(g)
StreamStep(s) == \/ GetRecentLogs(s) \/ ReceiveLine(s) \/ MarkActive(s)
                 \/ Leave(s) \/ Unsubscribe(s)
StreamEvent(s) == \/ Subscribe(s) \/ WriteReturns(s) \/ WriteFails(s)
                  \/ Stalls(s) \/ Heartbeat(s) \/ Unwant(s)
MainStep == PrepareShutdown \/ HttpClose \/ BroadcasterClose

LogNext ==
  /\ main # "ended"
  /\ \/ \E g \in Writers : LogCall(g)
     \/ \E s \in Streams : StreamStep(s) \/ StreamEvent(s)
     \/ OtherLogs \/ CleanerWarns \/ CleanerRemoves \/ Signal \/ MainStep

LogSpec == LogInit /\ [][LogNext]_logVars

(***************************************************************************)
(* Goroutines that can proceed do.  Go's select chooses at random among    *)
(* its ready branches, so a branch that is ready again and again is taken. *)
(* A broken connection fails a write.  No client has to read, and nothing  *)
(* is said of when the 30 seconds are over: streams have to end without.   *)
(***************************************************************************)
BeforeTheEnd(A) == main # "ended" /\ A

LogFairness ==
  /\ \A g \in Writers :
       /\ SF_logVars(BeforeTheEnd(EnterWriter(g)))
       /\ WF_logVars(BeforeTheEnd(Broadcast(g)))
  /\ \A s \in Streams :
       /\ WF_logVars(BeforeTheEnd(GetRecentLogs(s) \/ Unsubscribe(s)
                                   \/ WriteFails(s)))
       /\ SF_logVars(BeforeTheEnd(Leave(s)))
       /\ WF_logVars(BeforeTheEnd(ReceiveLine(s)))
  /\ WF_logVars(PrepareShutdown) /\ WF_logVars(BroadcasterClose)

LogFairSpec == LogSpec /\ LogFairness

-----------------------------------------------------------------------------
(***************************************************************************)
(* Properties.                                                             *)
(***************************************************************************)
\* The types of the variables.
LogTypeOK ==
  /\ logLevel \in Severities
  /\ logMu \in {"none", "cleaner"} /\ writerMu \in Writers \cup {"none"}
  /\ logging \in [Writers -> {"no", "writer", "broadcast"}]
  /\ lines \in Nat /\ chatter \in 0..MaxChatter
  /\ \A s \in Streams : Len(channel[s]) <= ChanSize
  /\ subscribed \subseteq Streams /\ open \subseteq Streams
  /\ inactive \subseteq Streams /\ missed \subseteq Streams /\ unwanted \subseteq Streams
  /\ stream \in [Streams -> {"none", "connected", "write", "select", "beat", "leaving", "gone"}]
  /\ shutdownC \in BOOLEAN
  /\ main \in {"serving", "signalled", "draining", "closed", "ended"}

InChannel(s) == {channel[s][i] : i \in 1..Len(channel[s])}
Reading(s) == stream[s] \in {"write", "select", "beat"}

Until(s) == IF s \in subscribed THEN lines ELSE until[s]

\* A log stream has no gap: every line logged since it subscribed has reached
\* the client, is being written or waits in the channel, whatever falls between
\* Subscribe, GetRecentLogs and the first receive, unless the channel
\* overflowed.  A stream the clean-up removed (where warnings are not written)
\* has every line up to its removal, and is told of no later one.
NoLineSkipped ==
  \A s \in Streams : Reading(s) /\ s \notin missed =>
    (since[s] + 1)..Until(s) \subseteq seen[s] \cup hand[s] \cup InChannel(s)

\* Shutting down ends every log stream before the time of Shutdown is over,
\* except one that stays in a write, of a line or of a heartbeat, because its
\* client does not read (and unless the broadcaster hangs).
StreamsEnd ==
  \A s \in Streams :
    (shutdownC /\ stream[s] # "none")
      ~> \/ stream[s] = "gone" \/ Hung \/ main = "ended"
         \/ [](main = "draining" /\ stream[s] = "write")
         \/ [](main = "draining" /\ stream[s] = "beat")

\* A call of the logger returns: "Send to all subscribers (non-blocking)".
LoggingReturns ==
  \A g \in Writers : logging[g] # "no" ~> (logging[g] = "no" \/ main = "ended")
=============================================================================
