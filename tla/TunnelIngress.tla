---------------------------- MODULE TunnelIngress ----------------------------
(***************************************************************************)
(* The ingress rules of remotely managed tunnels.  Cloudflare stores one   *)
(* list of rules per tunnel and takes it as a whole: an edit reads the     *)
(* list, changes it and writes it back.  Two parts of the program do so,   *)
(* with the same code and without a lock: the tunnel manager               *)
(* (internal/tunnelmgr/manager.go), which finds the tunnel in the settings *)
(* and then points the DNS record of the host name to it, and the OAuth    *)
(* console (internal/cfaccount/service.go), which is told the tunnel and   *)
(* leaves DNS alone.  A page names the rule it edits by its position in    *)
(* the list it shows, which may be old when the request arrives.           *)
(*                                                                         *)
(* Abstractions: of a rule, its identity and its host name (NoHost with an *)
(* empty path); services are never empty; the order of a page is a         *)
(* permutation.  Every host name lies in some zone of the account.         *)
(***************************************************************************)
EXTENDS Naturals, Sequences, SequencesExt

CONSTANTS
  EditRequests,      \* requests that may be at work at once
  Tunnels,           \* tunnels of the account
  Hosts,             \* host names
  NoHost, NoTunnel,  \* the empty host name; no tunnel
  MaxRules,          \* bound: rules ever added
  MaxEdits,          \* bound: requests
  MaxTunnelChanges   \* bound: changes of the settings

ASSUME IngressAssumption ==
  /\ NoHost \notin Hosts /\ NoTunnel \notin Tunnels
  /\ MaxRules \in Nat \ {0} /\ MaxEdits \in Nat /\ MaxTunnelChanges \in Nat

VARIABLES
  remote,       \* remote[t]: the ingress list Cloudflare stores for tunnel t
  dns,          \* dns[h]: the tunnel the CNAME record of h points to
  configured,   \* TunnelID of the settings the manager works with
  edit,         \* edit[r]: the page and the edit of request r
  rules,        \* rules added so far
  edits, tunnelChanges

ingressVars == <<remote, dns, configured, edit, rules, edits, tunnelChanges>>

Rule(id, h) == [id |-> id, host |-> h]

\* The rule ensureCatchAll appends.
CatchAll == Rule(0, NoHost)

EditOps  == {"add", "update", "delete", "reorder"}
Page == [pc |-> "idle", manager |-> TRUE, tunnel |-> NoTunnel, shown |-> <<>>,
         op |-> "add", at |-> 0, order |-> <<>>, rule |-> CatchAll, read |-> <<>>]

\* A tunnel was never configured remotely or has a list from the dashboard.
IngressInit ==
  /\ remote \in [Tunnels -> {<<>>} \cup {<<Rule(1, h), CatchAll>> : h \in Hosts}]
  /\ dns = [h \in Hosts |-> NoTunnel]
  /\ configured \in Tunnels
  /\ edit = [r \in EditRequests |-> Page]
  /\ rules = 1 /\ edits = 0 /\ tunnelChanges = 0

-----------------------------------------------------------------------------
(***************************************************************************)
(* What an edit makes of the list it read.                                 *)
(***************************************************************************)
hasCatchAll(list) == list # <<>> /\ Last(list).host = NoHost

ensureCatchAll(list) == IF hasCatchAll(list) THEN list ELSE Append(list, CatchAll)

Added(list, rule) ==
  ensureCatchAll(IF hasCatchAll(list) THEN Front(list) \o <<rule, Last(list)>>
                                      ELSE Append(list, rule))

\* Mutant: an update does not look for a catch-all.
Mutant_Updated(list, i, h) == [list EXCEPT ![i].host = h]
Updated(list, i, h) == ensureCatchAll([list EXCEPT ![i].host = h])

\* Mutant: the position is taken to count from 1.
Mutant_Deleted(list, i) == ensureCatchAll(RemoveAt(list, IF i > 1 THEN i - 1 ELSE i))
Deleted(list, i) == ensureCatchAll(RemoveAt(list, i))

Reordered(list, order) ==
  IF order = <<>> THEN <<>>
  ELSE ensureCatchAll([i \in DOMAIN order |-> list[order[i]]])

\* The edit is refused when it does not fit the list.
Fits(e) ==
  CASE e.op = "add"     -> TRUE
    [] e.op = "reorder" ->
         /\ Len(e.order) = Len(e.read)
         /\ hasCatchAll(e.read) => Last(e.order) = Len(e.read)
    [] OTHER            -> e.at <= Len(e.read)

Result(e) ==
  CASE e.op = "add"     -> Added(e.read, e.rule)
    [] e.op = "update"  -> Updated(e.read, e.at, e.rule.host)
    [] e.op = "delete"  -> Deleted(e.read, e.at)
    [] e.op = "reorder" -> Reordered(e.read, e.order)

-----------------------------------------------------------------------------
Answered(r)   == edit' = [edit EXCEPT ![r] = Page]
SettingsSame  == UNCHANGED <<configured, tunnelChanges>>
EditOnly      == SettingsSame /\ UNCHANGED <<remote, dns, edits>>
Send(r, sent) == edit' = [edit EXCEPT ![r] = sent]

\* A page shows the list of a tunnel: the manager's of the one in the
\* settings, the console's of any.
FetchPage(r, t, manager) ==
  /\ edit[r].pc = "idle" /\ edits < MaxEdits
  /\ manager => t = configured
  /\ edits' = edits + 1
  /\ Send(r, [Page EXCEPT !.pc = "shown", !.manager = manager, !.tunnel = t, !.shown = remote[t]])
  /\ SettingsSame /\ UNCHANGED <<remote, dns, rules>>

\* The user edits what the page shows.
SendAdd(r, h) ==
  /\ edit[r].pc = "shown" /\ rules < MaxRules
  /\ rules' = rules + 1
  /\ Send(r, [edit[r] EXCEPT !.pc = "sent", !.op = "add", !.rule = Rule(rules', h)])
  /\ EditOnly

SendUpdate(r, i, h) ==
  /\ edit[r].pc = "shown" /\ i \in DOMAIN edit[r].shown
  /\ Send(r, [edit[r] EXCEPT !.pc = "sent", !.op = "update", !.at = i,
                             !.rule = Rule(edit[r].shown[i].id, h)])
  /\ EditOnly /\ UNCHANGED rules

SendDelete(r, i) ==
  /\ edit[r].pc = "shown" /\ i \in DOMAIN edit[r].shown
  /\ Send(r, [edit[r] EXCEPT !.pc = "sent", !.op = "delete", !.at = i, !.rule = edit[r].shown[i]])
  /\ EditOnly /\ UNCHANGED rules

SendReorder(r, order) ==
  /\ edit[r].pc = "shown"
  /\ Send(r, [edit[r] EXCEPT !.pc = "sent", !.op = "reorder", !.order = order])
  /\ EditOnly /\ UNCHANGED rules

\* The tunnel an edit is for: the manager looks it up again when the request
\* arrives and once more when it synchronises DNS.
TunnelOf(e) == IF e.manager THEN configured ELSE e.tunnel

\* GetTunnelConfiguration, and the edit of the copy.
ReadRemote(r) ==
  /\ edit[r].pc = "sent"
  /\ LET e == [edit[r] EXCEPT !.read = remote[TunnelOf(edit[r])]]
     IN Send(r, IF Fits(e) THEN [e EXCEPT !.pc = "read", !.tunnel = TunnelOf(e)] ELSE Page)
  /\ EditOnly /\ UNCHANGED rules

\* UpdateTunnelConfiguration.  The manager goes on to DNS for an added or
\* updated rule that has a host name; what the page gets is the new list.
WriteRemote(r) ==
  LET e == edit[r]
      syncsDNS == e.manager /\ e.op \in {"add", "update"} /\ e.rule.host # NoHost
  IN /\ e.pc = "read"
     /\ remote' = [remote EXCEPT ![e.tunnel] = Result(e)]
     /\ Send(r, IF syncsDNS THEN [e EXCEPT !.pc = "dns"] ELSE Page)
     /\ SettingsSame /\ UNCHANGED <<dns, rules, edits>>

\* syncDNSForHostnameWithCommentFor: the settings are read again.
BeginDNS(r) ==
  /\ edit[r].pc = "dns"
  /\ Send(r, [edit[r] EXCEPT !.pc = "record", !.tunnel = configured])
  /\ EditOnly /\ UNCHANGED rules

\* The record is created, or the first one of that name is updated.
WriteDNS(r) ==
  /\ edit[r].pc = "record"
  /\ dns' = [dns EXCEPT ![edit[r].rule.host] = edit[r].tunnel]
  /\ Answered(r)
  /\ SettingsSame /\ UNCHANGED <<remote, rules, edits>>

\* Any call of Cloudflare may fail.  A failure after the list is written is
\* a warning in the log: the edit is reported as done.
CallFails(r) ==
  /\ edit[r].pc \in {"sent", "read", "dns", "record"}
  /\ Answered(r)
  /\ EditOnly /\ UNCHANGED rules

\* SaveSettingsFor, a new token or a change of the active profile.
ChangeTunnel(t) ==
  /\ tunnelChanges < MaxTunnelChanges /\ t # configured
  /\ configured' = t /\ tunnelChanges' = tunnelChanges + 1
  /\ UNCHANGED <<remote, dns, edit, rules, edits>>

OrdersOf(n) == {f \in [1..n -> 1..n] : \A i, j \in 1..n : i # j => f[i] # f[j]}

IngressNext ==
  \/ \E r \in EditRequests :
       \/ \E t \in Tunnels, m \in BOOLEAN : FetchPage(r, t, m)
       \/ \E h \in Hosts \cup {NoHost} :
            SendAdd(r, h) \/ \E i \in DOMAIN edit[r].shown : SendUpdate(r, i, h)
       \/ \E i \in DOMAIN edit[r].shown : SendDelete(r, i)
       \/ \E order \in OrdersOf(Len(edit[r].shown)) : SendReorder(r, order)
       \/ ReadRemote(r) \/ WriteRemote(r) \/ BeginDNS(r) \/ WriteDNS(r) \/ CallFails(r)
  \/ \E t \in Tunnels : ChangeTunnel(t)

IngressSpec == IngressInit /\ [][IngressNext]_ingressVars

-----------------------------------------------------------------------------
Lists == Seq([id : 0..MaxRules, host : Hosts \cup {NoHost}])

\* The types of the variables.
IngressTypeOK ==
  /\ remote \in [Tunnels -> Lists]
  /\ dns \in [Hosts -> Tunnels \cup {NoTunnel}] /\ configured \in Tunnels
  /\ \A r \in EditRequests :
       /\ edit[r].pc \in {"idle", "shown", "sent", "read", "dns", "record"}
       /\ edit[r].op \in EditOps /\ edit[r].shown \in Lists /\ edit[r].read \in Lists

\* A list that Cloudflare has for a tunnel ends with a rule for every host
\* name, whatever edits overlapped and whatever positions they named: the
\* rule can be edited and deleted like any other, and ensureCatchAll then
\* puts another in its place.
CatchAllStaysLast == \A t \in Tunnels : remote[t] = <<>> \/ hasCatchAll(remote[t])

\* A list has n rules, or one more: a catch-all.
NoMore(list, n) == Len(list) = n \/ (Len(list) = n + 1 /\ list[n + 1] = CatchAll)

\* Unless the list changed after the page was shown, an edit does what the
\* user saw: a new rule comes last but for the catch-all, an update changes
\* the host name of the rule the page showed there and nothing else, a
\* deletion takes that rule and no other, a new order has the same rules; and
\* no rule appears that was not asked for, but for a catch-all.
Intended(e, list) ==
  CASE e.op = "add" ->
         /\ NoMore(list, Len(e.shown) + 1)
         /\ \E k \in DOMAIN list :
              /\ list[k] = e.rule /\ k >= Len(list) - 1
              /\ \A i \in DOMAIN e.shown : list[IF i < k THEN i ELSE i + 1] = e.shown[i]
    [] e.op = "update" ->
         /\ NoMore(list, Len(e.shown))
         /\ \A i \in DOMAIN e.shown : list[i] = IF i = e.at THEN e.rule ELSE e.shown[i]
    [] e.op = "delete" ->
         /\ NoMore(list, Len(e.shown) - 1)
         /\ \A i \in DOMAIN e.shown \ {e.at} :
              list[IF i < e.at THEN i ELSE i - 1] = e.shown[i]
    [] e.op = "reorder" ->
         /\ NoMore(list, Len(e.shown))
         /\ \A i \in DOMAIN e.shown : list[i] = e.shown[e.order[i]]

SoloEditIsExact ==
  [][\A r \in EditRequests :
       LET e == edit[r]
       IN (e.pc = "read" /\ edit'[r] # e /\ remote' # remote /\ e.read = e.shown
           /\ remote[e.tunnel] = e.shown)
          => Intended(e, remote'[e.tunnel])]_ingressVars

=============================================================================
