------------------------------- MODULE Domains -------------------------------
(***************************************************************************)
(* Domains and certificates of the hub (hub/icsd_hub/domains.py): the      *)
(* reports of the agents (ssl.list) and the answers of the DNS, each in a  *)
(* cache, and the alert on a certificate that is close to expiry. Several  *)
(* callers, the hourly refresh_all and the requests for the overview, ask  *)
(* at the same time, and each goes on with what it saw before it waited.   *)
(*                                                                         *)
(* A report is abstracted to the days one certificate of the server has    *)
(* left and when the agent read it, an answer of the DNS to when it was    *)
(* given. The columns overview() computes from them (dns_state, the        *)
(* certificate of a name) are left out. What alerts.step does with the     *)
(* rule "cert" is here, the engine as a whole is module Alerts.            *)
(***************************************************************************)
EXTENDS Integers

CONSTANTS
    DomServers, DomNames, Callers, Nothing,
    CacheTTL,      \* CACHE_TTL
    CallTime,      \* the longest a request to an agent takes (30 s)
    LookupTime,    \* the longest a lookup takes (5 s)
    CertDays,      \* the days a certificate may have left
    CertRules,     \* what the rule "cert" may be set to
    MaxTime        \* bound

VARIABLES
    time,
    listed,        \* the servers in the table
    reachable,     \* those whose agent is connected and has the capability
    days,          \* what the certificate of each server has left
    certRule,      \* _rules["cert"]
    cache,         \* _cache, with how _alert_certs judged the report and by which for_s
    certState,     \* _state of the alerts on certificates: Nothing or [since, open]
    calls,         \* of each caller: Nothing or its request to an agent
    dns,           \* _dns: Nothing or [time, given]
    lookups,       \* of each caller: Nothing or its lookup
    shown          \* history: the age of what the last caller was given, or Nothing

\* Entries of the two caches, a report, and what a caller waits for.
Rule      == [enabled : BOOLEAN, threshold : Int, for_s : Nat]
CertEntry == [time : Nat, read : Nat, bad : BOOLEAN, for_s : Nat]
CertState == [since : Nat, open : BOOLEAN]
DnsEntry  == [time : Nat, read : Nat]
Report    == [days : Int, read : Nat]
CertCall  == [server : DomServers, since : Nat, report : {Nothing} \cup Report]
Lookup    == [name : DomNames, since : Nat, read : {Nothing} \cup Nat]

ASSUME DomainsAssumption ==
    /\ CacheTTL \in Nat \ {0} /\ CallTime \in Nat /\ LookupTime \in Nat /\ MaxTime \in Nat
    /\ CertDays \subseteq Int /\ CertRules \subseteq Rule
    /\ Nothing \notin Int \cup CertEntry \cup CertState \cup DnsEntry \cup Report \cup CertCall \cup Lookup

worldVars   == <<time, listed, reachable, days>>
certVars    == <<certRule, cache, certState, calls>>
lookupVars  == <<dns, lookups>>
domainsVars == <<worldVars, certVars, lookupVars, shown>>

DomainsInit ==
    /\ time = 0
    /\ listed = DomServers /\ reachable \in SUBSET DomServers
    /\ days \in [DomServers -> CertDays] /\ certRule \in CertRules
    /\ cache = [s \in DomServers |-> Nothing] /\ certState = [s \in DomServers |-> Nothing]
    /\ calls = [c \in Callers |-> Nothing]
    /\ dns = [n \in DomNames |-> Nothing]
    /\ lookups = [c \in Callers |-> Nothing]
    /\ shown = Nothing

IdleCaller(c) == calls[c] = Nothing /\ lookups[c] = Nothing

M_Fresh(entry) == entry # Nothing

\* A cache entry that is used without asking again.
Fresh(entry) == entry # Nothing /\ time - entry.time < CacheTTL

Return(entry) == shown' = IF entry = Nothing THEN Nothing ELSE time - entry.read

\* fetch, with a report in the cache that is fresh,
FetchHit(c, s, force) ==
    /\ IdleCaller(c) /\ s \in listed /\ ~force /\ Fresh(cache[s])
    /\ Return(cache[s])
    /\ UNCHANGED <<worldVars, certVars, lookupVars>>

\* with an agent that cannot be asked: whatever is in the cache is returned,
FetchOffline(c, s, force) ==
    /\ IdleCaller(c) /\ s \in listed /\ (force \/ ~Fresh(cache[s])) /\ s \notin reachable
    /\ shown' = Nothing
    /\ UNCHANGED <<worldVars, certVars, lookupVars>>

\* or asking the agent, with the cache entry in hand.
FetchAsks(c, s, force) ==
    /\ IdleCaller(c) /\ s \in listed /\ (force \/ ~Fresh(cache[s])) /\ s \in reachable
    /\ calls' = [calls EXCEPT ![c] = [server |-> s, since |-> time, report |-> Nothing]]
    /\ UNCHANGED <<worldVars, certRule, cache, certState, lookupVars, shown>>

\* The agent reads its certificates and answers (external).
AgentReports(c) ==
    /\ calls[c] # Nothing /\ calls[c].report = Nothing /\ calls[c].server \in reachable
    /\ calls' = [calls EXCEPT ![c].report = [days |-> days[calls[c].server], read |-> time]]
    /\ UNCHANGED <<worldVars, certRule, cache, certState, lookupVars, shown>>

\* The judgement of _alert_certs and step; a rule that is off finds nothing bad.
CertBad(left) == certRule.enabled /\ left <= certRule.threshold

\* step with a certificate that is bad: pending since the first time, and an
\* event once that is for_s ago.
Pending(st) ==
    LET since == IF st = Nothing THEN time ELSE st.since
    IN [since |-> since,
        open  |-> (st # Nothing /\ st.open) \/ time - since >= certRule.for_s]

\* Mutant: a certificate that was renewed leaves its alert.
M_AlertCerts(s, bad) ==
    certState' = [certState EXCEPT ![s] = IF bad THEN Pending(@) ELSE @]

\* _alert_certs: one that is fine, or not in the report any more (settle), ends it.
AlertCerts(s, bad) ==
    certState' = [certState EXCEPT ![s] = IF bad THEN Pending(@) ELSE Nothing]

\* fetch goes on with the answer: cache and alert, whatever is there by now.
FetchApplies(c) ==
    /\ calls[c] # Nothing /\ calls[c].report # Nothing
    /\ LET s == calls[c].server
           entry == [time |-> time, read |-> calls[c].report.read,
                     bad |-> CertBad(calls[c].report.days), for_s |-> certRule.for_s]
       IN /\ cache' = [cache EXCEPT ![s] = entry]
          /\ AlertCerts(s, entry.bad)
          /\ Return(entry)
    /\ calls' = [calls EXCEPT ![c] = Nothing]
    /\ UNCHANGED <<worldVars, certRule, lookupVars>>

\* RPCError: fetch returns the entry it had in hand, of any age.
FetchFails(c) ==
    /\ calls[c] # Nothing /\ calls[c].report = Nothing
    /\ calls' = [calls EXCEPT ![c] = Nothing]
    /\ shown' = Nothing
    /\ UNCHANGED <<worldVars, certRule, cache, certState, lookupVars>>

\* _dns_info and _mail_info: from the cache, or by a lookup. One that fails
\* is an empty answer, and cached like any other.
DnsHit(c, n) ==
    /\ IdleCaller(c) /\ Fresh(dns[n])
    /\ Return(dns[n])
    /\ UNCHANGED <<worldVars, certVars, lookupVars>>

DnsAsks(c, n) ==
    /\ IdleCaller(c) /\ ~Fresh(dns[n])
    /\ lookups' = [lookups EXCEPT ![c] = [name |-> n, since |-> time, read |-> Nothing]]
    /\ UNCHANGED <<worldVars, certVars, dns, shown>>

DnsAnswers(c) ==
    /\ lookups[c] # Nothing /\ lookups[c].read = Nothing
    /\ lookups' = [lookups EXCEPT ![c].read = time]
    /\ UNCHANGED <<worldVars, certVars, dns, shown>>

DnsApplies(c) ==
    /\ lookups[c] # Nothing /\ lookups[c].read # Nothing
    /\ LET entry == [time |-> time, read |-> lookups[c].read]
       IN dns' = [dns EXCEPT ![lookups[c].name] = entry] /\ Return(entry)
    /\ lookups' = [lookups EXCEPT ![c] = Nothing]
    /\ UNCHANGED <<worldVars, certVars>>

\* get_domains with refresh=true empties the cache of the DNS first.
DnsClear ==
    /\ dns' = [n \in DomNames |-> Nothing]
    /\ UNCHANGED <<worldVars, certVars, lookups, shown>>

\* delete_server: forget() and the alerts of the server.
ForgetServer(s) ==
    /\ listed' = listed \ {s} /\ reachable' = reachable \ {s}
    /\ cache' = [cache EXCEPT ![s] = Nothing]
    /\ certState' = [certState EXCEPT ![s] = Nothing]
    /\ UNCHANGED <<time, days, certRule, calls, lookupVars, shown>>

\* alerts.update_rule: nothing is judged again before the next report.
UpdateRule(rule) ==
    /\ certRule' = rule
    /\ UNCHANGED <<worldVars, cache, certState, calls, lookupVars, shown>>

\* The hub is restarted; the rule and the open alerts are in its tables.
DomainsRestart ==
    /\ cache' = [s \in DomServers |-> Nothing] /\ dns' = [n \in DomNames |-> Nothing]
    /\ calls' = [c \in Callers |-> Nothing] /\ lookups' = [c \in Callers |-> Nothing]
    /\ certState' = [s \in DomServers |->
          IF certState[s] # Nothing /\ certState[s].open THEN certState[s] ELSE Nothing]
    /\ UNCHANGED <<worldVars, certRule, shown>>

\* Outside: agents come and go, certificates age and are renewed, and time
\* goes on, though not past the time-out of a request.
AgentTurns(s) ==
    /\ s \in listed
    /\ reachable' = IF s \in reachable THEN reachable \ {s} ELSE reachable \cup {s}
    /\ UNCHANGED <<time, listed, days, certVars, lookupVars, shown>>

CertTurns(s) ==
    /\ days' \in [DomServers -> CertDays]
    /\ \A q \in DomServers \ {s} : days'[q] = days[q]
    /\ UNCHANGED <<time, listed, reachable, certVars, lookupVars, shown>>

DomainsTick ==
    /\ time < MaxTime
    /\ \A c \in Callers : /\ calls[c] # Nothing => time - calls[c].since < CallTime
                          /\ lookups[c] # Nothing => time - lookups[c].since < LookupTime
    /\ time' = time + 1
    /\ UNCHANGED <<listed, reachable, days, certVars, lookupVars, shown>>

DomainsNext ==
    \/ \E c \in Callers, s \in DomServers, force \in BOOLEAN :
          FetchHit(c, s, force) \/ FetchOffline(c, s, force) \/ FetchAsks(c, s, force)
    \/ \E c \in Callers, n \in DomNames : DnsHit(c, n) \/ DnsAsks(c, n)
    \/ \E c \in Callers : \/ AgentReports(c) \/ FetchApplies(c) \/ FetchFails(c)
                          \/ DnsAnswers(c) \/ DnsApplies(c)
    \/ \E s \in DomServers : ForgetServer(s) \/ AgentTurns(s) \/ CertTurns(s)
    \/ \E rule \in CertRules : UpdateRule(rule)
    \/ DnsClear \/ DomainsRestart \/ DomainsTick

DomainsSpec == DomainsInit /\ [][DomainsNext]_domainsVars

-----------------------------------------------------------------------------
Larger(a, b) == IF a >= b THEN a ELSE b

\* Nobody is given a report or an answer older than the cache keeps it plus
\* the time of one request, even when answers are applied out of order, over
\* a newer one, or after the cache was emptied (reports of agents that could
\* not be asked excepted). And a listed server has an alert on its certificate,
\* pending or open, exactly when the report in the cache was bad by the rule of
\* its time, and an open one as soon as that has lasted for_s: an alert that
\* outlived a restart, and whose certificate was renewed or whose rule was
\* switched off meanwhile, ends with the first report.
FreshAnswers ==
    /\ shown # Nothing => shown < CacheTTL + Larger(CallTime, LookupTime)
    /\ \A s \in listed : cache[s] # Nothing =>
          /\ certState[s] # Nothing <=> cache[s].bad
          /\ certState[s] # Nothing /\ cache[s].time - certState[s].since >= cache[s].for_s
             => certState[s].open
=============================================================================
