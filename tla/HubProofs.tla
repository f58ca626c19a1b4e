------------------------------ MODULE HubProofs ------------------------------
(***************************************************************************)
(* Theorems about the parts of the hub beside its core: the settings of    *)
(* the notifications, the answers on domains and certificates, the         *)
(* management of a server with its jobs, the URL checks, and the Iranian   *)
(* date. The five specifications share no state; each has a part of its    *)
(* own here.                                                               *)
(***************************************************************************)
EXTENDS NotifySettings, Domains, Manage, Checks, Jalali, FiniteSetTheorems, TLAPS

-----------------------------------------------------------------------------
(***************************************************************************)
(* Notifications (NotifySettings): TokenStaysHome for all tokens and       *)
(* addresses and any number of messages under way.                         *)
(***************************************************************************)
\* The addresses that can be stored.
Addresses == {DefaultApi} \cup Mirrors

\* The types the proof needs: a message carries a token, never NoToken.
SettingsTypes ==
    /\ token \in Tokens \cup {NoToken} /\ api \in Addresses
    /\ \A msg \in sending : msg.token \in Tokens
    /\ entered \in [Tokens -> SUBSET Addresses]

SettingsInv == SettingsTypes /\ TokenStaysHome

\* A save that leaves the token out keeps the address or sets the default one
\* (the two loops of save, taken together).
LEMMA StoredAddress ==
    ASSUME NEW field \in ApiFields, token # NoToken, ~NeedsToken(Compared(field), NoToken)
    PROVE  Stored(field) \in {api, DefaultApi}
BY DEF NeedsToken, Compared, Stored

\* What is stored is the stored address, the default one or a mirror.
LEMMA StoredType ==
    ASSUME SettingsTypes, NEW field \in ApiFields
    PROVE  Stored(field) \in Addresses
BY DEF SettingsTypes, Stored, ApiFields, Addresses

\* The invariant holds before anything is entered.
LEMMA SettingsInitially == NotifySettingsInit => SettingsInv
BY NoTokenAssumption DEF NotifySettingsInit, SettingsInv, SettingsTypes, TokenStaysHome, Addresses

\* save with a token: the address stored with it is one it was entered for,
\* and what older messages rest on stays.
LEMMA SaveWithToken ==
    ASSUME SettingsInv, NEW field \in ApiFields, NEW t \in Tokens, NEW newOn \in BOOLEAN,
           Save(field, t, newOn)
    PROVE  SettingsInv'
<1>1. t # NoToken /\ token' = t /\ entered' = [entered EXCEPT ![t] = @ \cup {api'}] /\ sending' = sending
  BY NoTokenAssumption DEF Save
<1>2. /\ api' \in Addresses /\ entered' \in [Tokens -> SUBSET Addresses]
      /\ entered'[t] = entered[t] \cup {api'}
      /\ \A u \in Tokens \ {t} : entered'[u] = entered[u]
  BY <1>1, StoredType DEF Save, SettingsInv, SettingsTypes
<1>3. SettingsTypes'
  BY <1>1, <1>2 DEF SettingsInv, SettingsTypes
<1>4. \A msg \in sending' : msg.host \in entered'[msg.token] \cup {DefaultApi}
  <2>1. SUFFICES ASSUME NEW msg \in sending
                 PROVE  msg.host \in entered'[msg.token] \cup {DefaultApi}
    BY <1>1
  <2>2. msg.token \in Tokens /\ msg.host \in entered[msg.token] \cup {DefaultApi}
    BY DEF SettingsInv, SettingsTypes, TokenStaysHome
  <2>3. entered[msg.token] \subseteq entered'[msg.token]
    BY <1>2, <2>2
  <2>4. QED
    BY <2>2, <2>3
<1>5. api' \in entered'[token'] \cup {DefaultApi}
  BY <1>1, <1>2
<1>6. QED
  BY <1>3, <1>4, <1>5 DEF SettingsInv, TokenStaysHome

\* save without one: the stored token keeps an address it may go to.
LEMMA SaveWithoutToken ==
    ASSUME SettingsInv, NEW field \in ApiFields, NEW newOn \in BOOLEAN,
           Save(field, NoToken, newOn)
    PROVE  SettingsInv'
<1>1. token' = token /\ entered' = entered /\ sending' = sending /\ api' = Stored(field)
  BY DEF Save
<1>2. token # NoToken => api' \in {api, DefaultApi}
  BY <1>1, StoredAddress DEF Save
<1>3. QED
  BY <1>1, <1>2, StoredType DEF SettingsInv, SettingsTypes, TokenStaysHome

\* Every step keeps the invariant.
LEMMA SettingsStep ==
    ASSUME SettingsInv, [NotifySettingsNext]_notifyHubVars
    PROVE  SettingsInv'
<1>1. CASE \E field \in ApiFields, newToken \in Tokens \cup {NoToken}, newOn \in BOOLEAN :
              Save(field, newToken, newOn)
  <2>1. PICK field \in ApiFields, newToken \in Tokens \cup {NoToken}, newOn \in BOOLEAN :
           Save(field, newToken, newOn)
    BY <1>1
  <2>2. CASE newToken = NoToken
    BY <2>1, <2>2, SaveWithoutToken
  <2>3. CASE newToken \in Tokens
    BY <2>1, <2>3, SaveWithToken
  <2>4. QED
    BY <2>2, <2>3
<1>2. CASE SendMessage
  <2>1. /\ token \in Tokens /\ sending' = sending \cup {[token |-> token, host |-> api]}
        /\ token' = token /\ api' = api /\ entered' = entered
    BY <1>2 DEF SendMessage, notifySettings, SettingsInv, SettingsTypes
  <2>2. api \in entered[token] \cup {DefaultApi}
    BY <2>1, NoTokenAssumption DEF SettingsInv, TokenStaysHome
  <2>3. ASSUME NEW msg \in sending'
        PROVE  msg.token \in Tokens /\ msg.host \in entered[msg.token] \cup {DefaultApi}
    <3>1. CASE msg \in sending
      BY <3>1 DEF SettingsInv, SettingsTypes, TokenStaysHome
    <3>2. CASE msg = [token |-> token, host |-> api]
      BY <2>1, <2>2, <3>2
    <3>3. QED
      BY <2>1, <3>1, <3>2
  <2>4. QED
    BY <2>1, <2>2, <2>3 DEF SettingsInv, SettingsTypes, TokenStaysHome
<1>3. CASE \E msg \in sending : MessageEnds(msg)
  BY <1>3 DEF MessageEnds, notifySettings, SettingsInv, SettingsTypes, TokenStaysHome
<1>4. CASE UNCHANGED notifyHubVars
  BY <1>4 DEF notifyHubVars, notifySettings, SettingsInv, SettingsTypes, TokenStaysHome
<1>5. QED
  BY <1>1, <1>2, <1>3, <1>4 DEF NotifySettingsNext

\* The bot token goes only to addresses it was entered for and to the default
\* one (save and send of notify.py), for every sequence of saves and messages.
THEOREM TokenNeverRedirected == NotifySettingsSpec => []TokenStaysHome
<1>1. SettingsInv => TokenStaysHome
  BY DEF SettingsInv
<1>2. QED
  BY <1>1, SettingsInitially, SettingsStep, PTL DEF NotifySettingsSpec

-----------------------------------------------------------------------------
(***************************************************************************)
(* Domains: FreshAnswers for all caches, callers and time-outs. A hit is   *)
(* as old as the entry plus what the entry was old when it was stored,     *)
(* which is bounded only because a request that takes too long is given    *)
(* up: so the ages of the requests under way belong to the invariant, and  *)
(* the alert agrees with the cache because fetch writes both in one step   *)
(* and a restart, which drops pending alerts, drops the cache as well.     *)
(***************************************************************************)
CallsRight ==
    /\ calls \in [Callers -> {Nothing} \cup CertCall]
    /\ \A c \in Callers : calls[c] # Nothing =>
          /\ calls[c].since <= time /\ time - calls[c].since <= CallTime
          /\ calls[c].report # Nothing => calls[c].since <= calls[c].report.read /\ calls[c].report.read <= time

LookupsRight ==
    /\ lookups \in [Callers -> {Nothing} \cup Lookup]
    /\ \A c \in Callers : lookups[c] # Nothing =>
          /\ lookups[c].since <= time /\ time - lookups[c].since <= LookupTime
          /\ lookups[c].read # Nothing => lookups[c].since <= lookups[c].read /\ lookups[c].read <= time

\* An entry was stored at most delay after what it holds was read.
Aged(entry, delay) == entry.read <= entry.time /\ entry.time <= time /\ entry.time - entry.read <= delay

CacheRight ==
    /\ cache \in [DomServers -> {Nothing} \cup CertEntry]
    /\ \A s \in DomServers : cache[s] # Nothing => Aged(cache[s], CallTime)

DnsRight ==
    /\ dns \in [DomNames -> {Nothing} \cup DnsEntry]
    /\ \A n \in DomNames : dns[n] # Nothing => Aged(dns[n], LookupTime)

ShownRight == shown # Nothing => shown < CacheTTL + Larger(CallTime, LookupTime)

\* What FreshAnswers says of a server's alert.
AlertOf(s) ==
    /\ certState[s] # Nothing <=> cache[s].bad
    /\ certState[s] # Nothing /\ cache[s].time - certState[s].since >= cache[s].for_s
       => certState[s].open

AlertRight ==
    /\ listed \subseteq DomServers
    /\ days \in [DomServers -> CertDays] /\ certRule \in CertRules
    /\ certState \in [DomServers -> {Nothing} \cup CertState]
    /\ \A s \in listed : cache[s] # Nothing => AlertOf(s)

DomainsInv ==
    /\ time \in Nat
    /\ CallsRight /\ LookupsRight /\ CacheRight /\ DnsRight /\ ShownRight /\ AlertRight

\* What a caller is given from a cache, or has just read.
LEMMA ReturnHit ==
  ASSUME time \in Nat, NEW entry, entry.time \in Nat, entry.read \in Nat, NEW delay \in {CallTime, LookupTime},
         Aged(entry, delay), time - entry.time < CacheTTL, Return(entry)
  PROVE  ShownRight'
<1>1. shown' = Nothing \/ shown' = time - entry.read
  BY DEF Return
<1>2. time - entry.read < CacheTTL + Larger(CallTime, LookupTime)
  BY DomainsAssumption DEF Aged, Larger
<1> QED BY <1>1, <1>2 DEF ShownRight, Larger

LEMMA CallsKept ==
  ASSUME time \in Nat, CallsRight, time' = time,
         \A c \in Callers : calls'[c] \in {Nothing, calls[c]},
         calls' \in [Callers -> {Nothing} \cup CertCall]
  PROVE  CallsRight'
  BY DEF CallsRight

LEMMA LookupsKept ==
  ASSUME time \in Nat, LookupsRight, time' = time,
         \A c \in Callers : lookups'[c] \in {Nothing, lookups[c]},
         lookups' \in [Callers -> {Nothing} \cup Lookup]
  PROVE  LookupsRight'
  BY DEF LookupsRight

LEMMA FetchAsksStep ==
  ASSUME DomainsInv, NEW c \in Callers, NEW s \in DomServers, NEW force \in BOOLEAN, FetchAsks(c, s, force)
  PROVE  DomainsInv'
<1> USE DEF DomainsInv
<1> DEFINE w == [server |-> s, since |-> time, report |-> Nothing]
<1>1. /\ calls' = [calls EXCEPT ![c] = w]
      /\ UNCHANGED <<time, listed, days, certRule, cache, certState, dns, lookups, shown>>
  BY DEF FetchAsks, lookupVars, worldVars
<1>2. w \in CertCall /\ w.since = time /\ w.report = Nothing
  BY DEF CertCall
<1> HIDE DEF w
<1>3. calls' \in [Callers -> {Nothing} \cup CertCall] /\ calls'[c] = w /\ \A o \in Callers \ {c} : calls'[o] = calls[o]
  BY <1>1, <1>2 DEF CallsRight
<1>4. CallsRight'
  <2> SUFFICES ASSUME NEW o \in Callers, calls'[o] # Nothing
               PROVE  /\ calls'[o].since <= time /\ time - calls'[o].since <= CallTime
                      /\ calls'[o].report # Nothing =>
                            calls'[o].since <= calls'[o].report.read /\ calls'[o].report.read <= time
    BY <1>1, <1>3 DEF CallsRight
  <2>1. CASE o = c
    BY <1>2, <1>3, <2>1, DomainsAssumption
  <2>2. CASE o # c
    BY <1>3, <2>2 DEF CallsRight
  <2> QED BY <2>1, <2>2
<1>5. LookupsRight' /\ CacheRight' /\ DnsRight'
  BY <1>1 DEF LookupsRight, CacheRight, DnsRight, Aged
<1>6. ShownRight' /\ AlertRight'
  BY <1>1, Zenon DEF ShownRight, AlertRight, AlertOf
<1> QED BY <1>1, <1>4, <1>5, <1>6

LEMMA AgentReportsStep ==
  ASSUME DomainsInv, NEW c \in Callers, AgentReports(c)
  PROVE  DomainsInv'
<1> USE DEF DomainsInv
<1> DEFINE rep == [days |-> days[calls[c].server], read |-> time]
           w   == [calls[c] EXCEPT !.report = rep]
<1>1. /\ calls[c] # Nothing /\ calls' = [calls EXCEPT ![c] = w]
      /\ UNCHANGED <<time, listed, days, certRule, cache, certState, dns, lookups, shown>>
  BY DEF AgentReports, lookupVars, worldVars
<1>2. rep \in Report /\ rep.read = time
  <2>1. calls[c].server \in DomServers /\ time \in Nat
    BY <1>1 DEF CallsRight, CertCall
  <2>2. rep \in Report
    BY <2>1, DomainsAssumption DEF Report, AlertRight
  <2> QED BY <2>2
<1> HIDE DEF rep
<1>3. w \in CertCall /\ w.since = calls[c].since /\ w.report = rep
  <2>1. calls[c] \in CertCall
    BY <1>1 DEF CallsRight
  <2> QED BY <1>2, <2>1 DEF CertCall
<1> HIDE DEF w
<1>4. calls' \in [Callers -> {Nothing} \cup CertCall] /\ calls'[c] = w /\ \A o \in Callers \ {c} : calls'[o] = calls[o]
  BY <1>1, <1>3 DEF CallsRight
<1>5. CallsRight'
  <2> SUFFICES ASSUME NEW o \in Callers, calls'[o] # Nothing
               PROVE  /\ calls'[o].since <= time /\ time - calls'[o].since <= CallTime
                      /\ calls'[o].report # Nothing =>
                            calls'[o].since <= calls'[o].report.read /\ calls'[o].report.read <= time
    BY <1>1, <1>4 DEF CallsRight
  <2>1. CASE o = c
    BY <1>1, <1>2, <1>3, <1>4, <2>1 DEF CallsRight
  <2>2. CASE o # c
    BY <1>4, <2>2 DEF CallsRight
  <2> QED BY <2>1, <2>2
<1>6. LookupsRight' /\ CacheRight' /\ DnsRight'
  BY <1>1 DEF LookupsRight, CacheRight, DnsRight, Aged
<1>7. ShownRight' /\ AlertRight'
  BY <1>1, Zenon DEF ShownRight, AlertRight, AlertOf
<1> QED BY <1>1, <1>5, <1>6, <1>7

LEMMA FetchAppliesStep ==
  ASSUME DomainsInv, NEW c \in Callers, FetchApplies(c)
  PROVE  DomainsInv'
<1> USE DEF DomainsInv
<1>1. /\ calls[c] # Nothing /\ calls[c].report # Nothing /\ calls[c] \in CertCall
      /\ calls[c].server \in DomServers /\ calls[c].since \in Nat /\ calls[c].report \in Report
  <2>1. calls[c] # Nothing /\ calls[c].report # Nothing /\ calls[c] \in CertCall
    BY DEF FetchApplies, CallsRight
  <2> QED BY <2>1 DEF CertCall
<1>2. PICK s \in DomServers : s = calls[c].server
  BY <1>1
<1> DEFINE rep   == calls[c].report
           bad   == CertBad(rep.days)
           entry == [time |-> time, read |-> rep.read, bad |-> bad, for_s |-> certRule.for_s]
<1>3. /\ cache' = [cache EXCEPT ![s] = entry]
      /\ AlertCerts(s, entry.bad)
      /\ Return(entry)
      /\ calls' = [calls EXCEPT ![c] = Nothing]
      /\ UNCHANGED <<time, listed, days, certRule, dns, lookups>>
  BY <1>2, Zenon DEF FetchApplies, lookupVars, worldVars
<1>4. rep.read \in Nat /\ calls[c].since <= rep.read /\ rep.read <= time /\ time - calls[c].since <= CallTime
  BY <1>1 DEF CallsRight, Report
<1>5. bad \in BOOLEAN /\ certRule.for_s \in Nat
  BY DomainsAssumption DEF AlertRight, CertBad, Rule
<1> HIDE DEF bad
<1>6. entry \in CertEntry
  BY <1>4, <1>5, Zenon DEF CertEntry
<1>7. entry.time = time /\ entry.read = rep.read /\ entry.bad = bad /\ entry.for_s = certRule.for_s
  BY Zenon
<1>8. Aged(entry, CallTime)
  BY <1>1, <1>4, <1>7, DomainsAssumption DEF Aged
<1> HIDE DEF entry
<1>9. ShownRight'
  <2>1. time - entry.time < CacheTTL /\ entry.time \in Nat /\ entry.read \in Nat
    BY <1>4, <1>7, DomainsAssumption
  <2> QED BY <1>3, <1>8, <2>1, ReturnHit
<1>10. CallsRight'
  <2>1. calls' \in [Callers -> {Nothing} \cup CertCall] /\ \A o \in Callers : calls'[o] \in {Nothing, calls[o]}
    BY <1>3 DEF CallsRight
  <2> QED BY <1>3, <2>1, CallsKept
<1>11. cache' \in [DomServers -> {Nothing} \cup CertEntry] /\ cache'[s] = entry /\ \A q \in DomServers \ {s} : cache'[q] = cache[q]
  BY <1>3, <1>6, Zenon DEF CacheRight
<1>12. CacheRight'
  <2> SUFFICES ASSUME NEW q \in DomServers, cache'[q] # Nothing PROVE Aged(cache[q], CallTime)'
    BY <1>11 DEF CacheRight
  <2>1. CASE q = s
    <3>1. entry.read <= entry.time /\ entry.time <= time /\ entry.time - entry.read <= CallTime
      BY <1>8 DEF Aged
    <3> QED BY <1>3, <1>11, <2>1, <3>1 DEF Aged
  <2>2. CASE q # s
    BY <1>3, <1>11, <2>2 DEF Aged, CacheRight
  <2> QED BY <2>1, <2>2
<1>13. LookupsRight' /\ DnsRight'
  BY <1>3 DEF LookupsRight, DnsRight, Aged
<1>14. AlertRight'
  <2> DEFINE pend == certState[s]
             w  == Pending(pend)
  <2>1. w \in CertState /\ w # Nothing /\ (time - w.since >= certRule.for_s => w.open)
    <3>1. pend # Nothing => pend \in CertState
      BY DEF AlertRight
    <3>2. (IF pend = Nothing THEN time ELSE pend.since) \in Nat
      BY <3>1 DEF CertState
    <3>3. w \in CertState /\ (time - w.since >= certRule.for_s => w.open)
      BY <3>2 DEF Pending, CertState
    <3> QED BY <3>3, DomainsAssumption, Zenon
  <2> HIDE DEF w
  <2>2. certState' = [certState EXCEPT ![s] = IF bad THEN w ELSE Nothing]
    BY <1>3, <1>7 DEF AlertCerts, w
  <2>3. /\ certState' \in [DomServers -> {Nothing} \cup CertState]
        /\ certState'[s] = (IF bad THEN w ELSE Nothing)
        /\ \A q \in DomServers \ {s} : certState'[q] = certState[q]
    BY <2>1, <2>2 DEF AlertRight
  <2>4. AlertOf(s)'
    <3>1. certState'[s] # Nothing <=> entry.bad
      BY <1>5, <1>7, <2>1, <2>3, Zenon
    <3>2. certState'[s] # Nothing /\ entry.time - certState'[s].since >= entry.for_s => certState'[s].open
      BY <1>7, <2>1, <2>3
    <3> QED BY <1>11, <3>1, <3>2 DEF AlertOf
  <2>5. ASSUME NEW q \in listed', q # s, cache'[q] # Nothing PROVE AlertOf(q)'
    <3>1. q \in DomServers /\ cache'[q] = cache[q] /\ certState'[q] = certState[q] /\ q \in listed
      BY <1>3, <1>11, <2>3, <2>5 DEF AlertRight
    <3> QED BY <2>5, <3>1, Zenon DEF AlertRight, AlertOf
  <2> QED BY <1>3, <2>3, <2>4, <2>5, Zenon DEF AlertRight
<1> QED BY <1>3, <1>9, <1>10, <1>12, <1>13, <1>14

LEMMA DnsAsksStep ==
  ASSUME DomainsInv, NEW c \in Callers,
         (\E n \in DomNames : DnsAsks(c, n)) \/ DnsAnswers(c)
  PROVE  DomainsInv'
<1> USE DEF DomainsInv
<1>1. UNCHANGED <<time, listed, days, certRule, cache, certState, calls, dns, shown>>
  BY DEF DnsAsks, DnsAnswers, certVars, worldVars
<1>2. PICK w \in Lookup : /\ lookups' = [lookups EXCEPT ![c] = w]
                          /\ w.since <= time /\ time - w.since <= LookupTime
                          /\ w.read # Nothing => w.since <= w.read /\ w.read <= time
  <2>1. ASSUME NEW n \in DomNames, DnsAsks(c, n)
        PROVE  \E w \in Lookup : /\ lookups' = [lookups EXCEPT ![c] = w]
                                 /\ w.since <= time /\ time - w.since <= LookupTime
                                 /\ w.read # Nothing => w.since <= w.read /\ w.read <= time
    <3> DEFINE w == [name |-> n, since |-> time, read |-> Nothing]
    <3>1. w \in Lookup /\ lookups' = [lookups EXCEPT ![c] = w] /\ w.since = time /\ w.read = Nothing
      BY <2>1 DEF DnsAsks, Lookup
    <3>2. time <= time /\ time - time <= LookupTime
      BY DomainsAssumption
    <3> HIDE DEF w
    <3> QED BY <3>1, <3>2
  <2>2. ASSUME DnsAnswers(c)
        PROVE  \E w \in Lookup : /\ lookups' = [lookups EXCEPT ![c] = w]
                                 /\ w.since <= time /\ time - w.since <= LookupTime
                                 /\ w.read # Nothing => w.since <= w.read /\ w.read <= time
    <3> DEFINE w == [lookups[c] EXCEPT !.read = time]
    <3>1. lookups[c] # Nothing /\ lookups[c] \in Lookup
      BY <2>2 DEF DnsAnswers, LookupsRight
    <3>2. w \in Lookup /\ lookups' = [lookups EXCEPT ![c] = w] /\ w.since = lookups[c].since /\ w.read = time
      BY <2>2, <3>1 DEF DnsAnswers, Lookup
    <3>3. lookups[c].since <= time /\ time - lookups[c].since <= LookupTime /\ time <= time
      BY <3>1 DEF LookupsRight
    <3> HIDE DEF w
    <3> QED BY <3>2, <3>3
  <2> QED BY <2>1, <2>2
<1>3. lookups' \in [Callers -> {Nothing} \cup Lookup] /\ lookups'[c] = w /\ \A o \in Callers \ {c} : lookups'[o] = lookups[o]
  BY <1>2 DEF LookupsRight
<1>4. LookupsRight'
  BY <1>1, <1>2, <1>3 DEF LookupsRight
<1>5. CallsRight' /\ CacheRight' /\ DnsRight'
  BY <1>1 DEF CallsRight, CacheRight, DnsRight, Aged
<1>6. ShownRight' /\ AlertRight'
  BY <1>1, Zenon DEF ShownRight, AlertRight, AlertOf
<1> QED BY <1>1, <1>4, <1>5, <1>6

LEMMA DnsAppliesStep ==
  ASSUME DomainsInv, NEW c \in Callers, DnsApplies(c)
  PROVE  DomainsInv'
<1> USE DEF DomainsInv
<1>1. /\ lookups[c] # Nothing /\ lookups[c].read # Nothing
      /\ lookups[c].name \in DomNames /\ lookups[c].since \in Nat /\ lookups[c].read \in Nat
      /\ lookups[c].since <= lookups[c].read /\ lookups[c].read <= time /\ time - lookups[c].since <= LookupTime
  BY DEF DnsApplies, LookupsRight, Lookup
<1>2. PICK n \in DomNames : n = lookups[c].name
  BY <1>1
<1> DEFINE entry == [time |-> time, read |-> lookups[c].read]
<1>3. /\ dns' = [dns EXCEPT ![n] = entry] /\ Return(entry)
      /\ lookups' = [lookups EXCEPT ![c] = Nothing]
      /\ UNCHANGED <<time, listed, days, certRule, cache, certState, calls>>
  BY <1>2, Zenon DEF DnsApplies, certVars, worldVars
<1>4. entry \in DnsEntry /\ entry.time = time /\ entry.read = lookups[c].read
  BY <1>1 DEF DnsEntry
<1> HIDE DEF entry
<1>5. Aged(entry, LookupTime) /\ time - entry.time < CacheTTL /\ entry.time \in Nat /\ entry.read \in Nat
  BY <1>1, <1>4, DomainsAssumption DEF Aged
<1>6. ShownRight'
  BY <1>3, <1>5, ReturnHit
<1>7. LookupsRight'
  <2>1. lookups' \in [Callers -> {Nothing} \cup Lookup] /\ \A o \in Callers : lookups'[o] \in {Nothing, lookups[o]}
    BY <1>3 DEF LookupsRight
  <2> QED BY <1>3, <2>1, LookupsKept
<1>8. dns' \in [DomNames -> {Nothing} \cup DnsEntry] /\ dns'[n] = entry /\ \A q \in DomNames \ {n} : dns'[q] = dns[q]
  BY <1>3, <1>4 DEF DnsRight
<1>9. DnsRight'
  <2> SUFFICES ASSUME NEW q \in DomNames, dns'[q] # Nothing PROVE Aged(dns[q], LookupTime)'
    BY <1>8 DEF DnsRight
  <2>1. CASE q = n
    BY <1>3, <1>5, <1>8, <2>1 DEF Aged
  <2>2. CASE q # n
    BY <1>3, <1>8, <2>2 DEF Aged, DnsRight
  <2> QED BY <2>1, <2>2
<1>10. CallsRight' /\ CacheRight'
  BY <1>3 DEF CallsRight, CacheRight, Aged
<1>11. AlertRight'
  BY <1>3, Zenon DEF AlertRight, AlertOf
<1> QED BY <1>3, <1>6, <1>7, <1>9, <1>10, <1>11

\* A caller is given what is in a cache, and nothing is stored.
LEMMA HitStep ==
  ASSUME DomainsInv,
         \/ \E c \in Callers, s \in DomServers, force \in BOOLEAN : FetchHit(c, s, force)
         \/ \E c \in Callers, n \in DomNames : DnsHit(c, n)
  PROVE  DomainsInv'
<1> USE DEF DomainsInv
<1>1. UNCHANGED <<time, listed, days, certRule, cache, certState, calls, dns, lookups>>
  BY DEF FetchHit, DnsHit, certVars, lookupVars, worldVars
<1>2. ASSUME NEW c \in Callers, NEW s \in DomServers, NEW force \in BOOLEAN, FetchHit(c, s, force)
      PROVE  ShownRight'
  <2>1. cache[s] # Nothing /\ Return(cache[s]) /\ time - cache[s].time < CacheTTL
    BY <1>2 DEF FetchHit, Fresh
  <2>2. cache[s] \in CertEntry /\ Aged(cache[s], CallTime)
    BY <2>1 DEF CacheRight
  <2>3. cache[s].time \in Nat /\ cache[s].read \in Nat
    BY <2>2 DEF CertEntry
  <2> QED BY <2>1, <2>2, <2>3, ReturnHit
<1>3. ASSUME NEW c \in Callers, NEW n \in DomNames, DnsHit(c, n)
      PROVE  ShownRight'
  <2>1. dns[n] # Nothing /\ Return(dns[n]) /\ time - dns[n].time < CacheTTL
    BY <1>3 DEF DnsHit, Fresh
  <2>2. dns[n] \in DnsEntry /\ Aged(dns[n], LookupTime)
    BY <2>1 DEF DnsRight
  <2>3. dns[n].time \in Nat /\ dns[n].read \in Nat
    BY <2>2 DEF DnsEntry
  <2> QED BY <2>1, <2>2, <2>3, ReturnHit
<1>4. CallsRight' /\ LookupsRight' /\ CacheRight' /\ DnsRight'
  BY <1>1 DEF CallsRight, LookupsRight, CacheRight, DnsRight, Aged
<1>5. AlertRight'
  BY <1>1, Zenon DEF AlertRight, AlertOf
<1> QED BY <1>1, <1>2, <1>3, <1>4, <1>5

\* Entries and requests are dropped, servers come and go, and nothing is read.
LEMMA DroppingStep ==
  ASSUME DomainsInv, time' = time, shown' \in {shown, Nothing}, listed' \subseteq listed,
         calls' \in [Callers -> {Nothing} \cup CertCall], \A c \in Callers : calls'[c] \in {Nothing, calls[c]},
         lookups' \in [Callers -> {Nothing} \cup Lookup], \A c \in Callers : lookups'[c] \in {Nothing, lookups[c]},
         cache' \in [DomServers -> {Nothing} \cup CertEntry], \A s \in DomServers : cache'[s] \in {Nothing, cache[s]},
         dns' \in [DomNames -> {Nothing} \cup DnsEntry], \A n \in DomNames : dns'[n] \in {Nothing, dns[n]},
         days' \in [DomServers -> CertDays], certRule' \in CertRules,
         certState' \in [DomServers -> {Nothing} \cup CertState],
         \A s \in listed' : cache'[s] = Nothing \/ certState'[s] = certState[s]
  PROVE  DomainsInv'
<1> USE DEF DomainsInv
<1>1. CallsRight' /\ LookupsRight'
  BY CallsKept, LookupsKept
<1>2. CacheRight'
  BY DEF CacheRight, Aged
<1>3. DnsRight'
  BY DEF DnsRight, Aged
<1>4. ShownRight'
  BY Zenon DEF ShownRight
<1>5. AlertRight'
  <2>1. listed' \subseteq DomServers
    BY DEF AlertRight
  <2>2. ASSUME NEW s \in listed', cache'[s] # Nothing PROVE AlertOf(s)'
    <3>1. s \in listed /\ s \in DomServers
      BY <2>1
    <3>2. cache'[s] = cache[s] /\ certState'[s] = certState[s]
      BY <2>2, <3>1
    <3>3. AlertOf(s)
      BY <2>2, <3>1, <3>2, Zenon DEF AlertRight
    <3> QED BY <3>2, <3>3, Zenon DEF AlertOf
  <2> QED BY <2>1, <2>2, Zenon DEF AlertRight
<1> QED BY <1>1, <1>2, <1>3, <1>4, <1>5

LEMMA DomainsTickStep ==
  ASSUME DomainsInv, DomainsTick
  PROVE  DomainsInv'
<1> USE DEF DomainsInv
<1>1. /\ time' = time + 1 /\ time' \in Nat
      /\ UNCHANGED <<listed, days, certRule, cache, certState, calls, dns, lookups, shown>>
      /\ \A c \in Callers : /\ calls[c] # Nothing => time - calls[c].since < CallTime
                            /\ lookups[c] # Nothing => time - lookups[c].since < LookupTime
  BY DEF DomainsTick, certVars, lookupVars
<1>2. CallsRight'
  <2> SUFFICES ASSUME NEW c \in Callers, calls[c] # Nothing
               PROVE  /\ calls[c].since <= time' /\ time' - calls[c].since <= CallTime
                      /\ calls[c].report # Nothing =>
                            calls[c].since <= calls[c].report.read /\ calls[c].report.read <= time'
    BY <1>1, Zenon DEF CallsRight
  <2>1. /\ calls[c].since \in Nat /\ (calls[c].report # Nothing => calls[c].report \in Report)
    BY DEF CallsRight, CertCall
  <2>2. calls[c].report # Nothing => calls[c].report.read \in Nat
    BY <2>1 DEF Report
  <2>3. calls[c].since <= time + 1 /\ time + 1 - calls[c].since <= CallTime
    BY <1>1, <2>1, DomainsAssumption DEF CallsRight
  <2> QED BY <1>1, <2>1, <2>2, <2>3 DEF CallsRight
<1>3. LookupsRight'
  <2> SUFFICES ASSUME NEW c \in Callers, lookups[c] # Nothing
               PROVE  /\ lookups[c].since <= time' /\ time' - lookups[c].since <= LookupTime
                      /\ lookups[c].read # Nothing =>
                            lookups[c].since <= lookups[c].read /\ lookups[c].read <= time'
    BY <1>1, Zenon DEF LookupsRight
  <2>1. lookups[c].since \in Nat /\ (lookups[c].read # Nothing => lookups[c].read \in Nat)
    BY DEF LookupsRight, Lookup
  <2>2. lookups[c].since <= time + 1 /\ time + 1 - lookups[c].since <= LookupTime
    BY <1>1, <2>1, DomainsAssumption DEF LookupsRight
  <2> QED BY <1>1, <2>1, <2>2 DEF LookupsRight
<1>4. CacheRight'
  <2> SUFFICES ASSUME NEW s \in DomServers, cache[s] # Nothing PROVE cache[s].time <= time + 1
    BY <1>1 DEF CacheRight, Aged
  <2> QED BY DEF CacheRight, CertEntry, Aged
<1>5. DnsRight'
  <2> SUFFICES ASSUME NEW n \in DomNames, dns[n] # Nothing PROVE dns[n].time <= time + 1
    BY <1>1 DEF DnsRight, Aged
  <2> QED BY DEF DnsRight, DnsEntry, Aged
<1>6. ShownRight' /\ AlertRight'
  BY <1>1, Zenon DEF ShownRight, AlertRight, AlertOf
<1> QED BY <1>1, <1>2, <1>3, <1>4, <1>5, <1>6

LEMMA DomainsInitial == DomainsInit => DomainsInv
<1> SUFFICES ASSUME DomainsInit PROVE DomainsInv
  OBVIOUS
<1>1. time \in Nat /\ CallsRight /\ LookupsRight
  BY DEF DomainsInit, CallsRight, LookupsRight
<1>2. CacheRight /\ DnsRight
  BY DEF DomainsInit, CacheRight, DnsRight
<1>3. ShownRight
  BY Zenon DEF DomainsInit, ShownRight
<1>4. AlertRight
  BY DEF DomainsInit, AlertRight, AlertOf
<1> QED BY <1>1, <1>2, <1>3, <1>4 DEF DomainsInv

LEMMA DomainsInductive == DomainsInv /\ [DomainsNext]_domainsVars => DomainsInv'
<1> SUFFICES ASSUME DomainsInv, [DomainsNext]_domainsVars PROVE DomainsInv'
  OBVIOUS
<1>1. /\ calls \in [Callers -> {Nothing} \cup CertCall] /\ lookups \in [Callers -> {Nothing} \cup Lookup]
      /\ cache \in [DomServers -> {Nothing} \cup CertEntry] /\ dns \in [DomNames -> {Nothing} \cup DnsEntry]
      /\ days \in [DomServers -> CertDays] /\ certRule \in CertRules
      /\ certState \in [DomServers -> {Nothing} \cup CertState]
  BY DEF DomainsInv, CallsRight, LookupsRight, CacheRight, DnsRight, AlertRight
<1>2. ASSUME NEW c \in Callers, NEW s \in DomServers, NEW force \in BOOLEAN,
             FetchHit(c, s, force) \/ FetchOffline(c, s, force) \/ FetchAsks(c, s, force)
      PROVE  DomainsInv'
  <2>1. CASE FetchHit(c, s, force)
    BY <2>1, HitStep
  <2>2. CASE FetchOffline(c, s, force)
    BY <1>1, <2>2, DroppingStep DEF FetchOffline, certVars, lookupVars, worldVars
  <2> QED BY <1>2, <2>1, <2>2, FetchAsksStep
<1>3. ASSUME NEW c \in Callers, NEW n \in DomNames, DnsHit(c, n) \/ DnsAsks(c, n)
      PROVE  DomainsInv'
  BY <1>3, HitStep, DnsAsksStep
<1>4. ASSUME NEW c \in Callers,
             AgentReports(c) \/ FetchApplies(c) \/ FetchFails(c) \/ DnsAnswers(c) \/ DnsApplies(c)
      PROVE  DomainsInv'
  <2>1. CASE FetchFails(c)
    <3>1. calls' \in [Callers -> {Nothing} \cup CertCall] /\ \A o \in Callers : calls'[o] \in {Nothing, calls[o]}
      BY <1>1, <2>1 DEF FetchFails
    <3>2. UNCHANGED <<time, listed, days, certRule, cache, certState, dns, lookups>> /\ shown' = Nothing
      BY <2>1 DEF FetchFails, lookupVars, worldVars
    <3> QED BY <1>1, <3>1, <3>2, DroppingStep
  <2> QED BY <1>4, <2>1, AgentReportsStep, FetchAppliesStep, DnsAsksStep, DnsAppliesStep
<1>5. ASSUME NEW s \in DomServers, ForgetServer(s) \/ AgentTurns(s) \/ CertTurns(s)
      PROVE  DomainsInv'
  <2>1. CASE ForgetServer(s)
    <3>1. cache' \in [DomServers -> {Nothing} \cup CertEntry] /\ \A q \in DomServers : cache'[q] \in {Nothing, cache[q]}
      BY <1>1, <2>1 DEF ForgetServer
    <3>2. UNCHANGED <<time, days, certRule, calls, dns, lookups, shown>>
      BY <2>1 DEF ForgetServer, lookupVars
    <3>3. /\ certState' \in [DomServers -> {Nothing} \cup CertState] /\ listed' \subseteq listed
          /\ \A q \in listed' : cache'[q] = Nothing \/ certState'[q] = certState[q]
      BY <1>1, <2>1 DEF ForgetServer, DomainsInv, AlertRight
    <3> QED BY <1>1, <3>1, <3>2, <3>3, DroppingStep
  <2>2. CASE AgentTurns(s) \/ CertTurns(s)
    <3>1. UNCHANGED <<time, listed, certRule, cache, certState, calls, dns, lookups, shown>>
      BY <2>2 DEF AgentTurns, CertTurns, certVars, lookupVars
    <3>2. days' \in [DomServers -> CertDays]
      BY <1>1, <2>2 DEF AgentTurns, CertTurns
    <3> QED BY <1>1, <3>1, <3>2, DroppingStep
  <2> QED BY <1>5, <2>1, <2>2
<1>6. CASE DnsClear
  <2>1. dns' \in [DomNames -> {Nothing} \cup DnsEntry] /\ \A n \in DomNames : dns'[n] \in {Nothing, dns[n]}
    BY <1>6 DEF DnsClear
  <2>2. UNCHANGED <<time, listed, days, certRule, cache, certState, calls, lookups, shown>>
    BY <1>6 DEF DnsClear, certVars, worldVars
  <2> QED BY <1>1, <2>1, <2>2, DroppingStep
<1>7. CASE DomainsRestart
  <2>1. /\ dns' \in [DomNames -> {Nothing} \cup DnsEntry] /\ \A n \in DomNames : dns'[n] \in {Nothing, dns[n]}
    BY <1>7 DEF DomainsRestart
  <2>2. /\ cache' \in [DomServers -> {Nothing} \cup CertEntry] /\ \A s \in DomServers : cache'[s] \in {Nothing, cache[s]}
    BY <1>7 DEF DomainsRestart
  <2>3. /\ calls' \in [Callers -> {Nothing} \cup CertCall] /\ \A c \in Callers : calls'[c] \in {Nothing, calls[c]}
    BY <1>7 DEF DomainsRestart
  <2>4. /\ lookups' \in [Callers -> {Nothing} \cup Lookup] /\ \A c \in Callers : lookups'[c] \in {Nothing, lookups[c]}
    BY <1>7 DEF DomainsRestart
  <2>5. UNCHANGED <<time, listed, days, certRule, shown>>
    BY <1>7 DEF DomainsRestart, worldVars
  <2>6. /\ certState' \in [DomServers -> {Nothing} \cup CertState]
        /\ \A s \in listed' : cache'[s] = Nothing
    BY <1>1, <1>7, <2>5 DEF DomainsRestart, DomainsInv, AlertRight
  <2> QED BY <1>1, <2>1, <2>2, <2>3, <2>4, <2>5, <2>6, DroppingStep
<1>8. CASE DomainsTick
  BY <1>8, DomainsTickStep
<1>9. CASE UNCHANGED domainsVars
  <2>1. UNCHANGED <<time, listed, days, certRule, cache, certState, calls, dns, lookups, shown>>
    BY <1>9 DEF domainsVars, certVars, lookupVars, worldVars
  <2> QED BY <1>1, <2>1, DroppingStep
<1>10. ASSUME NEW rule \in CertRules, UpdateRule(rule)
       PROVE  DomainsInv'
  <2>1. UNCHANGED <<time, listed, days, cache, certState, calls, dns, lookups, shown>> /\ certRule' = rule
    BY <1>10 DEF UpdateRule, lookupVars, worldVars
  <2> QED BY <1>1, <2>1, DroppingStep
<1> QED BY <1>2, <1>3, <1>4, <1>5, <1>6, <1>7, <1>8, <1>9, <1>10 DEF DomainsNext

\* Nobody is given an answer older than the cache keeps it plus one request,
\* and the alert on certificates says what the rule made of the report in the
\* cache: for any number of callers, servers and names, any time-outs and any
\* settings of the rule.
THEOREM AnswersStayFresh == DomainsSpec => []FreshAnswers
<1>1. DomainsInv => FreshAnswers
  BY Zenon DEF DomainsInv, ShownRight, AlertRight, AlertOf, FreshAnswers
<1> QED BY <1>1, DomainsInitial, DomainsInductive, PTL DEF DomainsSpec

-----------------------------------------------------------------------------
(***************************************************************************)
(* Management (Manage): SlotsAccounted and FilesWhole for any number of    *)
(* requests, slots, connections and restarts. The slots are the number of  *)
(* requests at work. The files need most: a job past O_EXCL owns its file  *)
(* until it ends, and until the database was changed for the first time    *)
(* every file holds the original contents, because a safety copy made      *)
(* later may hold changed ones.                                            *)
(***************************************************************************)
ReqRow  == [op : Ops \cup {"none"}, at : {"idle", "sent", "running", "returned", "replied", "dropped"},
            session : Nat, hub : {"idle", "waiting", "ok", "error", "failed"},
            res : {"none", "ok", "error", "busy"}]
JobRow  == [state : {"none", "running", "done", "error"},
            step : {"none", "begin", "writing", "safe", "restoring"}, stamp : Nat, ended : Nat]
FileRow == [there : BOOLEAN, whole : BOOLEAN, by : Requests \cup {"none"}, data : {"none", "original", "changed"}]

ManageTypes ==
    /\ sessions \in 1 .. MaxSessions /\ session \in 0 .. sessions /\ now \in 0 .. MaxNow
    /\ request \in [Requests -> ReqRow] /\ jobs \in [Requests -> JobRow] /\ files \in [Names -> FileRow]
    /\ db \in {"original", "changed"} /\ audit \subseteq Requests /\ done \subseteq Requests

Stamps == \A r \in Requests : request[r].session <= sessions /\ jobs[r].stamp <= now /\ jobs[r].ended <= now

FilesThere ==
    \A n \in Names :
        /\ ~files[n].there => ~files[n].whole /\ files[n].by = "none"
        /\ files[n].there => files[n].data # "none"

AtWork   == {r \in Requests : request[r].at \in {"running", "returned"}}
SlotsInv == slots = Cardinality(AtWork) /\ slots <= MaxSlots

JobsInv ==
    \A r \in Requests : jobs[r].state # "none" =>
        /\ request[r].op \in JobOps
        /\ jobs[r].step \in {"safe", "restoring"} => request[r].op = "restore"

\* No other archive is asked for under the name of this one.
Sole(r)  == request[r].op = "archive" => \A q \in Requests \ {r} : request[q].op # "archive"
Holds(r) == At(r, "safe") \/ At(r, "restoring") \/ jobs[r].state = "done"
Owns(r)  ==
    Sole(r) =>
        /\ At(r, "writing") => files[FileOf(r)].there /\ files[FileOf(r)].by = r /\ ~files[FileOf(r)].whole
        /\ Holds(r) => files[FileOf(r)].whole /\ files[FileOf(r)].by = r
OwnsInv  == \A r \in Requests : Owns(r)

Saved   == \E n \in Names : n.dir = "restore" /\ files[n].whole /\ files[n].data = "original"
Unused  == db = "original" /\ \A n \in Names : files[n].there => files[n].data = "original"
UndoInv == Saved \/ Unused

ManageInv ==
    /\ ManageTypes /\ Stamps /\ FilesThere /\ SlotsInv
    /\ JobsInv /\ OwnsInv /\ UndoInv

LEMMA FileNames ==
  ASSUME ManageTypes, Stamps, NEW r \in Requests, request[r].op \in JobOps
  PROVE  /\ FileOf(r) \in Names /\ FileOf(r).dir = request[r].op
         /\ SafetyAt(r, now) \in Names /\ SafetyAt(r, now).dir = request[r].op
         /\ SafetyAt(r, now).stamp \in Nat /\ SafetyAt(r, now).stamp <= now
         /\ request[r].op # "restore" => SafetyAt(r, now) = FileOf(r)
<1>1. jobs[r].stamp \in 0 .. MaxNow /\ now \in 0 .. MaxNow /\ jobs[r].stamp <= now
  BY BoundsAssumption DEF ManageTypes, Stamps, JobRow
<1>2. CASE request[r].op = "archive"
  BY <1>1, <1>2, BoundsAssumption DEF FileOf, SafetyAt, Names
<1>3. CASE request[r].op = "dump"
  BY <1>1, <1>3, BoundsAssumption DEF FileOf, SafetyAt, Names
<1>4. CASE request[r].op = "restore"
  BY <1>1, <1>4, BoundsAssumption DEF FileOf, SafetyAt, Names
<1> QED BY <1>2, <1>3, <1>4 DEF JobOps

LEMMA WorkFinite == IsFiniteSet(AtWork) /\ Cardinality(AtWork) \in Nat
<1>1. IsFiniteSet(AtWork)
  BY BoundsAssumption, FS_Subset DEF AtWork
<1> QED BY <1>1, FS_CardinalityType

\* Everything but the jobs and their files: the routes of the hub, the reader
\* and the handlers of the agent.
LEMMA RelayStep ==
  ASSUME ManageInv, UNCHANGED <<jobs, files, db>>,
         sessions' \in 1 .. MaxSessions, session' \in 0 .. sessions', now' \in 0 .. MaxNow,
         sessions <= sessions', now <= now',
         request' \in [Requests -> ReqRow],
         \A q \in Requests : \/ request'[q].op = request[q].op
                             \/ request[q].op = "none",
         \A q \in Requests : request'[q].session \in {request[q].session, session},
         audit' \subseteq Requests, done' \subseteq Requests,
         SlotsInv'
  PROVE  ManageInv'
<1> USE DEF ManageInv
<1>1. ManageTypes'
  BY DEF ManageTypes
<1>2. Stamps'
  <2> SUFFICES ASSUME NEW q \in Requests
               PROVE  request'[q].session <= sessions' /\ jobs[q].stamp <= now' /\ jobs[q].ended <= now'
    BY DEF Stamps
  <2>1. /\ session \in Nat /\ sessions \in Nat /\ sessions' \in Nat /\ now \in Nat /\ now' \in Nat
        /\ session <= sessions
    BY BoundsAssumption DEF ManageTypes
  <2>2. request[q].session \in Nat /\ jobs[q].stamp \in Nat /\ jobs[q].ended \in Nat
    BY DEF ManageTypes, ReqRow, JobRow
  <2>3. request[q].session <= sessions /\ jobs[q].stamp <= now /\ jobs[q].ended <= now
    BY DEF Stamps
  <2> QED BY <2>1, <2>2, <2>3
<1>3. FilesThere' /\ UndoInv'
  BY Zenon DEF FilesThere, UndoInv, Saved, Unused
<1>5. \A q \in Requests : jobs[q].state # "none" => request'[q].op = request[q].op
  BY DEF JobsInv, JobOps
<1>6. JobsInv'
  BY <1>5 DEF JobsInv
<1>7. OwnsInv'
  <2> SUFFICES ASSUME NEW q \in Requests, Sole(q)', jobs[q].state # "none"
               PROVE  /\ At(q, "writing")' => files[FileOf(q)'].there /\ files[FileOf(q)'].by = q /\ ~files[FileOf(q)'].whole
                      /\ Holds(q)' => files[FileOf(q)'].whole /\ files[FileOf(q)'].by = q
    BY DEF OwnsInv, Owns, At, Holds
  <2>1. request'[q].op = request[q].op
    BY <1>5
  <2>2. Sole(q)
    <3>1. \A p \in Requests : request[p].op = "archive" => request'[p].op = "archive"
      OBVIOUS
    <3> QED BY <2>1, <3>1 DEF Sole
  <2>3. FileOf(q)' = FileOf(q)
    BY <2>1 DEF FileOf
  <2>4. (At(q, "writing")' <=> At(q, "writing")) /\ (Holds(q)' <=> Holds(q))
    BY DEF At, Holds
  <2> QED BY <2>2, <2>3, <2>4, Zenon DEF OwnsInv, Owns
<1> QED BY <1>1, <1>2, <1>3, <1>6, <1>7

LEMMA HubRow ==
  ASSUME ManageTypes, NEW r \in Requests, NEW h \in {"ok", "error", "failed"}, HubHas(r, h)
  PROVE  /\ request' \in [Requests -> ReqRow]
         /\ request'[r].hub = h
         /\ \A q \in Requests : /\ request'[q].op = request[q].op /\ request'[q].at = request[q].at
                                /\ request'[q].session = request[q].session
                                /\ q # r => request'[q].hub = request[q].hub
<1> DEFINE w == [request[r] EXCEPT !.hub = h]
<1>1. request' = [request EXCEPT ![r] = w]
  BY DEF HubHas
<1>2. w \in ReqRow /\ w.hub = h /\ w.op = request[r].op /\ w.at = request[r].at /\ w.session = request[r].session
  BY DEF ManageTypes, ReqRow
<1> HIDE DEF w
<1> QED BY <1>1, <1>2 DEF ManageTypes

LEMMA AgentRow ==
  ASSUME ManageTypes, NEW r \in Requests, NEW at \in {"running", "returned", "replied", "dropped"},
         NEW res \in {"none", "ok", "error", "busy"}, AgentHas(r, at, res)
  PROVE  /\ request' \in [Requests -> ReqRow]
         /\ request'[r].at = at
         /\ \A q \in Requests : /\ request'[q].op = request[q].op /\ request'[q].hub = request[q].hub
                                /\ request'[q].session = request[q].session
                                /\ q # r => request'[q].at = request[q].at
<1> DEFINE w == [request[r] EXCEPT !.at = at, !.res = res]
<1>1. request' = [request EXCEPT ![r] = w]
  BY DEF AgentHas
<1>2. w \in ReqRow /\ w.at = at /\ w.op = request[r].op /\ w.hub = request[r].hub /\ w.session = request[r].session
  BY DEF ManageTypes, ReqRow
<1> HIDE DEF w
<1> QED BY <1>1, <1>2 DEF ManageTypes

LEMMA SameWork ==
  ASSUME SlotsInv, slots' = slots,
         \A q \in Requests : request'[q].at \in {"running", "returned"} <=> request[q].at \in {"running", "returned"}
  PROVE  SlotsInv'
<1>1. AtWork' = AtWork
  BY DEF AtWork
<1> QED BY <1>1 DEF SlotsInv

LEMMA AskStep ==
  ASSUME ManageInv, NEW r \in Requests, NEW op \in Ops, Ask(r, op)
  PROVE  ManageInv'
<1> USE DEF ManageInv
<1> DEFINE w == IF session = 0 THEN [request[r] EXCEPT !.op = op, !.hub = "failed"]
                ELSE [request[r] EXCEPT !.op = op, !.hub = "waiting", !.at = "sent", !.session = session]
<1>1. /\ request[r] = Nobody /\ request' = [request EXCEPT ![r] = w]
      /\ audit' = IF AuditedFirst(op) THEN audit \cup {r} ELSE audit
      /\ UNCHANGED <<session, sessions, slots, jobs, files, db, now, done>>
  BY DEF Ask, agent
<1>2. sessions \in 1 .. MaxSessions /\ session \in 0 .. sessions /\ session \in Nat /\ now \in 0 .. MaxNow
      /\ sessions <= sessions /\ now <= now
  BY BoundsAssumption DEF ManageTypes
<1>3. request[r].op = "none" /\ request[r].at = "idle" /\ request[r].session = 0
  BY <1>1 DEF Nobody
<1>4. /\ w \in ReqRow /\ w.op = op /\ w.hub \in {"failed", "waiting"} /\ w.session \in {request[r].session, session}
      /\ w.at \in {"idle", "sent"}
  BY <1>2, <1>3 DEF ManageTypes, ReqRow
<1> HIDE DEF w
<1>5. request' \in [Requests -> ReqRow] /\ request'[r] = w /\ \A q \in Requests \ {r} : request'[q] = request[q]
  BY <1>1, <1>4 DEF ManageTypes
<1>6. SlotsInv'
  <2>1. \A q \in Requests : request'[q].at \in {"running", "returned"} <=> request[q].at \in {"running", "returned"}
    BY <1>3, <1>4, <1>5
  <2> QED BY <1>1, <2>1, SameWork
<1>7. audit' \subseteq Requests /\ done' \subseteq Requests
  BY <1>1 DEF ManageTypes
<1>8. \A q \in Requests : request'[q].op = request[q].op \/ request[q].op = "none"
  BY <1>3, <1>4, <1>5
<1>9. \A q \in Requests : request'[q].session \in {request[q].session, session}
  BY <1>4, <1>5
<1> QED BY <1>1, <1>2, <1>5, <1>6, <1>7, <1>8, <1>9, RelayStep

LEMMA HubSteps ==
  ASSUME ManageInv, NEW r \in Requests, Answered(r) \/ TimedOut(r)
  PROVE  ManageInv'
<1> USE DEF ManageInv
<1>1. UNCHANGED <<session, sessions, slots, jobs, files, db, now, done>>
  BY DEF Answered, TimedOut, agent
<1>2. PICK h \in {"ok", "error", "failed"} : HubHas(r, h)
  <2>1. CASE Answered(r)
    <3>1. CASE request[r].res = "ok"
      BY <2>1, <3>1 DEF Answered
    <3>2. CASE request[r].res # "ok"
      BY <2>1, <3>2 DEF Answered
    <3> QED BY <3>1, <3>2
  <2>2. CASE TimedOut(r)
    BY <2>2 DEF TimedOut
  <2> QED BY <2>1, <2>2
<1>3. audit' \subseteq Requests
  BY DEF Answered, TimedOut, ManageTypes
<1>4. sessions \in 1 .. MaxSessions /\ session \in 0 .. sessions /\ now \in 0 .. MaxNow
      /\ sessions <= sessions /\ now <= now /\ done \subseteq Requests
  BY BoundsAssumption DEF ManageTypes
<1>5. /\ request' \in [Requests -> ReqRow]
      /\ request'[r].hub = h
      /\ \A q \in Requests : /\ request'[q].op = request[q].op /\ request'[q].at = request[q].at
                             /\ request'[q].session = request[q].session
                             /\ q # r => request'[q].hub = request[q].hub
  BY <1>2, HubRow
<1>6. SlotsInv'
  BY <1>1, <1>5, SameWork
<1> QED BY <1>1, <1>3, <1>4, <1>5, <1>6, RelayStep

\* A step of a request in the agent that starts no job.
LEMMA AgentStep ==
  ASSUME ManageInv, NEW r \in Requests,
         NEW at \in {"running", "returned", "replied", "dropped"}, NEW res \in {"none", "ok", "error", "busy"},
         AgentHas(r, at, res), UNCHANGED <<session, sessions, jobs, files, db, now, audit>>, SlotsInv',
         done' \subseteq done \cup {r}
  PROVE  ManageInv'
<1> USE DEF ManageInv
<1>1. sessions \in 1 .. MaxSessions /\ session \in 0 .. sessions /\ now \in 0 .. MaxNow
      /\ sessions <= sessions /\ now <= now /\ audit \subseteq Requests /\ done' \subseteq Requests
  BY BoundsAssumption DEF ManageTypes
<1>2. /\ request' \in [Requests -> ReqRow]
      /\ \A q \in Requests : /\ request'[q].op = request[q].op /\ request'[q].hub = request[q].hub
                             /\ request'[q].session = request[q].session
  BY AgentRow
<1> QED BY <1>1, <1>2, RelayStep

LEMMA ReceiveStep ==
  ASSUME ManageInv, NEW r \in Requests, Receive(r)
  PROVE  ManageInv'
<1> USE DEF ManageInv
<1>1. /\ request[r].at = "sent" /\ request[r].res \in {"none", "ok", "error", "busy"}
      /\ UNCHANGED <<session, sessions, jobs, files, db, now, audit, done>>
  BY DEF Receive, ManageTypes, ReqRow
<1>2. r \notin AtWork /\ IsFiniteSet(AtWork) /\ Cardinality(AtWork) \in Nat
  BY <1>1, WorkFinite DEF AtWork
<1>3. CASE Free
  <2>1. slots' = slots + 1 /\ AgentHas(r, "running", request[r].res)
    BY <1>3 DEF Receive
  <2>2. request'[r].at = "running" /\ \A q \in Requests \ {r} : request'[q].at = request[q].at
    BY <1>1, <2>1, AgentRow
  <2>3. AtWork' = AtWork \cup {r}
    BY <2>2 DEF AtWork
  <2>4. Cardinality(AtWork \cup {r}) = Cardinality(AtWork) + 1
    BY <1>2, FS_AddElement
  <2>5. SlotsInv'
    BY <1>2, <1>3, <2>1, <2>3, <2>4, BoundsAssumption DEF SlotsInv, Free
  <2> QED BY <1>1, <2>1, <2>5, AgentStep
<1>4. CASE ~Free
  <2>1. slots' = slots /\ AgentHas(r, "replied", "busy")
    BY <1>4 DEF Receive
  <2>2. request'[r].at = "replied" /\ \A q \in Requests \ {r} : request'[q].at = request[q].at
    BY <2>1, AgentRow
  <2>3. SlotsInv'
    BY <1>1, <2>1, <2>2, SameWork
  <2> QED BY <1>1, <2>1, <2>3, AgentStep
<1> QED BY <1>3, <1>4

LEMMA ReplyStep ==
  ASSUME ManageInv, NEW r \in Requests, Reply(r)
  PROVE  ManageInv'
<1> USE DEF ManageInv
<1> DEFINE at == IF request[r].session = session THEN "replied" ELSE "dropped"
<1>1. /\ request[r].at = "returned" /\ request[r].res \in {"none", "ok", "error", "busy"}
      /\ AgentHas(r, at, request[r].res) /\ slots' = slots - 1 /\ at \in {"replied", "dropped"}
      /\ UNCHANGED <<session, sessions, jobs, files, db, now, audit, done>>
  BY DEF Reply, ManageTypes, ReqRow
<1> HIDE DEF at
<1>2. r \in AtWork /\ IsFiniteSet(AtWork) /\ Cardinality(AtWork) \in Nat
  BY <1>1, WorkFinite DEF AtWork
<1>3. request'[r].at = at /\ \A q \in Requests \ {r} : request'[q].at = request[q].at
  BY <1>1, AgentRow
<1>4. AtWork' = AtWork \ {r}
  BY <1>1, <1>3 DEF AtWork
<1>5. Cardinality(AtWork \ {r}) = Cardinality(AtWork) - 1
  BY <1>2, FS_RemoveElement
<1>6. SlotsInv'
  BY <1>1, <1>2, <1>4, <1>5, BoundsAssumption DEF SlotsInv
<1> QED BY <1>1, <1>6, AgentStep

LEMMA HandlerSteps ==
  ASSUME ManageInv, NEW r \in Requests, Carry(r) \/ HandlerFails(r) \/ \E q \in Requests : JobStatus(r, q)
  PROVE  ManageInv'
<1> USE DEF ManageInv
<1>1. /\ request[r].at = "running" /\ UNCHANGED <<session, sessions, slots, jobs, files, db, now, audit>>
  BY DEF Carry, HandlerFails, JobStatus, Running, agent
<1>2. PICK res \in {"ok", "error"} : AgentHas(r, "returned", res)
  BY DEF Carry, HandlerFails, JobStatus, Returns
<1>3. done' \subseteq done \cup {r}
  <2>1. CASE Carry(r)
    BY <2>1 DEF Carry, Running
  <2>2. CASE HandlerFails(r)
    BY <2>2 DEF HandlerFails
  <2>3. CASE \E q \in Requests : JobStatus(r, q)
    BY <2>3 DEF JobStatus, agent
  <2> QED BY <2>1, <2>2, <2>3
<1>4. request'[r].at = "returned" /\ \A q \in Requests \ {r} : request'[q].at = request[q].at
  BY <1>2, AgentRow
<1>5. SlotsInv'
  BY <1>1, <1>4, SameWork
<1> QED BY <1>1, <1>2, <1>3, <1>5, AgentStep

LEMMA LoseStep ==
  ASSUME ManageInv, Lose
  PROVE  ManageInv'
<1> USE DEF ManageInv
<1> DEFINE W(q) == [request[q] EXCEPT !.hub = IF request[q].hub = "waiting" THEN "failed" ELSE request[q].hub,
                                      !.at = IF request[q].at = "sent" THEN "dropped" ELSE request[q].at]
<1>1. /\ session' = 0 /\ request' = [q \in Requests |-> W(q)]
      /\ UNCHANGED <<sessions, slots, jobs, files, db, now, audit, done>>
  BY DEF Lose, agent
<1>2. ASSUME NEW q \in Requests
      PROVE  /\ W(q) \in ReqRow /\ W(q).op = request[q].op /\ W(q).session = request[q].session
             /\ W(q).hub = "ok" => request[q].hub = "ok"
             /\ W(q).at \in {"running", "returned"} <=> request[q].at \in {"running", "returned"}
  <2>1. request[q] \in ReqRow
    BY DEF ManageTypes
  <2> QED BY <2>1 DEF ReqRow
<1>3. \A q \in Requests : request'[q] = W(q)
  BY <1>1
<1> HIDE DEF W
<1>4. request' \in [Requests -> ReqRow]
  BY <1>1, <1>2
<1>5. SlotsInv'
  BY <1>1, <1>2, <1>3, SameWork
<1>6. sessions \in 1 .. MaxSessions /\ 0 \in 0 .. sessions /\ now \in 0 .. MaxNow
      /\ sessions <= sessions /\ now <= now /\ audit \subseteq Requests /\ done \subseteq Requests
  BY BoundsAssumption DEF ManageTypes
<1> QED BY <1>1, <1>2, <1>3, <1>4, <1>5, <1>6, RelayStep

LEMMA OutsideSteps ==
  ASSUME ManageInv, Connect \/ Clock \/ UNCHANGED vars
  PROVE  ManageInv'
<1> USE DEF ManageInv
<1>1. UNCHANGED <<request, slots, jobs, files, db, audit, done>>
  BY DEF Connect, Clock, vars, agent
<1>2. request \in [Requests -> ReqRow] /\ audit \subseteq Requests /\ done \subseteq Requests
  BY DEF ManageTypes
<1>3. /\ sessions' \in 1 .. MaxSessions /\ session' \in 0 .. sessions' /\ now' \in 0 .. MaxNow
      /\ sessions <= sessions' /\ now <= now'
  BY BoundsAssumption DEF Connect, Clock, vars, agent, ManageTypes
<1>4. SlotsInv'
  BY <1>1, SameWork
<1> QED BY <1>1, <1>2, <1>3, <1>4, RelayStep

\* What every step of a job keeps when it touches one file, n, that no other
\* job owns.
LEMMA JobStep ==
  ASSUME ManageInv, NEW r \in Requests, request[r].op \in JobOps,
         UNCHANGED <<session, sessions, request, slots, now, audit>>,
         NEW n \in Names, files' \in [Names -> FileRow], \A m \in Names \ {n} : files'[m] = files[m],
         ~files'[n].there => ~files'[n].whole /\ files'[n].by = "none",
         files'[n].there => files'[n].data # "none",
         NEW w \in JobRow, jobs' = [jobs EXCEPT ![r] = w], w.stamp <= now, w.ended <= now,
         w.step \in {"safe", "restoring"} => request[r].op = "restore",
         db' \in {"original", "changed"}, done \subseteq done', done' \subseteq done \cup {r},
         \A q \in Requests \ {r} :
            Sole(q) /\ (At(q, "writing") \/ Holds(q)) /\ FileOf(q) = n => files'[n] = files[n],
         Owns(r)', UndoInv'
  PROVE  ManageInv'
<1> USE DEF ManageInv
<1>1. jobs' \in [Requests -> JobRow] /\ jobs'[r] = w /\ \A q \in Requests \ {r} : jobs'[q] = jobs[q]
  BY DEF ManageTypes
<1>2. ManageTypes'
  BY <1>1 DEF ManageTypes
<1>3. Stamps'
  BY <1>1 DEF Stamps
<1>4. FilesThere'
  <2> SUFFICES ASSUME NEW m \in Names
               PROVE  /\ ~files'[m].there => ~files'[m].whole /\ files'[m].by = "none"
                      /\ files'[m].there => files'[m].data # "none"
    BY Zenon DEF FilesThere
  <2> QED BY Zenon DEF FilesThere
<1>5. SlotsInv'
  BY SameWork
<1>7. JobsInv'
  BY <1>1 DEF JobsInv
<1>8. OwnsInv'
  <2> SUFFICES ASSUME NEW q \in Requests, q # r, Sole(q)'
               PROVE  /\ At(q, "writing")' => files'[FileOf(q)'].there /\ files'[FileOf(q)'].by = q /\ ~files'[FileOf(q)'].whole
                      /\ Holds(q)' => files'[FileOf(q)'].whole /\ files'[FileOf(q)'].by = q
    BY Zenon DEF OwnsInv, Owns
  <2>1. Sole(q) /\ FileOf(q)' = FileOf(q) /\ (At(q, "writing")' <=> At(q, "writing")) /\ (Holds(q)' <=> Holds(q))
    BY <1>1 DEF Sole, FileOf, At, Holds
  <2>2. Owns(q)
    BY DEF OwnsInv
  <2>3. At(q, "writing") \/ Holds(q) => files'[FileOf(q)] = files[FileOf(q)]
    <3>1. At(q, "writing") \/ Holds(q) => FileOf(q) \in Names
      <4>1. At(q, "writing") \/ Holds(q) => jobs[q].state # "none"
        BY DEF At, Holds
      <4> QED BY <4>1, FileNames DEF JobsInv
    <3> HIDE DEF FileOf, At, Holds
    <3> QED BY <2>1, <3>1, Zenon
  <2> HIDE DEF FileOf, At, Holds
  <2> QED BY <2>1, <2>2, <2>3, Zenon DEF Owns
<1> QED BY <1>2, <1>3, <1>4, <1>5, <1>7, <1>8

\* A job that runs is that of a request that starts one.
LEMMA RunningJob ==
  ASSUME ManageInv, NEW r \in Requests, NEW step, At(r, step)
  PROVE  /\ request[r].op \in JobOps /\ jobs[r].state = "running" /\ jobs[r].step = step
         /\ jobs[r] \in JobRow /\ jobs[r].stamp <= now /\ jobs[r].ended <= now /\ now \in Nat /\ now <= now
         /\ FileOf(r) \in Names
<1>1. /\ request[r].op \in JobOps /\ jobs[r].state = "running" /\ jobs[r].step = step /\ jobs[r] \in JobRow
      /\ jobs[r].stamp <= now /\ jobs[r].ended <= now
  BY DEF ManageInv, JobsInv, At, ManageTypes, Stamps
<1>2. now \in Nat /\ now <= now
  BY BoundsAssumption DEF ManageInv, ManageTypes
<1> QED BY <1>1, <1>2, FileNames DEF ManageInv

LEMMA EndedRow ==
  ASSUME NEW j \in JobRow, NEW state \in {"done", "error"}, now \in Nat
  PROVE  LET w == [j EXCEPT !.state = state, !.ended = now]
         IN  w \in JobRow /\ w.state = state /\ w.ended = now /\ w.stamp = j.stamp /\ w.step = j.step
  BY DEF JobRow

LEMMA SameFiles ==
  ASSUME FilesThere, NEW n \in Names, files' = files
  PROVE  /\ ~files'[n].there => ~files'[n].whole /\ files'[n].by = "none"
         /\ files'[n].there => files'[n].data # "none"
  BY Zenon DEF FilesThere

LEMMA OpenStep ==
  ASSUME ManageInv, NEW r \in Requests, Open(r)
  PROVE  ManageInv'
<1> USE DEF ManageInv
<1>1. At(r, "begin")
  BY DEF Open
<1>2. /\ request[r].op \in JobOps /\ jobs[r] \in JobRow /\ jobs[r].stamp <= now /\ jobs[r].ended <= now
      /\ jobs[r].state = "running"
  BY <1>1, RunningJob
<1>3. PICK n \in Names : n = SafetyAt(r, now)
  BY <1>2, FileNames
<1>4. n.dir = request[r].op /\ n.stamp \in Nat /\ n.stamp <= now /\ (request[r].op # "restore" => n = FileOf(r))
  BY <1>2, <1>3, FileNames
<1> DEFINE f == [there |-> TRUE, whole |-> FALSE, by |-> r, data |-> db]
           w == [jobs[r] EXCEPT !.step = "writing", !.stamp = n.stamp]
<1>5. /\ ~files[n].there /\ files' = [files EXCEPT ![n] = f] /\ jobs' = [jobs EXCEPT ![r] = w]
      /\ done' = done \cup {r} /\ db' = db
      /\ UNCHANGED <<session, sessions, request, slots, now, audit>>
  BY <1>3, Zenon DEF Open, jobFrame
<1>6. f \in FileRow /\ f.there /\ ~f.whole /\ f.by = r /\ f.data = db /\ f.data # "none"
  <2>1. db \in {"original", "changed"}
    BY DEF ManageTypes
  <2>2. db \in {"none", "original", "changed"} /\ db # "none"
    BY <2>1
  <2>3. f \in FileRow
    BY <2>2, Zenon DEF FileRow
  <2> QED BY <2>2, <2>3, Zenon
<1>7. w \in JobRow /\ w.step = "writing" /\ w.stamp = n.stamp /\ w.ended = jobs[r].ended /\ w.state = "running"
  BY <1>2, <1>4 DEF JobRow
<1> HIDE DEF f, w
<1>8. files' \in [Names -> FileRow] /\ files'[n] = f /\ \A m \in Names \ {n} : files'[m] = files[m]
  BY <1>5, <1>6, Zenon DEF ManageTypes
<1>9. jobs'[r] = w
  BY <1>5 DEF ManageTypes
<1>10. FileOf(r)' = n
  <2>1. CASE request[r].op = "archive"
    BY <1>2, <1>4, <1>5, <2>1 DEF FileOf
  <2>2. CASE request[r].op = "dump"
    BY <1>2, <1>3, <1>4, <1>5, <1>7, <1>9, <2>2 DEF FileOf, SafetyAt
  <2>3. CASE request[r].op = "restore"
    BY <1>2, <1>3, <1>4, <1>5, <1>7, <1>9, <2>3 DEF FileOf, SafetyAt
  <2> QED BY <1>2, <2>1, <2>2, <2>3 DEF JobOps
<1>11. Owns(r)'
  <2>1. ~Holds(r)'
    BY <1>7, <1>9 DEF Holds, At
  <2> QED BY <1>6, <1>8, <1>10, <2>1, Zenon DEF Owns
<1>12. \A q \in Requests \ {r} :
            Sole(q) /\ (At(q, "writing") \/ Holds(q)) /\ FileOf(q) = n => files'[n] = files[n]
  <2> SUFFICES ASSUME NEW q \in Requests, Sole(q), At(q, "writing") \/ Holds(q), FileOf(q) = n PROVE FALSE
    BY Zenon
  <2>1. files[n].there \/ files[n].whole
    BY Zenon DEF OwnsInv, Owns
  <2> QED BY <1>5, <2>1, Zenon DEF FilesThere
<1>13. UndoInv'
  <2>1. CASE Saved
    BY <1>5, <1>8, <2>1, Zenon DEF Saved, UndoInv, FilesThere
  <2>2. CASE Unused
    BY <1>5, <1>6, <1>8, <2>2, Zenon DEF Unused, UndoInv
  <2> QED BY <2>1, <2>2 DEF UndoInv
<1>14. w.stamp <= now /\ w.ended <= now /\ w.step \notin {"safe", "restoring"} /\ db' \in {"original", "changed"}
  BY <1>2, <1>4, <1>5, <1>7 DEF ManageTypes
<1>15. /\ ~files'[n].there => ~files'[n].whole /\ files'[n].by = "none"
       /\ files'[n].there => files'[n].data # "none"
  BY <1>6, <1>8, Zenon
<1>16. done \subseteq done' /\ done' \subseteq done \cup {r}
  BY <1>5
<1> QED BY <1>2, <1>5, <1>7, <1>8, <1>11, <1>12, <1>13, <1>14, <1>15, <1>16, JobStep, Zenon

\* The job r ends, and no file changes or the archive is removed.
LEMMA OpenFailsStep ==
  ASSUME ManageInv, NEW r \in Requests, OpenFails(r)
  PROVE  ManageInv'
<1> USE DEF ManageInv
<1>1. At(r, "begin")
  BY DEF OpenFails
<1>2. /\ request[r].op \in JobOps /\ jobs[r] \in JobRow /\ jobs[r].stamp <= now /\ jobs[r].ended <= now
      /\ jobs[r].state = "running" /\ jobs[r].step = "begin" /\ now \in Nat /\ now <= now
  BY <1>1, RunningJob
<1>3. PICK n \in Names : n = SafetyAt(r, now)
  BY <1>2, FileNames
<1>4. n.dir = request[r].op
  BY <1>2, <1>3, FileNames
<1> DEFINE w == [jobs[r] EXCEPT !.state = "error", !.ended = now]
<1>5. /\ files' = AfterRefusal(n) /\ jobs' = [jobs EXCEPT ![r] = w]
      /\ done' \in {done, done \cup {r}} /\ db' = db
      /\ UNCHANGED <<session, sessions, request, slots, now, audit>>
  <2>1. jobs' = [jobs EXCEPT ![r] = w]
    BY DEF OpenFails, JobEnds
  <2> QED BY <1>3, <2>1 DEF OpenFails, jobFrame
<1>6. w \in JobRow /\ w.state = "error" /\ w.ended = now /\ w.stamp = jobs[r].stamp /\ w.step = "begin"
  BY <1>2, EndedRow
<1> HIDE DEF w
<1>7. /\ files' \in [Names -> FileRow] /\ (\A m \in Names \ {n} : files'[m] = files[m])
      /\ files'[n] = NoFile \/ files' = files
      /\ n.dir # "archive" => files' = files
  <2>1. NoFile \in FileRow
    BY Zenon DEF NoFile, FileRow
  <2> HIDE DEF NoFile
  <2> QED BY <1>5, <2>1, Zenon DEF AfterRefusal, ManageTypes
<1>8. Owns(r)'
  <2>1. jobs'[r] = w
    BY <1>5 DEF ManageTypes
  <2>2. ~Holds(r)' /\ ~At(r, "writing")'
    BY <1>6, <2>1 DEF Holds, At
  <2> QED BY <2>2, Zenon DEF Owns
<1>9. \A q \in Requests \ {r} :
            Sole(q) /\ (At(q, "writing") \/ Holds(q)) /\ FileOf(q) = n => files'[n] = files[n]
  <2> SUFFICES ASSUME NEW q \in Requests \ {r}, Sole(q), FileOf(q) = n, n.dir = "archive" PROVE FALSE
    BY <1>7, Zenon
  <2>1. request[q].op = "archive"
    BY DEF FileOf
  <2> QED BY <1>4, <2>1 DEF Sole
<1>10. NoFile.there = FALSE /\ NoFile.whole = FALSE /\ NoFile.by = "none"
  BY Zenon DEF NoFile
<1>11. UndoInv'
  <2>1. CASE Saved
    <3>1. PICK m \in Names : m.dir = "restore" /\ files[m].whole /\ files[m].data = "original"
      BY <2>1, Zenon DEF Saved
    <3>2. files'[m] = files[m]
      <4>1. n.dir # "archive" => files'[m] = files[m]
        BY <1>7
      <4>2. n.dir = "archive" => m # n
        BY <3>1
      <4> QED BY <1>7, <4>1, <4>2
    <3> QED BY <3>1, <3>2, Zenon DEF Saved, UndoInv
  <2>2. CASE Unused
    BY <1>5, <1>7, <1>10, <2>2, Zenon DEF Unused, UndoInv
  <2> QED BY <2>1, <2>2 DEF UndoInv
<1>12. w.stamp <= now /\ w.ended <= now /\ w.step \notin {"safe", "restoring"} /\ db' \in {"original", "changed"}
  BY <1>2, <1>5, <1>6 DEF ManageTypes
<1>13. /\ ~files'[n].there => ~files'[n].whole /\ files'[n].by = "none"
       /\ files'[n].there => files'[n].data # "none"
  BY <1>7, <1>10, Zenon DEF FilesThere
<1>14. done \subseteq done' /\ done' \subseteq done \cup {r}
  BY <1>5
<1> QED BY <1>2, <1>5, <1>6, <1>7, <1>8, <1>9, <1>11, <1>12, <1>13, <1>14, JobStep, Zenon

\* The file of a job that writes is nobody else's.
LEMMA WritersFile ==
  ASSUME ManageInv, NEW r \in Requests, At(r, "writing"),
         NEW q \in Requests, q # r, Sole(q), At(q, "writing") \/ Holds(q), FileOf(q) = FileOf(r)
  PROVE  FALSE
<1> USE DEF ManageInv
<1>1. request[q].op = request[r].op
  BY DEF FileOf
<1>2. request[r].op # "archive"
  BY <1>1 DEF Sole
<1>3. Sole(r)
  BY <1>2 DEF Sole
<1>4. files[FileOf(r)].by = r /\ files[FileOf(r)].by = q
  BY <1>3, Zenon DEF OwnsInv, Owns
<1> QED BY <1>4

LEMMA WrittenStep ==
  ASSUME ManageInv, NEW r \in Requests, Written(r)
  PROVE  ManageInv'
<1> USE DEF ManageInv
<1>1. At(r, "writing")
  BY DEF Written
<1>2. /\ request[r].op \in JobOps /\ jobs[r] \in JobRow /\ jobs[r].stamp <= now /\ jobs[r].ended <= now
      /\ jobs[r].state = "running" /\ jobs[r].step = "writing" /\ now \in Nat /\ now <= now
  BY <1>1, RunningJob
<1>3. PICK n \in Names : n = FileOf(r)
  BY <1>1, RunningJob
<1>4. files[n] \in FileRow
  BY DEF ManageTypes
<1> DEFINE f == [files[n] EXCEPT !.whole = IF files[n].by = r THEN TRUE ELSE files[n].whole]
<1>5. /\ files' = [files EXCEPT ![n] = f] /\ db' = db /\ done' = done
      /\ UNCHANGED <<session, sessions, request, slots, now, audit>>
  BY <1>3, Zenon DEF Written, jobFrame
<1>6. /\ f \in FileRow /\ f.there = files[n].there /\ f.by = files[n].by /\ f.data = files[n].data
      /\ files[n].by = r => f.whole = TRUE
      /\ files[n].by # r => f = files[n]
      /\ files[n].whole = TRUE => f.whole = TRUE
  <2>1. ASSUME NEW v \in FileRow, NEW b \in BOOLEAN
        PROVE  LET u == [v EXCEPT !.whole = b]
               IN  u \in FileRow /\ u.there = v.there /\ u.by = v.by /\ u.data = v.data /\ u.whole = b
    BY Zenon DEF FileRow
  <2>2. CASE files[n].by = r
    <3>1. f = [files[n] EXCEPT !.whole = TRUE]
      BY <2>2, Zenon
    <3> HIDE DEF f
    <3> QED BY <1>4, <2>1, <2>2, <3>1, Zenon
  <2>3. CASE files[n].by # r
    <3>1. f = [files[n] EXCEPT !.whole = files[n].whole]
      BY <2>3, Zenon
    <3>2. f = files[n]
      <4> HIDE DEF f
      <4> QED BY <1>4, <3>1, Zenon DEF FileRow
    <3> HIDE DEF f
    <3> QED BY <1>4, <2>3, <3>2, Zenon
  <2> QED BY <2>2, <2>3
<1> HIDE DEF f
<1>7. files' \in [Names -> FileRow] /\ files'[n] = f /\ \A m \in Names \ {n} : files'[m] = files[m]
  BY <1>5, <1>6, Zenon DEF ManageTypes
<1>8. PICK w \in JobRow :
         /\ jobs' = [jobs EXCEPT ![r] = w] /\ w.stamp = jobs[r].stamp /\ w.ended <= now
         /\ \/ w.step = "safe" /\ w.state = "running" /\ request[r].op = "restore"
            \/ w.step = "writing" /\ w.state \in {"done", "error"}
  <2>1. CASE request[r].op = "restore"
    <3> DEFINE w == [jobs[r] EXCEPT !.step = "safe"]
    <3>1. jobs' = [jobs EXCEPT ![r] = w]
      BY <2>1 DEF Written, GoesOn
    <3>2. w \in JobRow /\ w.stamp = jobs[r].stamp /\ w.ended = jobs[r].ended /\ w.step = "safe" /\ w.state = "running"
      BY <1>2 DEF JobRow
    <3> HIDE DEF w
    <3> QED BY <1>2, <2>1, <3>1, <3>2
  <2>2. CASE request[r].op # "restore"
    <3>1. PICK s \in {"done", "error"} : JobEnds(r, s)
      BY <2>2 DEF Written
    <3> DEFINE w == [jobs[r] EXCEPT !.state = s, !.ended = now]
    <3>2. jobs' = [jobs EXCEPT ![r] = w]
      BY <3>1 DEF JobEnds
    <3>3. w \in JobRow /\ w.stamp = jobs[r].stamp /\ w.ended = now /\ w.step = "writing" /\ w.state = s
      BY <1>2, EndedRow
    <3> HIDE DEF w
    <3> QED BY <1>2, <3>2, <3>3
  <2> QED BY <2>1, <2>2
<1>9. jobs'[r] = w
  BY <1>8 DEF ManageTypes
<1>10. FileOf(r)' = n
  BY <1>3, <1>5, <1>8, <1>9 DEF FileOf
<1>11. Owns(r)'
  <2> SUFFICES ASSUME Sole(r)' PROVE ~At(r, "writing")' /\ files'[n].whole /\ files'[n].by = r
    BY <1>10, Zenon DEF Owns
  <2>1. Sole(r)
    BY <1>5 DEF Sole
  <2>2. files[n].by = r
    BY <1>1, <1>3, <2>1, Zenon DEF OwnsInv, Owns
  <2>3. ~At(r, "writing")'
    BY <1>8, <1>9 DEF At
  <2> QED BY <1>6, <1>7, <2>2, <2>3, Zenon
<1>12. \A q \in Requests \ {r} :
            Sole(q) /\ (At(q, "writing") \/ Holds(q)) /\ FileOf(q) = n => files'[n] = files[n]
  BY <1>1, <1>3, WritersFile
<1>13. UndoInv'
  <2>1. CASE Saved
    <3>1. \A m \in Names : files[m].whole = TRUE => files'[m].whole = TRUE /\ files'[m].data = files[m].data
      BY <1>6, <1>7, Zenon
    <3>2. PICK m \in Names : m.dir = "restore" /\ files[m].whole /\ files[m].data = "original"
      BY <2>1, Zenon DEF Saved
    <3>3. files[m].whole = TRUE
      BY <3>2, Zenon DEF ManageTypes, FileRow
    <3> QED BY <3>1, <3>2, <3>3, Zenon DEF Saved, UndoInv
  <2>2. CASE Unused
    BY <1>5, <1>6, <1>7, <2>2, Zenon DEF Unused, UndoInv
  <2> QED BY <2>1, <2>2 DEF UndoInv
<1>14. /\ ~files'[n].there => ~files'[n].whole /\ files'[n].by = "none"
       /\ files'[n].there => files'[n].data # "none"
  <2>1. /\ ~files[n].there => ~files[n].whole /\ files[n].by = "none"
        /\ files[n].there => files[n].data # "none"
    BY Zenon DEF FilesThere
  <2>2. ~files[n].there => files[n].by # r
    BY <2>1, BoundsAssumption
  <2> QED BY <1>6, <1>7, <2>1, <2>2, Zenon
<1>15. w.stamp <= now /\ w.ended <= now /\ (w.step \in {"safe", "restoring"} => request[r].op = "restore")
       /\ db' \in {"original", "changed"} /\ done \subseteq done' /\ done' \subseteq done \cup {r}
  BY <1>2, <1>5, <1>8 DEF ManageTypes
<1> QED BY <1>2, <1>5, <1>7, <1>8, <1>11, <1>12, <1>13, <1>14, <1>15, JobStep, Zenon

LEMMA WriteFailsStep ==
  ASSUME ManageInv, NEW r \in Requests, WriteFails(r)
  PROVE  ManageInv'
<1> USE DEF ManageInv
<1>1. At(r, "writing")
  BY DEF WriteFails
<1>2. /\ request[r].op \in JobOps /\ jobs[r] \in JobRow /\ jobs[r].stamp <= now /\ jobs[r].ended <= now
      /\ jobs[r].state = "running" /\ jobs[r].step = "writing" /\ now \in Nat /\ now <= now
  BY <1>1, RunningJob
<1>3. PICK n \in Names : n = FileOf(r)
  BY <1>1, RunningJob
<1> DEFINE w == [jobs[r] EXCEPT !.state = "error", !.ended = now]
<1>4. /\ files' = [files EXCEPT ![n] = NoFile] /\ jobs' = [jobs EXCEPT ![r] = w] /\ db' = db /\ done' = done
      /\ UNCHANGED <<session, sessions, request, slots, now, audit>>
  <2>1. jobs' = [jobs EXCEPT ![r] = w]
    BY DEF WriteFails, JobEnds
  <2> QED BY <1>3, <2>1, Zenon DEF WriteFails, jobFrame
<1>5. w \in JobRow /\ w.state = "error" /\ w.ended = now /\ w.stamp = jobs[r].stamp /\ w.step = "writing"
  BY <1>2, EndedRow
<1> HIDE DEF w
<1>6. NoFile \in FileRow /\ NoFile.there = FALSE /\ NoFile.whole = FALSE /\ NoFile.by = "none"
  BY Zenon DEF NoFile, FileRow
<1>7. files' \in [Names -> FileRow] /\ files'[n] = NoFile /\ \A m \in Names \ {n} : files'[m] = files[m]
  BY <1>4, <1>6, Zenon DEF ManageTypes
<1>8. Owns(r)'
  <2>1. jobs'[r] = w
    BY <1>4 DEF ManageTypes
  <2>2. ~Holds(r)' /\ ~At(r, "writing")'
    BY <1>5, <2>1 DEF Holds, At
  <2> QED BY <2>2, Zenon DEF Owns
<1>9. \A q \in Requests \ {r} :
            Sole(q) /\ (At(q, "writing") \/ Holds(q)) /\ FileOf(q) = n => files'[n] = files[n]
  BY <1>1, <1>3, WritersFile
<1>10. UndoInv'
  <2>1. CASE Saved
    <3>1. PICK m \in Names : m.dir = "restore" /\ files[m].whole /\ files[m].data = "original"
      BY <2>1, Zenon DEF Saved
    <3>2. m # n
      <4> SUFFICES ASSUME m = n PROVE FALSE
        OBVIOUS
      <4>1. request[r].op = "restore"
        BY <1>2, <1>3, <3>1, FileNames
      <4>2. Sole(r)
        BY <4>1 DEF Sole
      <4>3. ~files[n].whole
        BY <1>1, <1>3, <4>2, Zenon DEF OwnsInv, Owns
      <4> QED BY <3>1, <4>3, Zenon
    <3> QED BY <1>7, <3>1, <3>2, Zenon DEF Saved, UndoInv
  <2>2. CASE Unused
    BY <1>4, <1>6, <1>7, <2>2, Zenon DEF Unused, UndoInv
  <2> QED BY <2>1, <2>2 DEF UndoInv
<1>11. w.stamp <= now /\ w.ended <= now /\ w.step \notin {"safe", "restoring"} /\ db' \in {"original", "changed"}
       /\ done \subseteq done' /\ done' \subseteq done \cup {r}
  BY <1>2, <1>4, <1>5 DEF ManageTypes
<1>12. /\ ~files'[n].there => ~files'[n].whole /\ files'[n].by = "none"
       /\ files'[n].there => files'[n].data # "none"
  BY <1>6, <1>7, Zenon
<1> QED BY <1>2, <1>4, <1>5, <1>7, <1>8, <1>9, <1>10, <1>11, <1>12, JobStep, Zenon

\* A step of a job that leaves the files alone.
LEMMA JobAloneStep ==
  ASSUME ManageInv, NEW r \in Requests, request[r].op \in JobOps,
         UNCHANGED <<session, sessions, request, slots, now, audit, files, done>>,
         NEW w \in JobRow, jobs' = [jobs EXCEPT ![r] = w], w.stamp = jobs[r].stamp, w.ended <= now,
         w.step \in {"safe", "restoring"} => request[r].op = "restore",
         ~(w.state = "running" /\ w.step = "writing"),
         w.state = "done" \/ (w.state = "running" /\ w.step \in {"safe", "restoring"}) => Holds(r),
         db' \in {"original", "changed"}, UndoInv'
  PROVE  ManageInv'
<1> USE DEF ManageInv
<1>1. PICK n \in Names : n = FileOf(r)
  BY FileNames
<1>2. files' \in [Names -> FileRow] /\ \A m \in Names \ {n} : files'[m] = files[m]
  BY Zenon DEF ManageTypes
<1>3. /\ ~files'[n].there => ~files'[n].whole /\ files'[n].by = "none"
      /\ files'[n].there => files'[n].data # "none"
  BY SameFiles
<1>4. w.stamp <= now /\ done \subseteq done' /\ done' \subseteq done \cup {r} /\ jobs'[r] = w
  BY DEF Stamps, ManageTypes
<1>5. FileOf(r)' = FileOf(r) /\ (Sole(r)' <=> Sole(r))
  BY <1>4 DEF FileOf, Sole
<1>6. ~At(r, "writing")' /\ (Holds(r)' => Holds(r))
  BY <1>4 DEF At, Holds
<1>7. Owns(r)'
  BY <1>5, <1>6, Zenon DEF Owns, OwnsInv
<1>8. \A q \in Requests \ {r} :
            Sole(q) /\ (At(q, "writing") \/ Holds(q)) /\ FileOf(q) = n => files'[n] = files[n]
  BY Zenon
<1> QED BY <1>2, <1>3, <1>4, <1>7, <1>8, JobStep, Zenon

\* A restore that has its safety copy: the original contents are in a file.
LEMMA SafetyCopy ==
  ASSUME ManageInv, NEW r \in Requests, At(r, "safe") \/ At(r, "restoring")
  PROVE  Saved
<1> USE DEF ManageInv
<1>1. request[r].op = "restore"
  BY DEF JobsInv, At
<1>2. PICK n \in Names : n = FileOf(r) /\ n.dir = "restore"
  BY <1>1, FileNames DEF JobOps
<1>3. Sole(r) /\ Holds(r)
  BY <1>1 DEF Sole, Holds
<1>4. files[n].whole
  BY <1>2, <1>3, Zenon DEF OwnsInv, Owns
<1>5. files[n].there
  BY <1>4, Zenon DEF FilesThere
<1> QED BY <1>2, <1>4, <1>5, Zenon DEF UndoInv, Unused, Saved

LEMMA JobFailsStep ==
  ASSUME ManageInv, NEW r \in Requests, JobFails(r)
  PROVE  ManageInv'
<1> USE DEF ManageInv
<1>1. PICK step \in {"begin", "safe", "restoring"} : At(r, step)
  BY DEF JobFails
<1>2. /\ request[r].op \in JobOps /\ jobs[r] \in JobRow /\ jobs[r].state = "running" /\ jobs[r].step = step
      /\ now \in Nat /\ now <= now
  BY <1>1, RunningJob
<1> DEFINE w == [jobs[r] EXCEPT !.state = "error", !.ended = now]
<1>3. /\ jobs' = [jobs EXCEPT ![r] = w] /\ db' = db
      /\ UNCHANGED <<session, sessions, request, slots, now, audit, files, done>>
  BY Zenon DEF JobFails, JobEnds, jobFrame
<1>4. w \in JobRow /\ w.state = "error" /\ w.ended = now /\ w.stamp = jobs[r].stamp /\ w.step = step
  BY <1>2, EndedRow
<1> HIDE DEF w
<1>5. w.step \in {"safe", "restoring"} => request[r].op = "restore"
  BY <1>2, <1>4 DEF JobsInv
<1>6. UndoInv'
  BY <1>3, Zenon DEF UndoInv, Saved, Unused
<1>7. db' \in {"original", "changed"}
  BY <1>3 DEF ManageTypes
<1>8. w.state # "done" /\ w.state # "running" /\ w.ended <= now
  BY <1>2, <1>4
<1> QED BY <1>2, <1>3, <1>4, <1>5, <1>6, <1>7, <1>8, JobAloneStep, Zenon

LEMMA RestoreBeginsStep ==
  ASSUME ManageInv, NEW r \in Requests, RestoreBegins(r)
  PROVE  ManageInv'
<1> USE DEF ManageInv
<1>1. At(r, "safe")
  BY DEF RestoreBegins
<1>2. /\ request[r].op \in JobOps /\ jobs[r] \in JobRow /\ jobs[r].state = "running" /\ jobs[r].step = "safe"
      /\ jobs[r].ended <= now
  BY <1>1, RunningJob
<1> DEFINE w == [jobs[r] EXCEPT !.step = "restoring"]
<1>3. /\ jobs' = [jobs EXCEPT ![r] = w] /\ db' = "changed"
      /\ UNCHANGED <<session, sessions, request, slots, now, audit, files, done>>
  BY Zenon DEF RestoreBegins, GoesOn, jobFrame
<1>4. w \in JobRow /\ w.state = "running" /\ w.ended = jobs[r].ended /\ w.stamp = jobs[r].stamp /\ w.step = "restoring"
  BY <1>2 DEF JobRow
<1> HIDE DEF w
<1>5. request[r].op = "restore"
  BY <1>2 DEF JobsInv
<1>6. UndoInv'
  BY <1>1, <1>3, SafetyCopy, Zenon DEF UndoInv, Saved
<1>7. db' \in {"original", "changed"} /\ Holds(r) /\ w.step # "writing" /\ w.ended <= now
  BY <1>1, <1>2, <1>3, <1>4 DEF Holds
<1> QED BY <1>2, <1>3, <1>4, <1>5, <1>6, <1>7, JobAloneStep, Zenon

LEMMA RestoreEndsStep ==
  ASSUME ManageInv, NEW r \in Requests, RestoreEnds(r)
  PROVE  ManageInv'
<1> USE DEF ManageInv
<1>1. At(r, "restoring")
  BY DEF RestoreEnds
<1>2. /\ request[r].op \in JobOps /\ jobs[r] \in JobRow /\ jobs[r].state = "running" /\ jobs[r].step = "restoring"
      /\ now \in Nat /\ now <= now
  BY <1>1, RunningJob
<1> DEFINE w == [jobs[r] EXCEPT !.state = "done", !.ended = now]
<1>3. /\ jobs' = [jobs EXCEPT ![r] = w]
      /\ UNCHANGED <<session, sessions, request, slots, now, audit, files, done>>
  BY Zenon DEF RestoreEnds, JobEnds, jobFrame
<1>4. w \in JobRow /\ w.state = "done" /\ w.ended = now /\ w.stamp = jobs[r].stamp /\ w.step = "restoring"
  BY <1>2, EndedRow
<1> HIDE DEF w
<1>5. request[r].op = "restore"
  BY <1>2 DEF JobsInv
<1>6. UndoInv'
  BY <1>1, <1>3, SafetyCopy, Zenon DEF UndoInv, Saved
<1>7. db' \in {"original", "changed"}
  <2>1. \A n \in Names : files[n].whole => files[n].data \in {"original", "changed"}
    <3> SUFFICES ASSUME NEW n \in Names, files[n].whole PROVE files[n].data \in {"original", "changed"}
      BY Zenon
    <3>1. files[n].data # "none"
      BY Zenon DEF FilesThere
    <3>2. files[n].data \in {"none", "original", "changed"}
      BY Zenon DEF ManageTypes, FileRow
    <3> QED BY <3>1, <3>2
  <2>2. db' \in {"changed"} \cup {files[n].data : n \in {m \in Names : files[m].whole /\ m.dir # "archive"}}
    BY Zenon DEF RestoreEnds
  <2>3. db' = "changed" \/ \E n \in Names : files[n].whole /\ db' = files[n].data
    BY <2>2, Zenon
  <2> QED BY <2>1, <2>3, Zenon
<1>8. Holds(r) /\ w.step # "writing" /\ w.ended <= now
  BY <1>1, <1>2, <1>4 DEF Holds
<1> QED BY <1>2, <1>3, <1>4, <1>5, <1>6, <1>7, <1>8, JobAloneStep, Zenon

\* The jobs that are new or forgotten hold no file yet, or none any more.
LEMMA NewJobs ==
  ASSUME ManageInv, UNCHANGED <<sessions, files, db, now, audit, done>>, session' \in 0 .. sessions,
         request' \in [Requests -> ReqRow],
         \A q \in Requests : /\ request'[q].op = request[q].op /\ request'[q].session = request[q].session
                             /\ request'[q].hub = "ok" => request[q].hub = "ok",
         jobs' \in [Requests -> JobRow],
         \A q \in Requests : \/ jobs'[q] = jobs[q]
                             \/ /\ jobs'[q].stamp <= now /\ jobs'[q].ended <= now
                                /\ jobs'[q].state = "none" \/ (jobs'[q].state = "running" /\ request[q].op \in JobOps)
                                /\ jobs'[q].step \in {"none", "begin"},
         SlotsInv'
  PROVE  ManageInv'
<1> USE DEF ManageInv
<1>1. ManageTypes'
  BY DEF ManageTypes
<1>2. Stamps'
  BY DEF Stamps
<1>3. FilesThere' /\ UndoInv'
  BY Zenon DEF FilesThere, UndoInv, Saved, Unused
<1>5. JobsInv'
  BY DEF JobsInv
<1>6. OwnsInv'
  <2> SUFFICES ASSUME NEW q \in Requests PROVE Owns(q)'
    BY Zenon DEF OwnsInv
  <2>1. CASE jobs'[q] = jobs[q]
    <3>1. /\ (Sole(q)' <=> Sole(q)) /\ FileOf(q)' = FileOf(q)
          /\ (At(q, "writing")' <=> At(q, "writing")) /\ (Holds(q)' <=> Holds(q))
      BY <2>1 DEF Sole, FileOf, At, Holds
    <3> HIDE DEF FileOf, At, Holds
    <3> QED BY <3>1, Zenon DEF OwnsInv, Owns
  <2>2. CASE jobs'[q].state \in {"none", "running"} /\ jobs'[q].step \in {"none", "begin"}
    <3>1. ~At(q, "writing")' /\ ~Holds(q)'
      BY <2>2 DEF At, Holds
    <3> QED BY <3>1, Zenon DEF Owns
  <2> QED BY <2>1, <2>2
<1> QED BY <1>1, <1>2, <1>3, <1>5, <1>6

LEMMA StartJobStep ==
  ASSUME ManageInv, NEW r \in Requests, StartJob(r)
  PROVE  ManageInv'
<1> USE DEF ManageInv
<1> DEFINE w == [NoJob EXCEPT !.state = "running", !.step = "begin", !.stamp = now]
<1>1. /\ request[r].at = "running" /\ request[r].op \in JobOps /\ AgentHas(r, "returned", "ok")
      /\ jobs' = [q \in Requests |-> IF q = r THEN w ELSE IF Collected(jobs[q]) THEN NoJob ELSE jobs[q]]
      /\ UNCHANGED <<session, sessions, slots, files, db, now, audit, done>>
  BY DEF StartJob, Running, Returns
<1>2. now \in Nat /\ now <= now /\ 0 <= now /\ session \in 0 .. sessions
  BY BoundsAssumption DEF ManageTypes
<1>3. NoJob \in JobRow /\ NoJob.state = "none" /\ NoJob.step = "none" /\ NoJob.stamp = 0 /\ NoJob.ended = 0
  BY DEF NoJob, JobRow
<1>4. w \in JobRow /\ w.state = "running" /\ w.step = "begin" /\ w.stamp = now /\ w.ended = 0
  BY <1>2 DEF NoJob, JobRow
<1> HIDE DEF w, NoJob
<1>5. jobs' \in [Requests -> JobRow]
  BY <1>1, <1>3, <1>4 DEF ManageTypes
<1>6. \A q \in Requests : \/ jobs'[q] = jobs[q]
                          \/ /\ jobs'[q].stamp <= now /\ jobs'[q].ended <= now
                             /\ jobs'[q].state = "none" \/ (jobs'[q].state = "running" /\ request[q].op \in JobOps)
                             /\ jobs'[q].step \in {"none", "begin"}
  BY <1>1, <1>2, <1>3, <1>4
<1>7. /\ request' \in [Requests -> ReqRow] /\ request'[r].at = "returned"
      /\ \A q \in Requests : /\ request'[q].op = request[q].op /\ request'[q].hub = request[q].hub
                             /\ request'[q].session = request[q].session
                             /\ q # r => request'[q].at = request[q].at
  BY <1>1, AgentRow
<1>8. SlotsInv'
  BY <1>1, <1>7, SameWork
<1> QED BY <1>1, <1>2, <1>5, <1>6, <1>7, <1>8, NewJobs

LEMMA AgentRestartsStep ==
  ASSUME ManageInv, AgentRestarts
  PROVE  ManageInv'
<1> USE DEF ManageInv
<1> DEFINE W(q) == [request[q] EXCEPT !.hub = IF request[q].hub = "waiting" THEN "failed" ELSE request[q].hub,
                                      !.at = IF request[q].at \in {"sent", "running", "returned"} THEN "dropped"
                                             ELSE request[q].at]
<1>1. /\ session' = 0 /\ slots' = 0 /\ jobs' = [q \in Requests |-> NoJob] /\ request' = [q \in Requests |-> W(q)]
      /\ UNCHANGED <<sessions, files, db, now, audit, done>>
  BY DEF AgentRestarts
<1>2. now \in Nat /\ 0 <= now /\ 0 \in 0 .. sessions
  BY BoundsAssumption DEF ManageTypes
<1>3. NoJob \in JobRow /\ NoJob.state = "none" /\ NoJob.step = "none" /\ NoJob.stamp = 0 /\ NoJob.ended = 0
  BY DEF NoJob, JobRow
<1>4. ASSUME NEW q \in Requests
      PROVE  /\ W(q) \in ReqRow /\ W(q).op = request[q].op /\ W(q).session = request[q].session
             /\ W(q).hub = "ok" => request[q].hub = "ok"
             /\ W(q).at \notin {"running", "returned"}
  <2>1. request[q] \in ReqRow
    BY DEF ManageTypes
  <2> QED BY <2>1 DEF ReqRow
<1>5. \A q \in Requests : request'[q] = W(q)
  BY <1>1
<1> HIDE DEF W, NoJob
<1>6. request' \in [Requests -> ReqRow] /\ jobs' \in [Requests -> JobRow] /\ \A q \in Requests : jobs'[q] = NoJob
  BY <1>1, <1>3, <1>4
<1>7. SlotsInv'
  <2>1. AtWork' = {}
    BY <1>4, <1>5 DEF AtWork
  <2>2. Cardinality({}) = 0
    BY FS_EmptySet
  <2> QED BY <1>1, <2>1, <2>2, BoundsAssumption DEF SlotsInv
<1>8. \A q \in Requests : \/ jobs'[q] = jobs[q]
                          \/ /\ jobs'[q].stamp <= now /\ jobs'[q].ended <= now
                             /\ jobs'[q].state = "none" \/ (jobs'[q].state = "running" /\ request[q].op \in JobOps)
                             /\ jobs'[q].step \in {"none", "begin"}
  BY <1>2, <1>3, <1>6
<1> QED BY <1>1, <1>2, <1>4, <1>5, <1>6, <1>7, <1>8, NewJobs

LEMMA ManageInit == Init => ManageInv
<1> SUFFICES ASSUME Init PROVE ManageInv
  OBVIOUS
<1>1. /\ session = 1 /\ sessions = 1 /\ now = 0 /\ slots = 0 /\ db = "original" /\ audit = {} /\ done = {}
      /\ request = [r \in Requests |-> Nobody] /\ jobs = [r \in Requests |-> NoJob]
      /\ files = [n \in Names |-> NoFile]
  BY DEF Init
<1>2. /\ Nobody \in ReqRow /\ Nobody.op = "none" /\ Nobody.at = "idle" /\ Nobody.hub = "idle" /\ Nobody.session = 0
      /\ NoJob \in JobRow /\ NoJob.state = "none" /\ NoJob.stamp = 0 /\ NoJob.ended = 0
  BY DEF Nobody, ReqRow, NoJob, JobRow
<1>3. NoFile \in FileRow /\ NoFile.there = FALSE /\ NoFile.whole = FALSE /\ NoFile.by = "none"
  BY Zenon DEF NoFile, FileRow
<1> HIDE DEF Nobody, NoJob, NoFile
<1>4. files \in [Names -> FileRow] /\ \A n \in Names : files[n] = NoFile
  BY <1>1, <1>3, Zenon
<1>5. ManageTypes
  BY <1>1, <1>2, <1>4, BoundsAssumption DEF ManageTypes
<1>6. Stamps /\ JobsInv
  BY <1>1, <1>2 DEF Stamps, JobsInv, JobOps
<1>7. FilesThere /\ UndoInv
  BY <1>1, <1>3, <1>4, Zenon DEF FilesThere, UndoInv, Unused
<1>8. OwnsInv
  <2>1. \A r \in Requests : ~At(r, "writing") /\ ~Holds(r)
    BY <1>1, <1>2 DEF At, Holds
  <2> QED BY <2>1, Zenon DEF OwnsInv, Owns
<1>9. SlotsInv
  <2>1. AtWork = {}
    BY <1>1, <1>2 DEF AtWork
  <2>2. Cardinality({}) = 0
    BY FS_EmptySet
  <2> QED BY <1>1, <2>1, <2>2, BoundsAssumption DEF SlotsInv
<1> QED BY <1>5, <1>6, <1>7, <1>8, <1>9 DEF ManageInv

LEMMA ManageInductive == ManageInv /\ [Next]_vars => ManageInv'
<1> SUFFICES ASSUME ManageInv, [Next]_vars PROVE ManageInv'
  OBVIOUS
<1>1. CASE \E r \in Requests, op \in Ops : Ask(r, op)
  BY <1>1, AskStep
<1>2. ASSUME NEW r \in Requests,
             Answered(r) \/ TimedOut(r) \/ Receive(r) \/ Carry(r) \/ HandlerFails(r) \/ StartJob(r) \/ Reply(r)
      PROVE  ManageInv'
  <2>1. CASE Answered(r) \/ TimedOut(r)
    BY <2>1, HubSteps
  <2>2. CASE Receive(r)
    BY <2>2, ReceiveStep
  <2>3. CASE Carry(r) \/ HandlerFails(r)
    BY <2>3, HandlerSteps
  <2>4. CASE StartJob(r)
    BY <2>4, StartJobStep
  <2>5. CASE Reply(r)
    BY <2>5, ReplyStep
  <2> QED BY <1>2, <2>1, <2>2, <2>3, <2>4, <2>5
<1>3. ASSUME NEW r \in Requests, Job(r)
      PROVE  ManageInv'
  <2>1. CASE Open(r)
    BY <2>1, OpenStep
  <2>2. CASE OpenFails(r)
    BY <2>2, OpenFailsStep
  <2>3. CASE Written(r)
    BY <2>3, WrittenStep
  <2>4. CASE WriteFails(r)
    BY <2>4, WriteFailsStep
  <2>5. CASE JobFails(r)
    BY <2>5, JobFailsStep
  <2>6. CASE RestoreBegins(r)
    BY <2>6, RestoreBeginsStep
  <2>7. CASE RestoreEnds(r)
    BY <2>7, RestoreEndsStep
  <2> QED BY <1>3, <2>1, <2>2, <2>3, <2>4, <2>5, <2>6, <2>7 DEF Job
<1>4. CASE \E r, q \in Requests : JobStatus(r, q)
  BY <1>4, HandlerSteps
<1>5. CASE Lose
  BY <1>5, LoseStep
<1>6. CASE Connect \/ Clock \/ UNCHANGED vars
  BY <1>6, OutsideSteps
<1>7. CASE AgentRestarts
  BY <1>7, AgentRestartsStep
<1> QED BY <1>1, <1>2, <1>3, <1>4, <1>5, <1>6, <1>7 DEF Next

LEMMA ManageAlways == Spec => []ManageInv
<1> QED BY ManageInit, ManageInductive, PTL DEF Spec

\* For any number of requests, slots, time-outs, lost connections, panics and
\* restarts, the slots taken in link.go are those of the requests at work, and
\* never more than there are.
THEOREM SlotsStayAccounted == Spec => []SlotsAccounted
<1>1. ManageInv => SlotsAccounted
  <2> SUFFICES ASSUME ManageInv PROVE SlotsAccounted
    OBVIOUS
  <2> USE DEF ManageInv
  <2>1. /\ session \in 0 .. sessions /\ sessions \in 1 .. MaxSessions /\ now \in 0 .. MaxNow
        /\ db \in {"original", "changed"} /\ audit \subseteq Requests /\ done \subseteq Requests
        /\ sessions \in Nat /\ now \in Nat
    BY BoundsAssumption DEF ManageTypes
  <2>2. ASSUME NEW r \in Requests
        PROVE  /\ request[r].op \in Ops \cup {"none"} /\ request[r].session \in 0 .. sessions
               /\ request[r].at \in {"idle", "sent", "running", "returned", "replied", "dropped"}
               /\ request[r].hub \in {"idle", "waiting", "ok", "error", "failed"}
               /\ request[r].res \in {"none", "ok", "error", "busy"}
               /\ jobs[r].state \in {"none", "running", "done", "error"}
               /\ jobs[r].step \in {"none", "begin", "writing", "safe", "restoring"}
               /\ jobs[r].stamp \in 0 .. now /\ jobs[r].ended \in 0 .. now
    <3>1. request[r] \in ReqRow /\ jobs[r] \in JobRow
      BY DEF ManageTypes
    <3>2. request[r].session <= sessions /\ jobs[r].stamp <= now /\ jobs[r].ended <= now
      BY DEF Stamps
    <3> QED BY <2>1, <3>1, <3>2 DEF ReqRow, JobRow
  <2>3. \A n \in Names : files[n].whole => files[n].there
    BY Zenon DEF FilesThere
  <2>4. slots = Cardinality(AtWork) /\ slots \in 0 .. MaxSlots
    BY WorkFinite, BoundsAssumption DEF SlotsInv
  <2>5. TypeOK
    BY <2>1, <2>2, <2>3, <2>4 DEF TypeOK
  <2> QED BY <2>4, <2>5 DEF SlotsAccounted, AtWork
<1> QED BY <1>1, ManageAlways, PTL

\* For any number of dumps, restores and archives at a time: a restore can be
\* undone, and what a job reported as done is whole.
THEOREM FilesStayWhole == Spec => []FilesWhole
<1>1. ManageInv => FilesWhole
  <2> SUFFICES ASSUME ManageInv PROVE FilesWhole
    OBVIOUS
  <2>1. \/ db = "original"
        \/ \E n \in Names : n.dir = "restore" /\ files[n].whole /\ files[n].data = "original"
    BY Zenon DEF ManageInv, UndoInv, Saved, Unused
  <2>2. ASSUME NEW r \in Requests, jobs[r].state = "done",
               request[r].op = "archive" => \A q \in Requests \ {r} : request[q].op # "archive"
        PROVE  files[FileOf(r)].whole /\ files[FileOf(r)].by = r
    <3>1. Sole(r) /\ Holds(r)
      BY <2>2, Zenon DEF Sole, Holds
    <3> QED BY <3>1, Zenon DEF ManageInv, OwnsInv, Owns
  <2> QED BY <2>1, <2>2, Zenon DEF FilesWhole
<1> QED BY <1>1, ManageAlways, PTL

-----------------------------------------------------------------------------
(***************************************************************************)
(* URL checks (Checks). That an alert follows the probes rests on how the  *)
(* count of an entry relates to the failures that were evaluated: it is    *)
(* never ahead of them, and an open alert has both at the threshold, so    *)
(* that one more failure cannot end it. While run_due looks at a           *)
(* certificate the entry is one result ahead, and it may have left _state. *)
(***************************************************************************)
Result == [id : CheckIds, kind : Kinds, ok : BOOLEAN]
Looking(c) == place = "cert" /\ Head(round).id = c
HeldEntry == IF attached THEN st[Head(round).id] ELSE held

ResultsIn == place \in {"applying", "cert"} => round \in Seq(Result)

OpenFailed == \A c \in open : streak[c] = Threshold

CountsFollow ==
    \A c \in CheckIds : st[c] # Nil /\ ~Looking(c) =>
        st[c].fails <= streak[c] /\ (c \in open => st[c].fails = Threshold)

\* What the entry e says once the result ok of c is counted in it.
OneAhead(c, e, ok) ==
    IF ok THEN e.fails = 0
    ELSE e.fails <= streak[c] + 1 /\ (c \in open => e.fails = Threshold)

HeldFollows ==
    place = "cert" => /\ OneAhead(Head(round).id, HeldEntry, Head(round).ok)
                      /\ ~attached => st[Head(round).id] = Nil

ChecksInv == ChecksTyped /\ ResultsIn /\ OpenFailed /\ CountsFollow /\ HeldFollows

LEMMA ChecksFacts == ASSUME ChecksInv
  PROVE  /\ ChecksTyped /\ ResultsIn /\ OpenFailed /\ CountsFollow /\ HeldFollows
         /\ Threshold \in Nat /\ Threshold > 0
  BY ChecksAssumption DEF ChecksInv

LEMMA SeqOfMap == ASSUME NEW S, NEW n \in Nat, NEW f \in [1 .. n -> S] PROVE f \in Seq(S)
  OBVIOUS

LEMMA SeqAt == ASSUME NEW S, NEW q \in Seq(S), NEW i \in 1 .. Len(q) PROVE q[i] \in S
  OBVIOUS

LEMMA SeqWider == ASSUME NEW S, NEW T, S \subseteq T, NEW q \in Seq(S) PROVE q \in Seq(T)
<1>1. q \in [1 .. Len(q) -> T] /\ Len(q) \in Nat
  OBVIOUS
<1> QED BY <1>1, SeqOfMap

LEMMA SeqRest ==
  ASSUME NEW S, NEW q \in Seq(S), q # <<>>
  PROVE  Tail(q) \in Seq(S) /\ (Tail(q) = <<>> <=> Len(q) = 1)
<1>1. Len(q) \in Nat /\ Len(q) > 0 /\ Tail(q) \in Seq(S) /\ Len(Tail(q)) = Len(q) - 1
  OBVIOUS
<1>2. Tail(q) = <<>> <=> Len(Tail(q)) = 0
  BY <1>1
<1> QED BY <1>1, <1>2

LEMMA ResultsWider == Result \subseteq [id : CheckIds, kind : Kinds, ok : BOOLEAN \cup {Nil}]
  BY DEF Result

\* The result run_due takes up next.
LEMMA HeadResult ==
  ASSUME ChecksInv, place \in {"applying", "cert"}
  PROVE  /\ round \in Seq(Result) /\ round # <<>> /\ Head(round) \in Result
         /\ Head(round).id \in CheckIds /\ Head(round).ok \in BOOLEAN
<1>1. round \in Seq(Result) /\ round # <<>>
  BY ChecksFacts DEF ResultsIn, ChecksTyped
<1>2. Head(round) \in Result
  BY <1>1
<1> QED BY <1>1, <1>2 DEF Result

\* One result more, counted in an entry that agrees with the results before.
LEMMA CountedAhead ==
  ASSUME ChecksInv, NEW c \in CheckIds, NEW ok \in BOOLEAN, NEW e \in Entry,
         e.fails <= streak[c], c \in open => e.fails = Threshold
  PROVE  Counted(e, ok) \in Entry /\ OneAhead(c, Counted(e, ok), ok)
<1>1. e.fails \in 0 .. Threshold /\ streak[c] \in 0 .. Threshold /\ Threshold \in Nat
  BY ChecksFacts DEF Entry, ChecksTyped
<1> DEFINE n == IF ok THEN 0 ELSE IF e.fails = Threshold THEN e.fails ELSE e.fails + 1
<1>2. Counted(e, ok) = [e EXCEPT !.due = FALSE, !.fails = n]
  BY DEF Counted
<1>3. n \in 0 .. Threshold
  BY <1>1
<1>4. /\ ok => n = 0
      /\ ~ok => n <= streak[c] + 1 /\ (c \in open => n = Threshold)
  BY <1>1
<1> HIDE DEF n
<1>5. Counted(e, ok) \in Entry /\ Counted(e, ok).fails = n
  BY <1>2, <1>3 DEF Entry
<1> QED BY <1>4, <1>5 DEF OneAhead

LEMMA NewEntryAgrees ==
  ASSUME ChecksInv, NEW c \in CheckIds
  PROVE  /\ NewEntry(c) \in Entry /\ NewEntry(c).fails <= streak[c]
         /\ c \in open => NewEntry(c).fails = Threshold
<1>1. streak[c] \in 0 .. Threshold /\ Threshold \in Nat /\ (c \in open => streak[c] = Threshold)
  BY ChecksFacts DEF OpenFailed, ChecksTyped
<1> QED BY <1>1 DEF NewEntry, Entry

\* What evaluate_check does with an entry that is one result ahead.
LEMMA EvaluateFollows ==
  ASSUME ChecksInv, NEW c \in CheckIds, NEW e \in Entry, NEW ok \in BOOLEAN,
         OneAhead(c, e, ok), Evaluate(c, e, ok)
  PROVE  /\ open' \subseteq CheckIds /\ streak' \in [CheckIds -> 0 .. Threshold]
         /\ OpenFailed'
         /\ e.fails <= streak'[c] /\ (c \in open' => e.fails = Threshold)
         /\ \A d \in CheckIds : d # c => streak'[d] = streak[d] /\ (d \in open' <=> d \in open)
         /\ c \notin open /\ c \in open' => streak'[c] = Threshold
         /\ c \in open /\ c \notin open' => streak'[c] = 0
<1>1. /\ e.fails \in 0 .. Threshold /\ Threshold \in Nat /\ Threshold > 0
      /\ streak \in [CheckIds -> 0 .. Threshold] /\ streak[c] \in 0 .. Threshold
      /\ open \subseteq CheckIds
  BY ChecksFacts DEF Entry, ChecksTyped
<1> DEFINE n == IF ok THEN 0 ELSE IF streak[c] = Threshold THEN streak[c] ELSE streak[c] + 1
<1>2. /\ streak' = [streak EXCEPT ![c] = n]
      /\ open' = IF e.fails >= Threshold THEN open \cup {c} ELSE open \ {c}
  BY DEF Evaluate
<1>3. n \in 0 .. Threshold /\ (ok => n = 0)
  BY <1>1
<1>4. /\ e.fails <= n
      /\ e.fails >= Threshold => ~ok /\ n = Threshold /\ e.fails = Threshold
      /\ c \in open /\ e.fails < Threshold => n = 0
  BY <1>1 DEF OneAhead
<1> HIDE DEF n
<1>5. streak'[c] = n /\ \A d \in CheckIds : d # c => streak'[d] = streak[d]
  BY <1>1, <1>2
<1>6. streak' \in [CheckIds -> 0 .. Threshold] /\ open' \subseteq CheckIds
  BY <1>1, <1>2, <1>3
<1>7. /\ c \in open' <=> e.fails >= Threshold
      /\ \A d \in CheckIds : d # c => (d \in open' <=> d \in open)
  BY <1>2
<1>8. OpenFailed'
  <2> SUFFICES ASSUME NEW d \in open' PROVE streak'[d] = Threshold
    BY DEF OpenFailed
  <2>1. CASE d = c
    BY <1>4, <1>5, <1>7, <2>1
  <2>2. CASE d # c
    <3>1. d \in CheckIds /\ d \in open
      BY <1>6, <1>7, <2>2
    <3> QED BY <1>5, <2>2, <3>1, ChecksFacts DEF OpenFailed
  <2> QED BY <2>1, <2>2
<1>9. c \in open /\ c \notin open' => streak'[c] = 0
  BY <1>1, <1>4, <1>5, <1>7
<1> QED BY <1>1, <1>4, <1>5, <1>6, <1>7, <1>8, <1>9

\* The results that are left.
LEMMA ProceedTypes ==
  ASSUME ChecksInv, place \in {"applying", "cert"}, Proceed
  PROVE  /\ round' \in Seq(Result)
         /\ round' \in Seq([id : CheckIds, kind : Kinds, ok : BOOLEAN \cup {Nil}])
         /\ place' \in {"sleep", "applying"} /\ (place' = "sleep" <=> round' = <<>>)
<1>1. round \in Seq(Result) /\ round # <<>>
  BY HeadResult
<1>2. round' = Tail(round) /\ place' = IF Len(round) = 1 THEN "sleep" ELSE "applying"
  BY DEF Proceed
<1>3. round' \in Seq(Result) /\ (round' = <<>> <=> Len(round) = 1)
  BY <1>1, <1>2, SeqRest
<1>5. round' \in Seq([id : CheckIds, kind : Kinds, ok : BOOLEAN \cup {Nil}])
  BY <1>3, ResultsWider, SeqWider
<1> QED BY <1>2, <1>3, <1>5

\* The entry of a check and its alert go together (forget).
LEMMA ForgetStep ==
  ASSUME ChecksInv, NEW c \in CheckIds, NEW r \in {Nil} \cup Kinds, Forget(c),
         rows' = [rows EXCEPT ![c] = r], UNCHANGED <<round, place, streak, restarts>>
  PROVE  ChecksInv'
<1>1. /\ st \in [CheckIds -> {Nil} \cup Entry] /\ st' = [st EXCEPT ![c] = Nil]
      /\ open' = open \ {c}
  BY ChecksFacts DEF Forget, ChecksTyped
<1>2. st'[c] = Nil /\ \A d \in CheckIds : d # c => st'[d] = st[d]
  BY <1>1
<1>3. CASE place = "cert" /\ Head(round).id = c /\ attached
  <2>1. held' = st[c] /\ attached' = FALSE
    BY <1>3 DEF Forget
  <2>2. st[c] # Nil /\ st[c] \in Entry
    BY <1>1, <1>3, ChecksFacts DEF ChecksTyped
  <2>3. ChecksTyped'
    BY <1>1, <1>3, <2>1, <2>2, ChecksFacts DEF ChecksTyped
  <2>4. HeldEntry' = HeldEntry
    BY <1>3, <2>1 DEF HeldEntry
  <2>5. HeldFollows'
    BY <1>1, <1>2, <1>3, <2>4, ChecksFacts DEF HeldFollows, OneAhead
  <2>6. ResultsIn' /\ OpenFailed'
    BY <1>1, ChecksFacts DEF ResultsIn, OpenFailed
  <2>7. CountsFollow'
    BY <1>1, <1>2, ChecksFacts DEF CountsFollow, Looking
  <2> QED BY <2>3, <2>5, <2>6, <2>7 DEF ChecksInv
<1>4. CASE ~(place = "cert" /\ Head(round).id = c /\ attached)
  <2>1. UNCHANGED <<held, attached>>
    BY <1>4 DEF Forget
  <2>2. place = "cert" /\ attached => Head(round).id # c /\ Head(round).id \in CheckIds
    BY <1>4, HeadResult
  <2>3. ChecksTyped'
    BY <1>1, <1>2, <2>1, <2>2, ChecksFacts DEF ChecksTyped
  <2>4. place = "cert" => HeldEntry' = HeldEntry /\ (~attached => st'[Head(round).id] = Nil)
    <3> SUFFICES ASSUME place = "cert"
                 PROVE  HeldEntry' = HeldEntry /\ (~attached => st'[Head(round).id] = Nil)
      OBVIOUS
    <3>1. Head(round).id \in CheckIds
      BY HeadResult
    <3>2. ~attached => st[Head(round).id] = Nil
      BY ChecksFacts DEF HeldFollows
    <3> QED BY <1>2, <2>1, <2>2, <3>1, <3>2 DEF HeldEntry
  <2>5. HeldFollows'
    BY <1>1, <2>1, <2>4, ChecksFacts DEF HeldFollows, OneAhead
  <2>6. ResultsIn' /\ OpenFailed'
    BY <1>1, ChecksFacts DEF ResultsIn, OpenFailed
  <2>7. CountsFollow'
    BY <1>1, <1>2, ChecksFacts DEF CountsFollow, Looking
  <2> QED BY <2>3, <2>5, <2>6, <2>7 DEF ChecksInv
<1> QED BY <1>3, <1>4

\* An edit and the clock change neither the presence nor the count of an
\* entry.
LEMMA SameCounts ==
  ASSUME ChecksInv, UNCHANGED <<round, place, held, attached, open, streak, restarts>>,
         rows' \in [CheckIds -> {Nil} \cup Kinds], st' \in [CheckIds -> {Nil} \cup Entry],
         \A c \in CheckIds : /\ st'[c] = Nil <=> st[c] = Nil
                             /\ st[c] # Nil => st'[c].fails = st[c].fails
  PROVE  ChecksInv'
<1>1. place = "cert" => Head(round).id \in CheckIds
  BY HeadResult
<1>2. ChecksTyped'
  BY <1>1, ChecksFacts DEF ChecksTyped
<1>3. ResultsIn' /\ OpenFailed'
  BY ChecksFacts DEF ResultsIn, OpenFailed
<1>4. CountsFollow'
  BY ChecksFacts DEF CountsFollow, Looking
<1>5. place = "cert" => HeldEntry'.fails = HeldEntry.fails
  BY <1>1, ChecksFacts DEF HeldEntry, ChecksTyped
<1>6. HeldFollows'
  BY <1>1, <1>5, ChecksFacts DEF HeldFollows, OneAhead
<1> QED BY <1>2, <1>3, <1>4, <1>6 DEF ChecksInv

LEMMA AdminStep == ASSUME ChecksInv, Admin PROVE ChecksInv'
<1>0. rows \in [CheckIds -> {Nil} \cup Kinds] /\ st \in [CheckIds -> {Nil} \cup Entry]
  BY ChecksFacts DEF ChecksTyped
<1>1. PICK c \in CheckIds : \/ Delete(c) \/ Disable(c)
                            \/ \E kind \in Kinds : Add(c, kind) \/ Edit(c, kind)
  BY DEF Admin
<1>2. CASE Delete(c)
  BY <1>2, ForgetStep DEF Delete
<1>3. CASE Disable(c)
  <2>1. "disabled" \in {Nil} \cup Kinds
    BY DEF Kinds
  <2> QED BY <1>3, <2>1, ForgetStep DEF Disable
<1>4. CASE \E kind \in Kinds : Add(c, kind)
  BY <1>0, <1>4, SameCounts DEF Add
<1>5. ASSUME NEW kind \in Kinds, Edit(c, kind) PROVE ChecksInv'
  <2> DEFINE e == IF st[c] = Nil THEN Nil ELSE [st[c] EXCEPT !.due = TRUE, !.look = TRUE]
  <2>1. st' = [st EXCEPT ![c] = e] /\ rows' = [rows EXCEPT ![c] = kind]
    BY <1>5 DEF Edit
  <2>2. /\ e \in {Nil} \cup Entry /\ (e = Nil <=> st[c] = Nil)
        /\ st[c] # Nil => e.fails = st[c].fails
    <3>1. CASE st[c] = Nil
      BY <3>1
    <3>2. CASE st[c] # Nil
      <4>1. st[c] \in Entry
        BY <1>0, <3>2
      <4>2. [st[c] EXCEPT !.due = TRUE, !.look = TRUE] \in Entry
        BY <4>1 DEF Entry
      <4>3. [st[c] EXCEPT !.due = TRUE, !.look = TRUE].fails = st[c].fails
        BY <4>1 DEF Entry
      <4> QED BY <3>2, <4>2, <4>3, NilIsNoEntry
    <3> QED BY <3>1, <3>2
  <2> HIDE DEF e
  <2>3. /\ st' \in [CheckIds -> {Nil} \cup Entry]
        /\ \A d \in CheckIds : /\ st'[d] = Nil <=> st[d] = Nil
                               /\ st[d] # Nil => st'[d].fails = st[d].fails
    BY <1>0, <2>1, <2>2
  <2>4. rows' \in [CheckIds -> {Nil} \cup Kinds]
    BY <1>0, <2>1
  <2> QED BY <1>5, <2>3, <2>4, SameCounts DEF Edit
<1> QED BY <1>1, <1>2, <1>3, <1>4, <1>5

LEMMA TimePassesStep == ASSUME ChecksInv, NEW c \in CheckIds, TimePasses(c) PROVE ChecksInv'
<1>1. rows \in [CheckIds -> {Nil} \cup Kinds] /\ st \in [CheckIds -> {Nil} \cup Entry] /\ st[c] \in Entry
  BY ChecksFacts DEF ChecksTyped, TimePasses
<1>2. PICK e \in Entry : st' = [st EXCEPT ![c] = e] /\ e.fails = st[c].fails
  <2>1. CASE st' = [st EXCEPT ![c].due = TRUE]
    <3>1. [st[c] EXCEPT !.due = TRUE] \in Entry /\ [st[c] EXCEPT !.due = TRUE].fails = st[c].fails
      BY <1>1 DEF Entry
    <3>2. st' = [st EXCEPT ![c] = [st[c] EXCEPT !.due = TRUE]]
      BY <2>1
    <3> QED BY <3>1, <3>2
  <2>2. CASE st' = [st EXCEPT ![c].look = TRUE]
    <3>1. [st[c] EXCEPT !.look = TRUE] \in Entry /\ [st[c] EXCEPT !.look = TRUE].fails = st[c].fails
      BY <1>1 DEF Entry
    <3>2. st' = [st EXCEPT ![c] = [st[c] EXCEPT !.look = TRUE]]
      BY <2>2
    <3> QED BY <3>1, <3>2
  <2> QED BY <2>1, <2>2 DEF TimePasses
<1>3. /\ st' \in [CheckIds -> {Nil} \cup Entry]
      /\ \A d \in CheckIds : /\ st'[d] = Nil <=> st[d] = Nil
                             /\ st[d] # Nil => st'[d].fails = st[d].fails
  BY <1>1, <1>2, NilIsNoEntry
<1> QED BY <1>1, <1>3, SameCounts DEF TimePasses

LEMMA StartStep == ASSUME ChecksInv, Start PROVE ChecksInv'
<1>1. /\ place = "sleep" /\ DueIds # {} /\ place' = "probing"
      /\ UNCHANGED <<rows, st, held, attached, open, streak, restarts>>
  BY DEF Start
<1>2. PICK ids \in SetToSeqs(DueIds) :
         round' = [i \in DOMAIN ids |-> [id |-> ids[i], kind |-> rows[ids[i]], ok |-> Nil]]
  BY DEF Start
<1> DEFINE n == Cardinality(DueIds)
<1>3. n \in Nat /\ n > 0
  <2>1. IsFiniteSet(CheckIds)
    BY FS_Interval, ChecksAssumption DEF CheckIds
  <2>2. IsFiniteSet(DueIds)
    BY <2>1, FS_Subset DEF DueIds
  <2> QED BY <1>1, <2>2, FS_CardinalityType, FS_EmptySet
<1>4. ids \in [1 .. n -> DueIds]
  BY <1>2 DEF SetToSeqs
<1> HIDE DEF n
<1>5. \A c \in DueIds : c \in CheckIds /\ rows[c] \in Kinds
  BY ChecksFacts DEF DueIds, Due, Enabled, Exists, ChecksTyped
<1>6. /\ DOMAIN round' = 1 .. n
      /\ \A i \in 1 .. n : round'[i] \in [id : CheckIds, kind : Kinds, ok : BOOLEAN \cup {Nil}]
  BY <1>2, <1>4, <1>5
<1>7. round' \in Seq([id : CheckIds, kind : Kinds, ok : BOOLEAN \cup {Nil}])
  <2>1. round' \in [1 .. n -> [id : CheckIds, kind : Kinds, ok : BOOLEAN \cup {Nil}]]
    BY <1>2, <1>6
  <2> QED BY <1>3, <2>1, SeqOfMap
<1>8. round' # <<>>
  BY <1>3, <1>6
<1>9. ChecksTyped'
  BY <1>1, <1>7, <1>8, ChecksFacts DEF ChecksTyped
<1>10. ResultsIn' /\ OpenFailed' /\ HeldFollows' /\ CountsFollow'
  BY <1>1, ChecksFacts DEF ResultsIn, OpenFailed, HeldFollows, CountsFollow, Looking
<1> QED BY <1>9, <1>10 DEF ChecksInv

LEMMA ProbedStep ==
  ASSUME ChecksInv, NEW ok \in [CheckIds -> BOOLEAN], Probed(ok)
  PROVE  ChecksInv'
<1>1. /\ place = "probing" /\ place' = "applying"
      /\ round' = [i \in DOMAIN round |-> [round[i] EXCEPT !.ok = ok[round[i].id]]]
      /\ UNCHANGED <<rows, st, held, attached, open, streak, restarts>>
  BY DEF Probed
<1>2. round \in Seq([id : CheckIds, kind : Kinds, ok : BOOLEAN \cup {Nil}]) /\ round # <<>>
  BY <1>1, ChecksFacts DEF ChecksTyped
<1> DEFINE n == Len(round)
<1>3. n \in Nat /\ DOMAIN round = 1 .. n /\ n > 0
  BY <1>2
<1>4. \A i \in 1 .. n : round[i] \in [id : CheckIds, kind : Kinds, ok : BOOLEAN \cup {Nil}]
  BY <1>2, <1>3, SeqAt
<1> HIDE DEF n
<1>5. \A i \in 1 .. n : [round[i] EXCEPT !.ok = ok[round[i].id]] \in Result
  BY <1>4 DEF Result
<1>6. round' \in [1 .. n -> Result]
  BY <1>1, <1>3, <1>5
<1>7. round' \in Seq(Result) /\ round' # <<>>
  BY <1>3, <1>6, SeqOfMap
<1>8. round' \in Seq([id : CheckIds, kind : Kinds, ok : BOOLEAN \cup {Nil}])
  BY <1>7, ResultsWider, SeqWider
<1>9. ChecksTyped'
  BY <1>1, <1>7, <1>8, ChecksFacts DEF ChecksTyped
<1>10. ResultsIn' /\ OpenFailed' /\ HeldFollows' /\ CountsFollow'
  BY <1>1, <1>7, ChecksFacts DEF ResultsIn, OpenFailed, HeldFollows, CountsFollow, Looking
<1> QED BY <1>9, <1>10 DEF ChecksInv

\* The entry a result is counted in agrees with the results before it.
LEMMA AppliedEntry ==
  ASSUME ChecksInv, place = "applying", NEW c \in CheckIds, c = Head(round).id
  PROVE  LET e == IF st[c] = Nil THEN NewEntry(c) ELSE st[c]
         IN /\ Counted(e, Head(round).ok) \in Entry
            /\ OneAhead(c, Counted(e, Head(round).ok), Head(round).ok)
<1> DEFINE e == IF st[c] = Nil THEN NewEntry(c) ELSE st[c]
<1>1. e \in Entry /\ e.fails <= streak[c] /\ (c \in open => e.fails = Threshold)
  <2>1. CASE st[c] = Nil
    BY <2>1, NewEntryAgrees
  <2>2. CASE st[c] # Nil
    <3>1. ~Looking(c)
      BY DEF Looking
    <3>2. st[c] \in Entry
      BY <2>2, ChecksFacts DEF ChecksTyped
    <3>3. st[c].fails <= streak[c] /\ (c \in open => st[c].fails = Threshold)
      BY <2>2, <3>1, ChecksFacts DEF CountsFollow
    <3> QED BY <2>2, <3>2, <3>3
  <2> QED BY <2>1, <2>2
<1>2. Head(round).ok \in BOOLEAN
  BY HeadResult
<1> HIDE DEF e
<1>3. Counted(e, Head(round).ok) \in Entry /\ OneAhead(c, Counted(e, Head(round).ok), Head(round).ok)
  BY <1>1, <1>2, CountedAhead
<1> QED BY <1>3 DEF e

\* What a step may do to the alert on c.
Follows(c) ==
    /\ c \notin open /\ c \in open' => streak'[c] = Threshold
    /\ c \in open /\ c \notin open' => ~Enabled(c)' \/ streak'[c] = 0

LEMMA ApplyStep == ASSUME ChecksInv, Apply PROVE ChecksInv' /\ \A d \in CheckIds : Follows(d)
<1> DEFINE b == Head(round)
           c == b.id
           e == Counted(IF st[c] = Nil THEN NewEntry(c) ELSE st[c], b.ok)
<1>1. place = "applying" /\ UNCHANGED <<rows, held, restarts>>
  BY DEF Apply
<1>2. c \in CheckIds /\ b.ok \in BOOLEAN /\ round # <<>> /\ round \in Seq(Result)
  BY <1>1, HeadResult
<1>3. e \in Entry /\ OneAhead(c, e, b.ok)
  BY <1>1, <1>2, AppliedEntry
<1>4. st \in [CheckIds -> {Nil} \cup Entry]
  BY ChecksFacts DEF ChecksTyped
<1>5. \/ /\ st' = [st EXCEPT ![c] = [e EXCEPT !.look = FALSE]]
         /\ place' = "cert" /\ attached' = TRUE
         /\ UNCHANGED <<round, open, streak>>
      \/ /\ st' = [st EXCEPT ![c] = e]
         /\ Evaluate(c, e, b.ok) /\ Proceed /\ UNCHANGED attached
  BY DEF Apply
<1> HIDE DEF e
<1>6. CASE /\ st' = [st EXCEPT ![c] = [e EXCEPT !.look = FALSE]]
           /\ place' = "cert" /\ attached' = TRUE
           /\ UNCHANGED <<round, open, streak>>
  <2>1. [e EXCEPT !.look = FALSE] \in Entry /\ [e EXCEPT !.look = FALSE].fails = e.fails
    BY <1>3 DEF Entry
  <2>2. /\ st' \in [CheckIds -> {Nil} \cup Entry] /\ st'[c] \in Entry /\ st'[c].fails = e.fails
        /\ \A d \in CheckIds : d # c => st'[d] = st[d]
    BY <1>2, <1>4, <1>6, <2>1
  <2>3. ChecksTyped'
    BY <1>1, <1>2, <1>6, <2>2, NilIsNoEntry, ChecksFacts DEF ChecksTyped
  <2>4. ResultsIn' /\ OpenFailed'
    BY <1>2, <1>6, ChecksFacts DEF ResultsIn, OpenFailed
  <2>5. CountsFollow'
    <3> SUFFICES ASSUME NEW d \in CheckIds, st'[d] # Nil, ~Looking(d)'
                 PROVE  st'[d].fails <= streak[d] /\ (d \in open => st'[d].fails = Threshold)
      BY <1>6 DEF CountsFollow
    <3>1. d # c
      BY <1>6 DEF Looking
    <3>2. st'[d] = st[d] /\ ~Looking(d)
      BY <1>1, <2>2, <3>1 DEF Looking
    <3> QED BY <3>2, ChecksFacts DEF CountsFollow
  <2>6. HeldEntry' = st'[c]
    BY <1>6 DEF HeldEntry
  <2>7. HeldFollows'
    BY <1>3, <1>6, <2>2, <2>6 DEF HeldFollows, OneAhead
  <2>8. \A d \in CheckIds : Follows(d)
    BY <1>6 DEF Follows
  <2> QED BY <2>3, <2>4, <2>5, <2>7, <2>8 DEF ChecksInv
<1>7. CASE /\ st' = [st EXCEPT ![c] = e]
           /\ Evaluate(c, e, b.ok) /\ Proceed /\ UNCHANGED attached
  <2>1. /\ st' \in [CheckIds -> {Nil} \cup Entry] /\ st'[c] = e
        /\ \A d \in CheckIds : d # c => st'[d] = st[d]
    BY <1>2, <1>3, <1>4, <1>7
  <2>2. /\ open' \subseteq CheckIds /\ streak' \in [CheckIds -> 0 .. Threshold]
        /\ OpenFailed'
        /\ e.fails <= streak'[c] /\ (c \in open' => e.fails = Threshold)
        /\ \A d \in CheckIds : d # c => streak'[d] = streak[d] /\ (d \in open' <=> d \in open)
        /\ c \notin open /\ c \in open' => streak'[c] = Threshold
        /\ c \in open /\ c \notin open' => streak'[c] = 0
    BY <1>2, <1>3, <1>7, EvaluateFollows
  <2>3. /\ round' \in Seq(Result)
        /\ round' \in Seq([id : CheckIds, kind : Kinds, ok : BOOLEAN \cup {Nil}])
        /\ place' \in {"sleep", "applying"} /\ (place' = "sleep" <=> round' = <<>>)
    BY <1>1, <1>7, ProceedTypes
  <2>4. ChecksTyped'
    BY <1>1, <1>7, <2>1, <2>2, <2>3, ChecksFacts DEF ChecksTyped
  <2>5. ResultsIn' /\ HeldFollows'
    BY <2>3 DEF ResultsIn, HeldFollows
  <2>6. CountsFollow'
    <3> SUFFICES ASSUME NEW d \in CheckIds, st'[d] # Nil
                 PROVE  st'[d].fails <= streak'[d] /\ (d \in open' => st'[d].fails = Threshold)
      BY DEF CountsFollow
    <3>1. CASE d = c
      BY <2>1, <2>2, <3>1
    <3>2. CASE d # c
      <4>1. st'[d] = st[d] /\ ~Looking(d) /\ streak'[d] = streak[d] /\ (d \in open' <=> d \in open)
        BY <1>1, <2>1, <2>2, <3>2 DEF Looking
      <4> QED BY <4>1, ChecksFacts DEF CountsFollow
    <3> QED BY <3>1, <3>2
  <2>7. \A d \in CheckIds : Follows(d)
    BY <2>2 DEF Follows
  <2> QED BY <2>2, <2>4, <2>5, <2>6, <2>7 DEF ChecksInv
<1> QED BY <1>5, <1>6, <1>7

LEMMA CertLookedStep ==
  ASSUME ChecksInv, CertLooked
  PROVE  ChecksInv' /\ \A d \in CheckIds : Follows(d)
<1> DEFINE b == Head(round)
           c == b.id
           e == IF attached THEN st[c] ELSE held
<1>1. /\ place = "cert" /\ Evaluate(c, e, b.ok) /\ Proceed
      /\ held' = Nil /\ attached' = FALSE /\ UNCHANGED <<rows, st, restarts>>
  BY DEF CertLooked
<1>2. c \in CheckIds /\ b.ok \in BOOLEAN /\ round # <<>>
  BY <1>1, HeadResult
<1>3. e \in Entry
  BY <1>1, <1>2, ChecksFacts DEF ChecksTyped
<1>4. OneAhead(c, e, b.ok) /\ (~attached => st[c] = Nil)
  BY <1>1, ChecksFacts DEF HeldFollows, HeldEntry
<1>5. attached => e = st[c]
  OBVIOUS
<1> HIDE DEF e
<1>6. /\ open' \subseteq CheckIds /\ streak' \in [CheckIds -> 0 .. Threshold]
      /\ OpenFailed'
      /\ e.fails <= streak'[c] /\ (c \in open' => e.fails = Threshold)
      /\ \A d \in CheckIds : d # c => streak'[d] = streak[d] /\ (d \in open' <=> d \in open)
      /\ c \notin open /\ c \in open' => streak'[c] = Threshold
      /\ c \in open /\ c \notin open' => streak'[c] = 0
  BY <1>1, <1>2, <1>3, <1>4, EvaluateFollows
<1>7. /\ round' \in Seq(Result)
      /\ round' \in Seq([id : CheckIds, kind : Kinds, ok : BOOLEAN \cup {Nil}])
      /\ place' \in {"sleep", "applying"} /\ (place' = "sleep" <=> round' = <<>>)
  BY <1>1, ProceedTypes
<1>8. ChecksTyped'
  BY <1>1, <1>6, <1>7, ChecksFacts DEF ChecksTyped
<1>9. ResultsIn' /\ HeldFollows'
  BY <1>7 DEF ResultsIn, HeldFollows
<1>10. CountsFollow'
  <2> SUFFICES ASSUME NEW d \in CheckIds, st[d] # Nil
               PROVE  st[d].fails <= streak'[d] /\ (d \in open' => st[d].fails = Threshold)
    BY <1>1 DEF CountsFollow
  <2>1. CASE d = c
    BY <1>4, <1>5, <1>6, <2>1, ChecksFacts DEF ChecksTyped
  <2>2. CASE d # c
    <3>1. ~Looking(d) /\ streak'[d] = streak[d] /\ (d \in open' <=> d \in open)
      BY <1>6, <2>2 DEF Looking
    <3> QED BY <3>1, ChecksFacts DEF CountsFollow
  <2> QED BY <2>1, <2>2
<1>11. \A d \in CheckIds : Follows(d)
  BY <1>6 DEF Follows
<1> QED BY <1>6, <1>8, <1>9, <1>10, <1>11 DEF ChecksInv

LEMMA RestartStep == ASSUME ChecksInv, ProbeRaises \/ Restart PROVE ChecksInv'
<1>1. <<>> \in Seq([id : CheckIds, kind : Kinds, ok : BOOLEAN \cup {Nil}])
  OBVIOUS
<1>2. CASE ProbeRaises
  <2>1. ChecksTyped'
    BY <1>1, <1>2, ChecksFacts DEF ProbeRaises, ChecksTyped
  <2>2. ResultsIn' /\ OpenFailed' /\ HeldFollows' /\ CountsFollow'
    BY <1>2, ChecksFacts DEF ProbeRaises, ResultsIn, OpenFailed, HeldFollows, CountsFollow, Looking
  <2> QED BY <2>1, <2>2 DEF ChecksInv
<1>3. CASE Restart
  <2>1. restarts' \in 0 .. MaxHubRestarts
    BY <1>3, ChecksFacts, ChecksAssumption DEF Restart, ChecksTyped
  <2>2. ChecksTyped'
    BY <1>1, <1>3, <2>1, ChecksFacts DEF Restart, ChecksTyped
  <2>3. ResultsIn' /\ OpenFailed' /\ HeldFollows' /\ CountsFollow'
    BY <1>3, ChecksFacts DEF Restart, ResultsIn, OpenFailed, HeldFollows, CountsFollow
  <2> QED BY <2>2, <2>3 DEF ChecksInv
<1> QED BY <1>2, <1>3

LEMMA ChecksInitial == ChecksInit => ChecksInv
<1> SUFFICES ASSUME ChecksInit PROVE ChecksInv
  OBVIOUS
<1>1. ChecksTyped
  <2>1. /\ rows \in [CheckIds -> {Nil} \cup Kinds] /\ st \in [CheckIds -> {Nil} \cup Entry]
        /\ held \in {Nil} \cup Entry /\ attached \in BOOLEAN /\ open \subseteq CheckIds
    BY DEF ChecksInit
  <2>2. streak \in [CheckIds -> 0 .. Threshold] /\ restarts \in 0 .. MaxHubRestarts
    BY ChecksAssumption DEF ChecksInit
  <2>3. round = <<>> /\ place = "sleep"
    BY DEF ChecksInit
  <2>4. <<>> \in Seq([id : CheckIds, kind : Kinds, ok : BOOLEAN \cup {Nil}])
    OBVIOUS
  <2> QED BY <2>1, <2>2, <2>3, <2>4 DEF ChecksTyped
<1> QED BY <1>1 DEF ChecksInit, ChecksInv, ResultsIn, OpenFailed, CountsFollow, HeldFollows

LEMMA ChecksInductive ==
  ChecksInv /\ [ChecksNext]_checksVars => ChecksInv' /\ \A c \in CheckIds : Follows(c)
<1> SUFFICES ASSUME ChecksInv, [ChecksNext]_checksVars
             PROVE  ChecksInv' /\ \A c \in CheckIds : Follows(c)
  OBVIOUS
<1>1. CASE Admin
  <2>1. ASSUME NEW c \in CheckIds, Forget(c), ~Enabled(c)' PROVE \A d \in CheckIds : Follows(d)
    BY <2>1 DEF Forget, Follows
  <2>2. ASSUME NEW c \in CheckIds, Delete(c) \/ Disable(c) PROVE ~Enabled(c)'
    BY <2>2, ChecksFacts DEF Delete, Disable, Enabled, Exists, ChecksTyped
  <2>3. \A d \in CheckIds : Follows(d)
    BY <1>1, <2>1, <2>2 DEF Admin, Delete, Disable, Add, Edit, Follows
  <2> QED BY <1>1, <2>3, AdminStep
<1>2. CASE Start \/ (\E ok \in [CheckIds -> BOOLEAN] : Probed(ok)) \/ ProbeRaises
           \/ Restart \/ \E c \in CheckIds : TimePasses(c)
  <2>1. open' = open
    BY <1>2 DEF Start, Probed, ProbeRaises, Restart, TimePasses
  <2> QED BY <1>2, <2>1, StartStep, ProbedStep, RestartStep, TimePassesStep DEF Follows
<1>3. CASE Apply
  BY <1>3, ApplyStep
<1>4. CASE CertLooked
  BY <1>4, CertLookedStep
<1>5. CASE UNCHANGED checksVars
  <2>1. ChecksInv'
    BY <1>5 DEF checksVars, ChecksInv, ChecksTyped, ResultsIn, OpenFailed, CountsFollow, HeldFollows,
                Looking, HeldEntry, OneAhead
  <2> QED BY <1>5, <2>1 DEF checksVars, Follows
<1> QED BY <1>1, <1>2, <1>3, <1>4, <1>5 DEF ChecksNext, RunDue

\* checks.run_due always has the entry it works on, in _state or in its hands,
\* whatever is edited, disabled or deleted while it awaits.
THEOREM RunDueHoldsItsEntry == ChecksSpec => []ChecksTyped
<1>1. ChecksInv => ChecksTyped
  BY DEF ChecksInv
<1> QED BY <1>1, ChecksInitial, ChecksInductive, PTL DEF ChecksSpec

\* An alert on a URL opens on as many failed probes in a row as the rule asks
\* for, and while the check is enabled it ends only with a probe that
\* succeeded: for any number of checks, any threshold and any restarts.
THEOREM CheckAlertsFollow == ChecksSpec => AlertsFollowProbes
<1>1. ChecksInv /\ [ChecksNext]_checksVars =>
        [\A c \in CheckIds :
          /\ c \notin open /\ c \in open' => streak'[c] = Threshold
          /\ c \in open /\ c \notin open' => ~Enabled(c)' \/ streak'[c] = 0]_checksVars
  BY ChecksInductive DEF Follows
<1> QED BY <1>1, ChecksInitial, ChecksInductive, PTL DEF ChecksSpec, AlertsFollowProbes

-----------------------------------------------------------------------------
(***************************************************************************)
(* The Iranian date (Jalali): JalaliCounts for every day from the first    *)
(* one on. The number of the day grows by one with every Gregorian day     *)
(* (GregStep); the divisions of jalali() cut that number into cycles of 33 *)
(* years, fours of years, years and days (Counted4), and a day more there  *)
(* is a day more in the counted calendar (NextCounted, MonthStep), because *)
(* the first year of four, in all but the last four, is the leap year      *)
(* (LeapIs).                                                               *)
(***************************************************************************)
\* The leap days of the years before y.
Leaps(y) == ((y + 3) \div 4) - ((y + 99) \div 100) + ((y + 399) \div 400)

\* There is one more after a leap year.
LEMMA LeapStep ==
  ASSUME NEW y \in Nat
  PROVE  Leaps(y) \in Int /\ Leaps(y + 1) = Leaps(y) + IF GregLeap(y) THEN 1 ELSE 0
<1>1. ((y + 4) \div 4) = ((y + 3) \div 4) + IF y % 4 = 0 THEN 1 ELSE 0
  OBVIOUS
<1>2. ((y + 100) \div 100) = ((y + 99) \div 100) + IF y % 100 = 0 THEN 1 ELSE 0
  OBVIOUS
<1>3. ((y + 400) \div 400) = ((y + 399) \div 400) + IF y % 400 = 0 THEN 1 ELSE 0
  OBVIOUS
<1>4. (y % 100 = 0 => y % 4 = 0) /\ (y % 400 = 0 => y % 100 = 0)
  OBVIOUS
<1>5. (y + 1) + 3 = y + 4 /\ (y + 1) + 99 = y + 100 /\ (y + 1) + 399 = y + 400
  OBVIOUS
<1>6. (y + 3) \div 4 \in Int /\ (y + 99) \div 100 \in Int /\ (y + 399) \div 400 \in Int
  OBVIOUS
<1> QED BY <1>1, <1>2, <1>3, <1>4, <1>5, <1>6 DEF Leaps, GregLeap

LEMMA DaysBeforeIs ==
  /\ DaysBefore[1] = 0 /\ DaysBefore[2] = 31 /\ DaysBefore[3] = 59 /\ DaysBefore[4] = 90
  /\ DaysBefore[5] = 120 /\ DaysBefore[6] = 151 /\ DaysBefore[7] = 181 /\ DaysBefore[8] = 212
  /\ DaysBefore[9] = 243 /\ DaysBefore[10] = 273 /\ DaysBefore[11] = 304 /\ DaysBefore[12] = 334
  BY DEF DaysBefore

LEMMA Joined == ASSUME NEW a, NEW b, NEW c PROVE <<a>> \o <<b, c>> = <<a, b, c>>
<1> DEFINE S == {a, b, c}
           t == <<a>> \o <<b, c>>
<1>1. <<a>> \in Seq(S) /\ <<b, c>> \in Seq(S) /\ <<a, b, c>> \in Seq(S)
  OBVIOUS
<1>2. Len(<<a>>) = 1 /\ Len(<<b, c>>) = 2
  OBVIOUS
<1> HIDE DEF S
<1>3. t \in Seq(S) /\ Len(t) = 3
  BY <1>1, <1>2
<1>4. t[1] = a /\ t[2] = b /\ t[3] = c
  BY <1>1, <1>2
<1> HIDE DEF t
<1>5. t = [i \in 1 .. 3 |-> t[i]]
  BY <1>3
<1>6. <<a, b, c>> = [i \in 1 .. 3 |-> <<a, b, c>>[i]]
  OBVIOUS
<1>7. \A i \in 1 .. 3 : t[i] = <<a, b, c>>[i]
  BY <1>4
<1>8. t = <<a, b, c>>
  BY <1>5, <1>6, <1>7
<1> QED BY <1>8 DEF t

\* A day of the Gregorian calendar.
GregDate(y, m, d) == y \in Nat /\ m \in 1 .. 12 /\ d \in 1 .. GregDays(y, m)

\* The years before y, in days, without and with the leap day of y itself.
Elapsed(y, l) == 355666 + 365 * y + Leaps(l)

LEMMA DayNumberIs ==
  ASSUME NEW y \in Nat, NEW m \in 1 .. 12, NEW d \in Nat
  PROVE  /\ m <= 2 => DayNumber(y, m, d) = Elapsed(y, y) + d + DaysBefore[m]
         /\ m > 2 => DayNumber(y, m, d) = Elapsed(y, y + 1) + d + DaysBefore[m]
<1>1. DaysBefore[m] \in Int
  BY DaysBeforeIs, SMT
<1>2. /\ (y + 1 + 3) \div 4 \in Int /\ (y + 1 + 99) \div 100 \in Int
      /\ (y + 1 + 399) \div 400 \in Int
      /\ (y + 3) \div 4 \in Int /\ (y + 99) \div 100 \in Int /\ (y + 399) \div 400 \in Int
  BY SMT
<1> QED BY <1>1, <1>2, SMT DEF DayNumber, Leaps, Elapsed

LEMMA ElapsedStep ==
  ASSUME NEW y \in Nat
  PROVE  /\ Elapsed(y, y) \in Int /\ Elapsed(y, y + 1) \in Int
         /\ Elapsed(y, y + 1) = Elapsed(y, y) + IF GregLeap(y) THEN 1 ELSE 0
         /\ Elapsed(y + 1, y + 1) = Elapsed(y, y + 1) + 365
<1>1. Leaps(y) \in Int /\ Leaps(y + 1) \in Int
      /\ Leaps(y + 1) = Leaps(y) + IF GregLeap(y) THEN 1 ELSE 0
  BY LeapStep, SMT
<1> QED BY <1>1, SMT DEF Elapsed

LEMMA GregStep ==
  ASSUME NEW y \in Nat, NEW m \in 1 .. 12, NEW d \in 1 .. GregDays(y, m)
  PROVE  \E y1, m1, d1 : /\ GregDate(y1, m1, d1)
                         /\ NextDay(<<y, m, d>>, GregDays) = <<y1, m1, d1>>
                         /\ DayNumber(y1, m1, d1) = DayNumber(y, m, d) + 1
<1>1. GregDays(y, m) \in 28 .. 31 /\ GregDays(y + 1, 1) = 31 /\ d \in Nat
  BY SMT DEF GregDays
<1>2. /\ DaysBefore[m] \in Int /\ Elapsed(y, y) \in Int /\ Elapsed(y, y + 1) \in Int
      /\ Elapsed(y, y + 1) = Elapsed(y, y) + IF GregLeap(y) THEN 1 ELSE 0
      /\ Elapsed(y + 1, y + 1) = Elapsed(y, y + 1) + 365
  BY DaysBeforeIs, ElapsedStep, SMT
<1>3. CASE d < GregDays(y, m)
  <2>1. NextDay(<<y, m, d>>, GregDays) = <<y, m, d + 1>> /\ GregDate(y, m, d + 1)
    BY <1>1, <1>3, SMT DEF NextDay, GregDate
  <2>2. DayNumber(y, m, d + 1) = DayNumber(y, m, d) + 1
    <3>1. d + 1 \in Nat
      BY <1>1, SMT
    <3>2. CASE m <= 2
      <4>1. /\ DayNumber(y, m, d) = Elapsed(y, y) + d + DaysBefore[m]
            /\ DayNumber(y, m, d + 1) = Elapsed(y, y) + (d + 1) + DaysBefore[m]
        BY <1>1, <3>1, <3>2, DayNumberIs
      <4> QED BY <1>1, <1>2, <4>1, SMT
    <3>3. CASE m > 2
      <4>1. /\ DayNumber(y, m, d) = Elapsed(y, y + 1) + d + DaysBefore[m]
            /\ DayNumber(y, m, d + 1) = Elapsed(y, y + 1) + (d + 1) + DaysBefore[m]
        BY <1>1, <3>1, <3>3, DayNumberIs
      <4> QED BY <1>1, <1>2, <4>1, SMT
    <3>4. m <= 2 \/ m > 2
      BY SMT
    <3> QED BY <3>2, <3>3, <3>4
  <2> QED BY <2>1, <2>2
<1>4. CASE ~(d < GregDays(y, m)) /\ m < 12
  <2>1. d = GregDays(y, m)
    BY <1>1, <1>4, SMT
  <2>2. NextDay(<<y, m, d>>, GregDays) = <<y, m + 1, 1>>
    BY <1>4, SMT DEF NextDay
  <2>3. GregDate(y, m + 1, 1)
    <3>1. GregDays(y, m + 1) \in 28 .. 31
      BY SMT DEF GregDays
    <3> QED BY <1>4, <3>1, SMT DEF GregDate
  <2>4. /\ DaysBefore[m + 1] \in Int
        /\ DaysBefore[m + 1] = DaysBefore[m] + IF m = 2 THEN 28 ELSE GregDays(y, m)
    BY <1>4, DaysBeforeIs, SMT DEF GregDays
  <2>5. CASE m = 2
    <3>1. d = 28 + IF GregLeap(y) THEN 1 ELSE 0
      BY <2>1, <2>5, SMT DEF GregDays
    <3>2. DayNumber(y, 2, d) = Elapsed(y, y) + d + DaysBefore[2]
      BY <1>1, DayNumberIs, SMT
    <3>3. DayNumber(y, 3, 1) = Elapsed(y, y + 1) + 1 + DaysBefore[3]
      BY DayNumberIs, SMT
    <3>4. DayNumber(y, 3, 1) = DayNumber(y, 2, d) + 1
      BY <1>1, <1>2, <3>1, <3>2, <3>3, DaysBeforeIs, SMT
    <3> QED BY <2>2, <2>3, <2>5, <3>4, SMT
  <2>6. CASE m # 2
    <3>1. m + 1 \in 1 .. 12 /\ DaysBefore[m + 1] = DaysBefore[m] + d
      BY <1>4, <2>1, <2>4, <2>6, SMT
    <3>2. CASE m = 1
      <4>1. DayNumber(y, 1, d) = Elapsed(y, y) + d + DaysBefore[1]
        BY <1>1, DayNumberIs, SMT
      <4>2. DayNumber(y, 2, 1) = Elapsed(y, y) + 1 + DaysBefore[2]
        BY DayNumberIs, SMT
      <4>3. d = 31
        BY <2>1, <3>2, SMT DEF GregDays
      <4>4. DayNumber(y, 2, 1) = DayNumber(y, 1, d) + 1
        BY <1>2, <4>1, <4>2, <4>3, DaysBeforeIs, SMT
      <4> QED BY <2>2, <2>3, <3>2, <4>4, SMT
    <3>3. CASE m # 1
      <4>1. m > 2 /\ m + 1 > 2
        BY <2>6, <3>3, SMT
      <4>2. DayNumber(y, m, d) = Elapsed(y, y + 1) + d + DaysBefore[m]
        BY <1>1, <4>1, DayNumberIs, SMT
      <4>3. DayNumber(y, m + 1, 1) = Elapsed(y, y + 1) + 1 + DaysBefore[m + 1]
        BY <3>1, <4>1, DayNumberIs, SMT
      <4>4. DayNumber(y, m + 1, 1) = DayNumber(y, m, d) + 1
        BY <1>1, <1>2, <2>4, <3>1, <4>2, <4>3, SMT
      <4> QED BY <2>2, <2>3, <4>4
    <3> QED BY <3>2, <3>3
  <2> QED BY <2>5, <2>6
<1>5. CASE ~(d < GregDays(y, m)) /\ m = 12
  <2>1. d = 31
    BY <1>1, <1>5, SMT DEF GregDays
  <2>2. NextDay(<<y, m, d>>, GregDays) = <<y + 1, 1, 1>> /\ GregDate(y + 1, 1, 1)
    BY <1>1, <1>5, SMT DEF NextDay, GregDate
  <2>3. DayNumber(y, 12, 31) = Elapsed(y, y + 1) + 31 + 334
    BY DayNumberIs, DaysBeforeIs, SMT
  <2>4. DayNumber(y + 1, 1, 1) = Elapsed(y + 1, y + 1) + 1 + 0
    BY DayNumberIs, DaysBeforeIs, SMT
  <2>5. DayNumber(y + 1, 1, 1) = DayNumber(y, 12, 31) + 1
    BY <1>2, <2>3, <2>4, SMT
  <2> QED BY <1>5, <2>1, <2>2, <2>5, SMT
<1>6. m < 12 \/ m = 12
  BY SMT
<1> QED BY <1>3, <1>4, <1>5, <1>6

\* Day k of year y of the Iranian calendar, from 0.
YearDays(y) == IF IranLeap(y) THEN 366 ELSE 365
IranDate(y, k) == <<y, MonthAndDay(k)[1], MonthAndDay(k)[2]>>

\* The day that ends q cycles of 33 years, a times four years, b years and
\* k days: the last cycle of four has one year.
Counted4(n, q, a, b, k) ==
    /\ q \in Int /\ a \in 0 .. 8 /\ b \in 0 .. 3 /\ k \in 0 .. 365
    /\ b > 0 => k < 365
    /\ a = 8 => b = 0 /\ k < 365
    /\ n = 12053 * q + 1461 * a + (IF b = 0 THEN k ELSE 365 * b + 1 + k)

\* The year of that day.
YearOf(q, a, b) == 33 * q - 1595 + 4 * a + b

DayParts(n, q, r) == q \in Int /\ r \in 0 .. 12052 /\ n = 12053 * q + r
CycleParts(r, a, c) ==
    a \in 0 .. 8 /\ c \in 0 .. 1460 /\ (a = 8 => c <= 364) /\ r = 1461 * a + c

CycleFits(r, a, c) == r \in 0 .. 12052 /\ a \in Int /\ c \in 0 .. 1460 /\ r = 1461 * a + c

LEMMA CycleBound ==
  ASSUME NEW r, NEW a, NEW c, CycleFits(r, a, c)
  PROVE  CycleParts(r, a, c)
<1>1. a \in 0 .. 8 /\ (a = 8 => c <= 364)
  BY SMT DEF CycleFits
<1> QED BY <1>1 DEF CycleParts, CycleFits

LEMMA CycleCut ==
  ASSUME NEW n \in Nat, NEW q, NEW r, DayParts(n, q, r)
  PROVE  \E a, c : CycleParts(r, a, c)
<1> DEFINE a == r \div 1461
           c == r % 1461
<1>1. CycleFits(r, a, c)
  BY SMT DEF DayParts, CycleFits
<1> HIDE DEF a, c
<1>2. CycleParts(r, a, c)
  BY <1>1, CycleBound
<1> QED BY <1>2

LEMMA DayCut == ASSUME NEW n \in Nat PROVE \E q, r : DayParts(n, q, r)
<1> DEFINE q == n \div 12053
           r == n % 12053
<1>1. DayParts(n, q, r)
  BY SMT DEF DayParts
<1> HIDE DEF q, r
<1> QED BY <1>1

LEMMA CountedExists ==
  ASSUME NEW n \in Nat
  PROVE  \E q, a, b, k : Counted4(n, q, a, b, k)
<1>1. PICK q, r : DayParts(n, q, r)
  BY DayCut
<1>7. PICK a, c : CycleParts(r, a, c)
  BY <1>1, CycleCut
<1>3. CASE c <= 365
  <2>1. Counted4(n, q, a, 0, c)
    BY <1>1, <1>7, <1>3, SMT DEF Counted4, DayParts, CycleParts
  <2> QED BY <2>1
<1>4. CASE c > 365 /\ c <= 730
  <2>1. Counted4(n, q, a, 1, c - 366)
    BY <1>1, <1>7, <1>4, SMT DEF Counted4, DayParts, CycleParts
  <2> QED BY <2>1
<1>5. CASE c > 730 /\ c <= 1095
  <2>1. Counted4(n, q, a, 2, c - 731)
    BY <1>1, <1>7, <1>5, SMT DEF Counted4, DayParts, CycleParts
  <2> QED BY <2>1
<1>6. CASE c > 1095
  <2>1. Counted4(n, q, a, 3, c - 1096)
    BY <1>1, <1>7, <1>6, SMT DEF Counted4, DayParts, CycleParts
  <2> QED BY <2>1
<1>8. c <= 365 \/ (c > 365 /\ c <= 730) \/ (c > 730 /\ c <= 1095) \/ c > 1095
  BY <1>7, SMT DEF CycleParts
<1> QED BY <1>3, <1>4, <1>5, <1>6, <1>8

DayOf(g) == DayNumber(g[1], g[2], g[3])

\* What jalali() makes of that day.
LEMMA JalaliIs ==
  ASSUME NEW g, DayOf(g) \in Nat, NEW q, NEW a, NEW b, NEW k, Counted4(DayOf(g), q, a, b, k)
  PROVE  JalaliDate(g) = IranDate(YearOf(q, a, b), k)
<1>0. q \in Int /\ a \in 0 .. 8 /\ b \in 0 .. 3 /\ k \in 0 .. 365
  BY DEF Counted4
<1> DEFINE n == DayOf(g)
           c == IF b = 0 THEN k ELSE 365 * b + 1 + k
<1>1. c \in 0 .. 1460 /\ (a = 8 => c <= 364) /\ n = 12053 * q + (1461 * a + c)
  BY <1>0, SMT DEF Counted4
<1>2. b > 0 => k < 365
  BY DEF Counted4
<1>3. /\ b = 0 => ~(c > 365)
      /\ b > 0 => c > 365 /\ (c - 1) \div 365 = b /\ (c - 1) % 365 = k
      /\ b = 0 => c = k
  BY <1>0, <1>2, SMT
<1> HIDE DEF c
<1>4. n \div 12053 = q /\ n % 12053 = 1461 * a + c
  BY <1>0, <1>1, SMT
<1>5. (1461 * a + c) \div 1461 = a /\ (1461 * a + c) % 1461 = c
  BY <1>0, <1>1, SMT
<1> DEFINE jy == 33 * (n \div 12053) - 1595 + 4 * ((n % 12053) \div 1461)
           four == (n % 12053) % 1461
<1>6. JalaliDate(g) = IF four > 365 THEN <<jy + ((four - 1) \div 365)>> \o MonthAndDay((four - 1) % 365)
                      ELSE <<jy>> \o MonthAndDay(four)
  BY DEF JalaliDate, DayOf
<1>7. four = c /\ jy = 33 * q - 1595 + 4 * a
  BY <1>4, <1>5
<1> HIDE DEF jy, four
<1>8. \A x : <<x>> \o MonthAndDay(k) = <<x, MonthAndDay(k)[1], MonthAndDay(k)[2]>>
  <2>1. PICK u, v : MonthAndDay(k) = <<u, v>>
    BY DEF MonthAndDay
  <2> QED BY <2>1, Joined
<1>9. CASE b = 0
  <2>1. JalaliDate(g) = <<jy>> \o MonthAndDay(k) /\ jy = 33 * q - 1595 + 4 * a + b
    BY <1>0, <1>3, <1>6, <1>7, <1>9, SMT
  <2> QED BY <1>8, <2>1 DEF IranDate, YearOf
<1>10. CASE b > 0
  <2>1. JalaliDate(g) = <<jy + b>> \o MonthAndDay(k) /\ jy + b = 33 * q - 1595 + 4 * a + b
    BY <1>0, <1>3, <1>6, <1>7, <1>10
  <2> QED BY <1>8, <2>1 DEF IranDate, YearOf
<1>11. b = 0 \/ b > 0
  BY <1>0, SMT
<1> QED BY <1>9, <1>10, <1>11

\* The first of four years is the leap year, except in the last cycle of four.
LEMMA LeapIs ==
  ASSUME NEW q \in Int, NEW a \in 0 .. 8, NEW b \in 0 .. 3, a = 8 => b = 0
  PROVE  IranLeap(YearOf(q, a, b)) <=> b = 0 /\ a < 8
<1> DEFINE y == 33 * q - 1595 + 4 * a + b
           t == 4 * a + b + 22
           r == IF t >= 33 THEN t - 33 ELSE t
<1>1. r \in 0 .. 32 /\ \E p \in Int : y = 33 * p + r
  <2>1. t \in 22 .. 54 /\ (t >= 33 => t - 33 \in 0 .. 21)
    BY SMT
  <2>2. y = 33 * (q - 49) + t /\ y = 33 * (q - 48) + (t - 33) /\ q - 49 \in Int /\ q - 48 \in Int
    BY SMT
  <2>3. CASE t >= 33
    <3>1. r = t - 33 /\ r \in 0 .. 32
      BY <2>1, <2>3, SMT
    <3>2. y = 33 * (q - 48) + r
      BY <2>2, <3>1, SMT
    <3> HIDE DEF y, r, t
    <3> QED BY <2>2, <3>1, <3>2
  <2>4. CASE ~(t >= 33)
    <3>1. r = t /\ r \in 0 .. 32
      BY <2>1, <2>4, SMT
    <3>2. y = 33 * (q - 49) + r
      BY <2>2, <3>1, SMT
    <3> HIDE DEF y, r, t
    <3> QED BY <2>2, <3>1, <3>2
  <2> QED BY <2>3, <2>4
<1>2. r \in {1, 5, 9, 13, 17, 22, 26, 30} <=> b = 0 /\ a < 8
  BY SMT
<1> HIDE DEF y, r
<1>3. y % 33 = r
  BY <1>1, SMT
<1>4. IranLeap(y) <=> b = 0 /\ a < 8
  BY <1>2, <1>3 DEF IranLeap
<1> QED BY <1>4 DEF y, YearOf

LEMMA NextCounted ==
  ASSUME NEW n \in Nat, NEW q \in Int, NEW a \in 0 .. 8, NEW b \in 0 .. 3, NEW k \in 0 .. 365,
         Counted4(n, q, a, b, k)
  PROVE  /\ k < YearDays(YearOf(q, a, b))
         /\ k + 1 < YearDays(YearOf(q, a, b)) => Counted4(n + 1, q, a, b, k + 1)
         /\ k + 1 = YearDays(YearOf(q, a, b)) =>
              \E q1 \in Int, a1 \in 0 .. 8, b1 \in 0 .. 3 :
                 Counted4(n + 1, q1, a1, b1, 0) /\ YearOf(q1, a1, b1) = YearOf(q, a, b) + 1
<1> DEFINE y == YearOf(q, a, b)
<1>1. YearDays(y) = IF b = 0 /\ a < 8 THEN 366 ELSE 365
  BY LeapIs DEF YearDays, Counted4
<1>2. k < YearDays(y)
  BY <1>1, SMT DEF Counted4
<1>3. k + 1 < YearDays(y) => Counted4(n + 1, q, a, b, k + 1)
  BY <1>1, SMT DEF Counted4
<1>4. ASSUME k + 1 = YearDays(y)
      PROVE  \E q1 \in Int, a1 \in 0 .. 8, b1 \in 0 .. 3 :
                Counted4(n + 1, q1, a1, b1, 0) /\ YearOf(q1, a1, b1) = y + 1
  <2>1. CASE a = 8
    <3>1. Counted4(n + 1, q + 1, 0, 0, 0)
      BY <1>1, <1>4, <2>1, SMT DEF Counted4
    <3>2. YearOf(q + 1, 0, 0) = y + 1
      BY <2>1, SMT DEF Counted4, YearOf
    <3> QED BY <3>1, <3>2
  <2>2. CASE a < 8 /\ b < 3
    <3>1. Counted4(n + 1, q, a, b + 1, 0)
      BY <1>1, <1>4, <2>2, SMT DEF Counted4
    <3>2. YearOf(q, a, b + 1) = y + 1 /\ b + 1 \in 0 .. 3
      BY <2>2, SMT DEF YearOf
    <3> QED BY <3>1, <3>2
  <2>3. CASE a < 8 /\ b = 3
    <3>1. Counted4(n + 1, q, a + 1, 0, 0)
      BY <1>1, <1>4, <2>3, SMT DEF Counted4
    <3>2. YearOf(q, a + 1, 0) = y + 1 /\ a + 1 \in 0 .. 8
      BY <2>3, SMT DEF YearOf
    <3> QED BY <3>1, <3>2
  <2>4. a = 8 \/ (a < 8 /\ b < 3) \/ (a < 8 /\ b = 3)
    BY SMT
  <2> QED BY <2>1, <2>2, <2>3, <2>4
<1> QED BY <1>2, <1>3, <1>4

\* The months of a year, in days.
LEMMA MonthStep ==
  ASSUME NEW y \in Int, NEW k \in 0 .. 365, k < YearDays(y)
  PROVE  NextDay(IranDate(y, k), IranDays)
           = IF k + 1 < YearDays(y) THEN IranDate(y, k + 1) ELSE IranDate(y + 1, 0)
<1> DEFINE m == MonthAndDay(k)[1]
           d == MonthAndDay(k)[2]
<1>1. IranDate(y, k) = <<y, m, d>>
  BY DEF IranDate
<1>2. NextDay(<<y, m, d>>, IranDays)
        = IF d < IranDays(y, m) THEN <<y, m, d + 1>>
          ELSE IF m < 12 THEN <<y, m + 1, 1>> ELSE <<y + 1, 1, 1>>
  BY DEF NextDay
<1>3. /\ k < 186 => m = 1 + (k \div 31) /\ d = 1 + (k % 31)
      /\ k >= 186 => m = 7 + ((k - 186) \div 30) /\ d = 1 + ((k - 186) % 30)
  BY SMT DEF MonthAndDay
<1>4. IranDate(y + 1, 0) = <<y + 1, 1, 1>>
  BY SMT DEF IranDate, MonthAndDay
<1> HIDE DEF m, d
<1>5. CASE k < 186
  <2>1. m \in 1 .. 6 /\ d \in 1 .. 31 /\ IranDays(y, m) = 31
    BY <1>3, <1>5, SMT DEF IranDays
  <2>2. k + 1 < YearDays(y)
    BY <1>5, SMT DEF YearDays
  <2>3. CASE d < 31
    <3>1. MonthAndDay(k + 1) = <<m, d + 1>>
      BY <1>3, <1>5, <2>3, SMT DEF MonthAndDay
    <3> QED BY <1>1, <1>2, <2>1, <2>2, <2>3, <3>1 DEF IranDate
  <2>4. CASE d = 31
    <3>1. MonthAndDay(k + 1) = <<m + 1, 1>>
      BY <1>3, <1>5, <2>4, SMT DEF MonthAndDay
    <3>2. m < 12 /\ ~(d < IranDays(y, m))
      BY <2>1, <2>4, SMT
    <3> QED BY <1>1, <1>2, <2>2, <3>1, <3>2 DEF IranDate
  <2>5. d < 31 \/ d = 31
    BY <2>1, SMT
  <2> QED BY <2>3, <2>4, <2>5
<1>6. CASE k >= 186 /\ k < 336
  <2>1. m \in 7 .. 11 /\ d \in 1 .. 30 /\ IranDays(y, m) = 30
    BY <1>3, <1>6, SMT DEF IranDays
  <2>2. k + 1 < YearDays(y)
    BY <1>6, SMT DEF YearDays
  <2>3. CASE d < 30
    <3>1. MonthAndDay(k + 1) = <<m, d + 1>>
      BY <1>3, <1>6, <2>3, SMT DEF MonthAndDay
    <3> QED BY <1>1, <1>2, <2>1, <2>2, <2>3, <3>1 DEF IranDate
  <2>4. CASE d = 30
    <3>1. MonthAndDay(k + 1) = <<m + 1, 1>>
      BY <1>3, <1>6, <2>4, SMT DEF MonthAndDay
    <3>2. m < 12 /\ ~(d < IranDays(y, m))
      BY <2>1, <2>4, SMT
    <3> QED BY <1>1, <1>2, <2>2, <3>1, <3>2 DEF IranDate
  <2>5. d < 30 \/ d = 30
    BY <2>1, SMT
  <2> QED BY <2>3, <2>4, <2>5
<1>7. CASE k >= 336
  <2>1. m = 12 /\ d = k - 335 /\ IranDays(y, m) = YearDays(y) - 336
    BY <1>3, <1>7, SMT DEF IranDays, YearDays
  <2>2. YearDays(y) \in Int
    BY SMT DEF YearDays
  <2>3. CASE k + 1 < YearDays(y)
    <3>1. MonthAndDay(k + 1) = <<m, d + 1>>
      BY <1>7, <2>1, <2>2, <2>3, SMT DEF MonthAndDay, YearDays
    <3>2. d < IranDays(y, m)
      BY <2>1, <2>2, <2>3, SMT
    <3> QED BY <1>1, <1>2, <2>3, <3>1, <3>2 DEF IranDate
  <2>4. CASE ~(k + 1 < YearDays(y))
    <3>1. ~(d < IranDays(y, m)) /\ ~(m < 12)
      BY <2>1, <2>2, <2>4, SMT
    <3> QED BY <1>1, <1>2, <1>4, <2>4, <3>1
  <2> QED BY <2>3, <2>4
<1>8. k < 186 \/ (k >= 186 /\ k < 336) \/ k >= 336
  BY SMT
<1> QED BY <1>5, <1>6, <1>7, <1>8

\* The Gregorian date is one, and jalali() gives the counted date for it.
JalaliInv == (\E y, m, d : GregDate(y, m, d) /\ greg = <<y, m, d>>) /\ JalaliCounts

LEMMA DayNumberNat ==
  ASSUME NEW y, NEW m, NEW d, GregDate(y, m, d)
  PROVE  DayNumber(y, m, d) \in Nat
<1>1. y \in Nat /\ m \in 1 .. 12 /\ d \in Nat
  <2>1. GregDays(y, m) \in 28 .. 31
    BY SMT DEF GregDays
  <2> QED BY <2>1, SMT DEF GregDate
<1>2. DaysBefore[m] \in Nat
  BY <1>1, DaysBeforeIs, SMT
<1>3. \A z \in Nat : Leaps(z) \in Nat
  <2>1. ASSUME NEW z \in Nat PROVE Leaps(z) \in Nat
    <3>1. (z + 3) \div 4 \in Nat /\ (z + 99) \div 100 \in Nat /\ (z + 399) \div 400 \in Nat
      BY SMT
    <3>2. (z + 3) \div 4 >= (z + 99) \div 100
      BY SMT
    <3> QED BY <3>1, <3>2, SMT DEF Leaps
  <2> QED BY <2>1
<1>4. Elapsed(y, y) \in Nat /\ Elapsed(y, y + 1) \in Nat
  <2>1. Leaps(y) \in Nat /\ Leaps(y + 1) \in Nat
    BY <1>1, <1>3, SMT
  <2> QED BY <1>1, <2>1, SMT DEF Elapsed
<1>5. CASE m <= 2
  <2>1. DayNumber(y, m, d) = Elapsed(y, y) + d + DaysBefore[m]
    BY <1>1, <1>5, DayNumberIs
  <2> QED BY <1>1, <1>2, <1>4, <2>1, SMT
<1>6. CASE m > 2
  <2>1. DayNumber(y, m, d) = Elapsed(y, y + 1) + d + DaysBefore[m]
    BY <1>1, <1>6, DayNumberIs
  <2> QED BY <1>1, <1>2, <1>4, <2>1, SMT
<1> QED BY <1>1, <1>5, <1>6, SMT

LEMMA JalaliInvInit == JalaliInit => JalaliInv
<1> SUFFICES ASSUME JalaliInit PROVE JalaliInv
  OBVIOUS
<1>1. GregDate(1996, 2, 25)
  <2>1. GregDays(1996, 2) \in 28 .. 31
    BY SMT DEF GregDays
  <2> QED BY <2>1, SMT DEF GregDate
<1> DEFINE n == DayOf(greg)
<1>2. n = 1084746
  BY SMT DEF JalaliInit, DayNumber, DaysBefore, DayOf
<1> DEFINE q == 89
           a == 8
           k == 341
<1>3. Counted4(n, q, a, 0, k) /\ n \in Nat
  BY <1>2, SMT DEF Counted4
<1>4. YearOf(q, a, 0) = 1374 /\ MonthAndDay(k) = <<12, 6>>
  BY SMT DEF MonthAndDay, YearOf
<1> HIDE DEF q, a, k
<1>5. JalaliDate(greg) = IranDate(YearOf(q, a, 0), k)
  BY <1>3, JalaliIs
<1>6. JalaliDate(greg) = <<1374, 12, 6>>
  BY <1>4, <1>5, SMT DEF IranDate
<1> QED BY <1>1, <1>6 DEF JalaliInit, JalaliInv, JalaliCounts

LEMMA JalaliInvStep == JalaliInv /\ [JalaliNext]_jalaliVars => JalaliInv'
<1> SUFFICES ASSUME JalaliInv, [JalaliNext]_jalaliVars PROVE JalaliInv'
  OBVIOUS
<1>1. CASE UNCHANGED jalaliVars
  BY <1>1 DEF JalaliInv, JalaliCounts, JalaliDate, jalaliVars
<1>2. CASE JalaliNext
  <2>1. PICK y, m, d : GregDate(y, m, d) /\ greg = <<y, m, d>>
    BY DEF JalaliInv
  <2>2. PICK y1, m1, d1 : /\ GregDate(y1, m1, d1)
                          /\ NextDay(<<y, m, d>>, GregDays) = <<y1, m1, d1>>
                          /\ DayNumber(y1, m1, d1) = DayNumber(y, m, d) + 1
    BY <2>1, GregStep DEF GregDate
  <2>3. greg' = <<y1, m1, d1>>
    BY <1>2, <2>1, <2>2 DEF JalaliNext
  <2> DEFINE n == DayNumber(y, m, d)
  <2>4. n \in Nat
    BY <2>1, DayNumberNat
  <2>5. n = DayOf(greg)
    BY <2>1 DEF DayOf
  <2>6. n + 1 = DayOf(greg')
    BY <2>2, <2>3 DEF DayOf
  <2> HIDE DEF n
  <2>7. PICK q, a, b, k : Counted4(n, q, a, b, k)
    BY <2>4, CountedExists
  <2>8. q \in Int /\ a \in 0 .. 8 /\ b \in 0 .. 3 /\ k \in 0 .. 365
    BY <2>7 DEF Counted4
  <2> DEFINE jy == YearOf(q, a, b)
  <2>9. JalaliDate(greg) = IranDate(jy, k)
    BY <2>4, <2>5, <2>7, JalaliIs
  <2>10. /\ k < YearDays(jy)
         /\ k + 1 < YearDays(jy) => Counted4(n + 1, q, a, b, k + 1)
         /\ k + 1 = YearDays(jy) =>
              \E q1 \in Int, a1 \in 0 .. 8, b1 \in 0 .. 3 :
                 Counted4(n + 1, q1, a1, b1, 0) /\ YearOf(q1, a1, b1) = jy + 1
    BY <2>4, <2>7, <2>8, NextCounted
  <2>11. jy \in Int /\ n + 1 \in Nat /\ YearDays(jy) \in Int
    BY <2>4, <2>8, SMT DEF YearDays, YearOf
  <2>12. iran' = IF k + 1 < YearDays(jy) THEN IranDate(jy, k + 1) ELSE IranDate(jy + 1, 0)
    <3>1. iran' = NextDay(IranDate(jy, k), IranDays)
      BY <1>2, <2>9 DEF JalaliNext, JalaliInv, JalaliCounts
    <3> HIDE DEF jy
    <3> QED BY <2>8, <2>10, <2>11, <3>1, MonthStep
  <2>13. JalaliDate(greg') = iran'
    <3>1. CASE k + 1 < YearDays(jy)
      <4>1. k + 1 \in 0 .. 365 /\ Counted4(n + 1, q, a, b, k + 1)
        BY <2>10, <3>1 DEF Counted4
      <4>2. JalaliDate(greg') = IranDate(jy, k + 1)
        BY <2>6, <2>11, <4>1, JalaliIs
      <4> QED BY <2>12, <3>1, <4>2
    <3>2. CASE ~(k + 1 < YearDays(jy))
      <4>1. k + 1 = YearDays(jy)
        <5> HIDE DEF jy
        <5> QED BY <2>8, <2>10, <2>11, <3>2, SMT
      <4>2. PICK q1 \in Int, a1 \in 0 .. 8, b1 \in 0 .. 3 :
                 Counted4(n + 1, q1, a1, b1, 0) /\ YearOf(q1, a1, b1) = jy + 1
        BY <2>10, <4>1
      <4>4. JalaliDate(greg') = IranDate(YearOf(q1, a1, b1), 0)
        BY <2>6, <2>11, <4>2, JalaliIs
      <4> QED BY <2>12, <3>2, <4>2, <4>4
    <3> QED BY <3>1, <3>2
  <2>14. JalaliCounts'
    BY <2>13 DEF JalaliCounts, JalaliDate
  <2> QED BY <2>2, <2>3, <2>14 DEF JalaliInv
<1> QED BY <1>1, <1>2

\* For every day from the first one counted on: the divisions of jalali() give
\* the date that counting the days of both calendars gives.
THEOREM JalaliAgrees == JalaliSpec => []JalaliCounts
<1>1. JalaliInv => JalaliCounts
  BY DEF JalaliInv
<1> QED BY JalaliInvInit, JalaliInvStep, <1>1, PTL DEF JalaliSpec
=============================================================================
