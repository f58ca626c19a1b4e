-------------------------------- MODULE Alerts --------------------------------
(***************************************************************************)
(* The alert engine of the hub (hub/icsd_hub/alerts.py) with the callers   *)
(* that drive it: the agent socket (evaluate_sample), the ticker           *)
(* (evaluate_offline), the URL checks (evaluate_check and forget), the     *)
(* domain page (_alert_certs), the backup runs and plan deletion, server   *)
(* deletion, rule edits, history pruning and the restart of the hub.       *)
(*                                                                         *)
(* The hub is one asyncio process and no function of this file awaits, so  *)
(* every call is one atomic action. What survives a restart is the SQLite  *)
(* table "events"; what does not is the dictionary _state.                 *)
(*                                                                         *)
(* A key (rule, server, subject) is a triple. The events table is kept     *)
(* partitioned by key, and row ids are numbered per key and never reused:  *)
(* the code only ever compares an id with the rows of the key it came      *)
(* from, and holds none of a pruned row. The clock counts whole seconds,   *)
(* as the columns started and ended do.                                    *)
(***************************************************************************)
EXTENDS Integers, Sequences, FiniteSets

CONSTANTS
    Servers,      \* ids of servers
    Mounts,       \* mount points a sample may report
    Containers,   \* container names a sample may report
    Checks,       \* ids of URL checks
    Certs,        \* certificate files an agent may report (domains.py)
    Plans,        \* ids of backup plans
    HostKinds,    \* the per-sample kinds with one subject: cpu, mem, load, steal
    DiskKinds,    \* the per-mount kinds: disk, disk_full, inodes
    EditedKinds,  \* bound: the kinds whose rule is edited
    RuleSettings, \* the rule rows an administrator may store
    DefaultRule,  \* the row seed() inserts
    KeepEvents,   \* how long an ended event is kept (keep_events_days)
    StartupGrace, \* seconds after a start in which nobody is called offline
    Nil,          \* Python's None, and a key missing from a dictionary
    MaxLevel,     \* bound: readings are 0..MaxLevel
    MaxNow,       \* bound: the clock stops here
    MaxEvents     \* bound: events opened per key

NoServer  == "-"     \* the server "" of the URL checks
NoSubject == "-"     \* the subject "" of whole-server alerts

Kinds == HostKinds \cup DiskKinds
           \cup {"container", "offline", "check", "cert", "backup"}

Levels == 0 .. MaxLevel

RuleType == [threshold : Nat, for_s : Nat, enabled : BOOLEAN]

ASSUME KindsAssumption ==
    /\ HostKinds \subseteq {"cpu", "mem", "load", "steal"}
    /\ DiskKinds \subseteq {"disk", "disk_full", "inodes"}
    /\ EditedKinds \subseteq Kinds

ASSUME RulesAssumption ==
    /\ RuleSettings \subseteq RuleType
    /\ DefaultRule \in [Kinds -> RuleSettings]

ASSUME BoundsAssumption ==
    /\ KeepEvents \in Nat /\ StartupGrace \in Nat
    /\ MaxLevel \in Nat /\ MaxNow \in Nat /\ MaxEvents \in Nat
    /\ Nil \notin Nat
    /\ Nil \notin [since : Nat, event : Nat \cup {Nil}]
    /\ NoServer \notin Servers

HostKeys(s)      == HostKinds \X {s} \X {NoSubject}
DiskKeys(s)      == DiskKinds \X {s} \X Mounts
ContainerKeys(s) == {"container"} \X {s} \X Containers
CertKeys(s)      == {"cert"} \X {s} \X Certs
OfflineKey(s)    == <<"offline", s, NoSubject>>
CheckKey(c)      == <<"check", NoServer, c>>
CheckCertKey(c)  == <<"cert", NoServer, c>>
BackupKey(s, p)  == <<"backup", s, p>>

Keys == (UNION {HostKeys(s) \cup DiskKeys(s) \cup ContainerKeys(s)
                 \cup CertKeys(s) \cup {OfflineKey(s)}
                 \cup {BackupKey(s, p) : p \in Plans} : s \in Servers})
          \cup {CheckKey(c) : c \in Checks}
          \cup {CheckCertKey(c) : c \in Checks}

VARIABLES
    now,       \* the clock the hub reads
    started,   \* _started: when this hub process came up
    rules,     \* _rules, kept equal to the table "rules"
    state,     \* _state: per key Nil or [since, event]
    events,    \* the table "events": per key a set of rows
    lastId,    \* per key, the id of the latest row inserted
    slow,      \* per server, the slow parts of lv.last that evaluate_sample sees
    told,      \* history: per key, the calls of notify.fire in order
    clear      \* history: per key, when it was last judged not bad

vars == <<now, started, rules, state, events, lastId, slow, told, clear>>

Row    == [id : Nat, started : Nat, ended : Nat \cup {Nil}]
Notice == [what : {"fired", "resolved"}, id : Nat]

\* The slow parts before the first slow sample (lv.last is empty).
NoSlow == [disks |-> Nil, containers |-> Nil, docker_err |-> FALSE]

\* Which number of a disk a kind looks at, and a disk as far as the rules see it.
Source(kind) == IF kind = "inodes" THEN "inodes_pct" ELSE "pct"
Disk == [{Source(kind) : kind \in DiskKinds} -> Levels]

\* What an agent can send: a fast sample has no slow part; in a slow one the
\* disk list may be missing (omitempty) and Docker is absent, failing, or a
\* list of containers, each broken or not.
SlowParts ==
    [disks : {Nil} \cup UNION {[M -> Disk] : M \in SUBSET Mounts},
     containers : {Nil}, docker_err : BOOLEAN]
    \cup
    [disks : {Nil} \cup UNION {[M -> Disk] : M \in SUBSET Mounts},
     containers : UNION {[C -> BOOLEAN] : C \in SUBSET Containers},
     docker_err : {FALSE}]

Init ==
    /\ now = 0
    /\ started = 0
    /\ rules = DefaultRule
    /\ state = [k \in Keys |-> Nil]
    /\ events = [k \in Keys |-> {}]
    /\ lastId = [k \in Keys |-> 0]
    /\ slow = [s \in Servers |-> NoSlow]
    /\ told = [k \in Keys |-> <<>>]
    /\ clear = [k \in Keys |-> 0]

-----------------------------------------------------------------------------
(***************************************************************************)
(* step(): one key, judged bad or not. The operators give the new state,   *)
(* rows and notices of one key; Judge applies them to every key a caller   *)
(* steps, each exactly once, so the order inside the caller does not show. *)
(***************************************************************************)

\* `if rule is None or not rule.enabled: bad = False`
Bad(k, B) == k \in B /\ rules[k[1]].enabled

\* Mutant: a new entry is dated back by the time the rule asks for.
M_Entry(k) ==
    IF state[k] = Nil THEN [since |-> now - rules[k[1]].for_s, event |-> Nil] ELSE state[k]

\* The dictionary entry after `if st is None: st = _state[key] = {...}`.
Entry(k) == IF state[k] = Nil THEN [since |-> now, event |-> Nil] ELSE state[k]

\* The event is opened now: bad for long enough and not yet open.
Opens(k, B) ==
    /\ Bad(k, B)
    /\ Entry(k).event = Nil
    /\ now - Entry(k).since >= rules[k[1]].for_s

\* The open event of k ends now.
Closes(k, B, G) ==
    /\ ~Bad(k, B) /\ k \in B \cup G
    /\ state[k] # Nil /\ state[k].event # Nil

\* Mutant: the entry is dropped only together with an event.
M_StepState(k, B, G) ==
    IF Bad(k, B)
    THEN IF Opens(k, B) THEN [Entry(k) EXCEPT !.event = lastId[k] + 1] ELSE Entry(k)
    ELSE IF Closes(k, B, G) THEN Nil ELSE state[k]

StepState(k, B, G) ==
    IF Bad(k, B)
    THEN IF Opens(k, B) THEN [Entry(k) EXCEPT !.event = lastId[k] + 1] ELSE Entry(k)
    ELSE IF k \in B \cup G THEN Nil ELSE state[k]

EndRow(rows, id) ==
    {IF r.id = id THEN [r EXCEPT !.ended = now] ELSE r : r \in rows}

StepRows(k, B, G) ==
    IF Opens(k, B)
    THEN events[k] \cup {[id |-> lastId[k] + 1, started |-> Entry(k).since, ended |-> Nil]}
    ELSE IF Closes(k, B, G) THEN EndRow(events[k], state[k].event) ELSE events[k]

\* Mutant: a message at every bad step, not only when the event opens.
M_StepTold(k, B, G, quiet) ==
    IF Opens(k, B) THEN Append(told[k], [what |-> "fired", id |-> lastId[k] + 1])
    ELSE IF Bad(k, B) /\ Entry(k).event # Nil
         THEN Append(told[k], [what |-> "fired", id |-> state[k].event])
         ELSE IF Closes(k, B, G) /\ ~quiet
              THEN Append(told[k], [what |-> "resolved", id |-> state[k].event])
              ELSE told[k]

StepTold(k, B, G, quiet) ==
    IF Opens(k, B) THEN Append(told[k], [what |-> "fired", id |-> lastId[k] + 1])
    ELSE IF Closes(k, B, G) /\ ~quiet
         THEN Append(told[k], [what |-> "resolved", id |-> state[k].event])
         ELSE told[k]

\* Every key of B is stepped with bad=True, every key of G with bad=False.
Judge(B, G, quiet) ==
    /\ \A k \in Keys : Opens(k, B) => lastId[k] < MaxEvents
    /\ state' = [k \in Keys |-> StepState(k, B, G)]
    /\ events' = [k \in Keys |-> StepRows(k, B, G)]
    /\ told' = [k \in Keys |-> StepTold(k, B, G, quiet)]
    /\ lastId' = [k \in Keys |-> IF Opens(k, B) THEN lastId[k] + 1 ELSE lastId[k]]
    /\ clear' = [k \in Keys |-> IF k \in B \cup G /\ ~Bad(k, B) THEN now ELSE clear[k]]

-----------------------------------------------------------------------------
(***************************************************************************)
(* The callers.                                                            *)
(***************************************************************************)

\* live.ingest: a fast sample keeps the slow parts of the previous one, a
\* refresh takes only what came.
Merge(s, refresh, parts) == IF refresh THEN parts ELSE slow[s]

Reading(kind, d) == d[Source(kind)]

\* The keys a merged sample finds at or over their threshold.
BadDisks(s, m) ==
    {k \in DiskKeys(s) : /\ m.disks # Nil
                         /\ k[3] \in DOMAIN m.disks
                         /\ Reading(k[1], m.disks[k[3]]) >= rules[k[1]].threshold}

DockerAnswered(m) == m.containers # Nil /\ ~m.docker_err

BadContainers(s, m) ==
    {k \in ContainerKeys(s) : /\ DockerAnswered(m)
                              /\ k[3] \in DOMAIN m.containers
                              /\ m.containers[k[3]]}

BadHost(s, host) == {k \in HostKeys(s) : host[k[1]] >= rules[k[1]].threshold}

\* The other keys stepped by the sample: judged good, or settled because
\* their subject is no longer reported. Disks are settled only by a merged
\* sample that has a disk list, containers only when Docker answered.
\* Mutant: disks and containers are settled by every sample.
M_GoodKeys(s, m, B) ==
    (HostKeys(s) \cup DiskKeys(s) \cup ContainerKeys(s)) \ B

GoodKeys(s, m, B) ==
    (HostKeys(s) \cup (IF m.disks # Nil THEN DiskKeys(s) ELSE {})
                 \cup (IF DockerAnswered(m) THEN ContainerKeys(s) ELSE {})) \ B

EvaluateSample(s, host, refresh, parts) ==
    LET m == Merge(s, refresh, parts)
        B == BadHost(s, host) \cup BadDisks(s, m) \cup BadContainers(s, m)
    IN /\ slow' = [slow EXCEPT ![s] = m]
       /\ Judge(B, GoodKeys(s, m, B), FALSE)
       /\ UNCHANGED <<now, started, rules>>

\* The ticker: every enrolled server that ever reported is judged silent or
\* not; S is the enrolled ones that have a last_seen.
EvaluateOffline(S, silent) ==
    /\ now - started >= StartupGrace
    /\ Judge({OfflineKey(s) : s \in silent}, {OfflineKey(s) : s \in S \ silent}, FALSE)
    /\ UNCHANGED <<now, started, rules, slow>>

\* A finished probe: `fails` in a row, and days left on the certificate (or
\* none known, which leaves the certificate's alert as it is).
EvaluateCheck(c, fails, days) ==
    LET B == {k \in {CheckKey(c)} : fails >= rules["check"].threshold}
               \cup {k \in {CheckCertKey(c)} : days # Nil /\ days <= rules["cert"].threshold}
        G == ({CheckKey(c)} \cup {k \in {CheckCertKey(c)} : days # Nil}) \ B
    IN /\ Judge(B, G, FALSE)
       /\ UNCHANGED <<now, started, rules, slow>>

\* checks.forget: a deleted or disabled check.
ForgetCheck(c) ==
    /\ Judge({}, {CheckKey(c), CheckCertKey(c)}, TRUE)
    /\ UNCHANGED <<now, started, rules, slow>>

\* domains._alert_certs: the certificates the agent of s lists (days left
\* each); those of s that are no longer listed are settled.
AlertCerts(s, certs) ==
    LET B == {k \in CertKeys(s) : k[3] \in DOMAIN certs /\ certs[k[3]] <= rules["cert"].threshold}
    IN /\ Judge(B, CertKeys(s) \ B, FALSE)
       /\ UNCHANGED <<now, started, rules, slow>>

\* The end of a backup run of plan p on server s.
BackupEnds(s, p, failed) ==
    /\ LET k == BackupKey(s, p)
       IN Judge(IF failed THEN {k} ELSE {}, IF failed THEN {} ELSE {k}, FALSE)
    /\ UNCHANGED <<now, started, rules, slow>>

\* forget_subject("backup", plan): the plan was deleted.
ForgetPlan(p) ==
    /\ Judge({}, {BackupKey(s, p) : s \in Servers}, TRUE)
    /\ UNCHANGED <<now, started, rules, slow>>

\* forget_server: one UPDATE over the table, then the dictionary entries.
ForgetServer(s) ==
    /\ events' = [k \in Keys |->
                    IF k[2] = s
                    THEN {IF r.ended = Nil THEN [r EXCEPT !.ended = now] ELSE r : r \in events[k]}
                    ELSE events[k]]
    /\ state' = [k \in Keys |-> IF k[2] = s THEN Nil ELSE state[k]]
    /\ slow' = [slow EXCEPT ![s] = NoSlow]       \* live.forget
    /\ clear' = [k \in Keys |-> IF k[2] = s THEN now ELSE clear[k]]
    /\ UNCHANGED <<now, started, rules, lastId, told>>

\* update_rule and reload: open events keep running until the next step.
UpdateRule(kind, row) ==
    /\ rules' = [rules EXCEPT ![kind] = row]
    /\ UNCHANGED <<now, started, state, events, lastId, slow, told, clear>>

\* metrics.prune: ended events leave the table after KeepEvents.
Prune ==
    /\ events' = [k \in Keys |->
                    {r \in events[k] : r.ended = Nil \/ r.ended >= now - KeepEvents}]
    /\ UNCHANGED <<now, started, rules, state, lastId, slow, told, clear>>

\* Mutant: start-up does not reload open events.
M_Seed(k) == Nil

\* seed(): the dictionary entry rebuilt for k from the open rows (the last
\* row read wins).
Seed(k) ==
    LET open == {r \in events[k] : r.ended = Nil}
    IN IF open = {} THEN Nil
       ELSE LET r == CHOOSE r \in open : \A q \in open : q.id <= r.id
            IN [since |-> r.started, event |-> r.id]

\* The hub stops (or dies) and comes up again: memory is lost.
Restart ==
    /\ started' = now
    /\ state' = [k \in Keys |-> Seed(k)]
    /\ slow' = [s \in Servers |-> NoSlow]
    /\ UNCHANGED <<now, rules, events, lastId, told, clear>>

Tick ==
    /\ now < MaxNow
    /\ now' = now + 1
    /\ UNCHANGED <<started, rules, state, events, lastId, slow, told, clear>>

-----------------------------------------------------------------------------
Sample ==
    \E s \in Servers, host \in [HostKinds -> Levels] :
        \/ EvaluateSample(s, host, FALSE, NoSlow)
        \/ \E parts \in SlowParts : EvaluateSample(s, host, TRUE, parts)

Ticker == \E S \in SUBSET Servers : \E silent \in SUBSET S : EvaluateOffline(S, silent)

CheckProbed == \E c \in Checks, fails \in Levels, days \in Levels \cup {Nil} :
                   EvaluateCheck(c, fails, days)

CheckForgotten == \E c \in Checks : ForgetCheck(c)

CertsListed == \E s \in Servers, C \in SUBSET Certs :
                   \E certs \in [C -> Levels] : AlertCerts(s, certs)

BackupEnded == \E s \in Servers, p \in Plans, failed \in BOOLEAN : BackupEnds(s, p, failed)

PlanDeleted == \E p \in Plans : ForgetPlan(p)

ServerDeleted == \E s \in Servers : ForgetServer(s)

RuleEdited == \E kind \in EditedKinds, row \in RuleSettings : UpdateRule(kind, row)

Next ==
    \/ Sample \/ Ticker \/ CheckProbed \/ CheckForgotten \/ CertsListed
    \/ BackupEnded \/ PlanDeleted \/ ServerDeleted \/ RuleEdited
    \/ Prune \/ Restart \/ Tick

Spec == Init /\ [][Next]_vars

-----------------------------------------------------------------------------
(***************************************************************************)
(* Properties.                                                             *)
(***************************************************************************)

\* The type of every variable.
TypeOK ==
    /\ now \in Nat /\ started \in Nat
    /\ rules \in [Kinds -> RuleType]
    /\ state \in [Keys -> {Nil} \cup [since : Nat, event : Nat \cup {Nil}]]
    /\ events \in [Keys -> SUBSET Row]
    /\ lastId \in [Keys -> Nat]
    /\ slow \in [Servers -> SlowParts]
    /\ told \in [Keys -> Seq(Notice)]
    /\ clear \in [Keys -> Nat]

OpenRows(k) == {r \in events[k] : r.ended = Nil}

\* The dictionary and the table agree, whatever calls came in whatever order
\* and whenever the hub restarted: the entry of a key names an event exactly
\* when that row is open, with the same start. In particular a key never has
\* two open events and no open event is orphaned (nobody left to end it).
StateMatchesTable ==
    \A k \in Keys :
        IF state[k] = Nil \/ state[k].event = Nil
        THEN OpenRows(k) = {}
        ELSE OpenRows(k) = {[id |-> state[k].event, started |-> state[k].since, ended |-> Nil]}

Fired(id)    == [what |-> "fired", id |-> id]
Resolved(id) == [what |-> "resolved", id |-> id]

\* The notice n is among those of t.
Said(n, t) == \E i \in DOMAIN t : t[i] = n

\* No notice twice, and a resolved only after its alert.
SaidOnce(t) ==
    /\ \A i, j \in DOMAIN t : t[i] = t[j] => i = j
    /\ \A j \in DOMAIN t : t[j].what = "resolved" =>
         \E i \in DOMAIN t : i < j /\ t[i] = Fired(t[j].id)

\* "Notify once; when it clears, notify once more": no event is announced or
\* resolved twice, restarts included, and a resolved is preceded by its alert.
NotifyOnce == \A k \in Keys : SaidOnce(told[k])

\* What the engine keeps is consistent: the types, dictionary against table,
\* and the notices.
EngineConsistent == TypeOK /\ StateMatchesTable /\ NotifyOnce

\* An event that is open was announced and is not yet announced as resolved.
OpenMeansFiring ==
    \A k \in Keys : \A r \in OpenRows(k) :
        Said(Fired(r.id), told[k]) /\ ~Said(Resolved(r.id), told[k])

\* The time a condition is counted from never reaches back over a moment at
\* which it was judged clear: pending time does not survive a good reading.
SinceLastClear ==
    \A k \in Keys : state[k] # Nil => state[k].since >= clear[k]

\* Only evidence ends a disk or container alert. While the rule stays
\* enabled and the server is not deleted, such an event ends only in a step
\* whose merged sample has a disk list (an answer from Docker) in which the
\* subject is fine or gone: a fast sample after a restart, or a Docker error,
\* resolves nothing.
EndsOnEvidence ==
    [][\A s \in Servers : \A k \in DiskKeys(s) \cup ContainerKeys(s) :
          /\ OpenRows(k) # {} /\ OpenRows(k)' = {} /\ rules[k[1]].enabled
          => \/ /\ k \in DiskKeys(s) /\ slow'[s].disks # Nil
                /\ k[3] \in DOMAIN slow'[s].disks =>
                     Reading(k[1], slow'[s].disks[k[3]]) < rules[k[1]].threshold
             \/ /\ k \in ContainerKeys(s) /\ DockerAnswered(slow'[s])
                /\ k[3] \in DOMAIN slow'[s].containers => ~slow'[s].containers[k[3]]
             \/ ForgetServer(s)]_vars

-----------------------------------------------------------------------------
(***************************************************************************)
(* The promise of module AlertLife, read off the table: the open event of  *)
(* a key is the row that is open.                                          *)
(***************************************************************************)
OpenEvent(k) ==
    IF OpenRows(k) = {} THEN Nil ELSE (CHOOSE r \in OpenRows(k) : TRUE).id

Life == INSTANCE AlertLife WITH
            open <- [k \in Keys |-> OpenEvent(k)], told <- told

\* The engine, with its dictionary, its table and its restarts, implements
\* the alert life cycle: one announcement per event, at most one end, and no
\* step (a restart, a prune, a rule edit) that is visible otherwise.
LifeCycle == Life!LifeSpec
=============================================================================
