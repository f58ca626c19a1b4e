# Verification of ICSD Panel

TLA+ models of ICSD Panel, a hub (Python, FastAPI on one asyncio loop, SQLite) that monitors
and manages servers through agents (Go) which dial in over one WebSocket each. The modules are
translated from the code under `src/hub/icsd_hub` and `src/agent/internal`, and, for the operations
of a single server that version 1 carried out itself, from `src/legacy/v1/backend`; TLC checks them on
small instances and TLAPS proves all their safety properties for every value of the constants (section 4).

`PROJECT.json` lists the components, the runs, the mutants that show that each property can fail,
the source lines behind every definition (`map`), the findings, the hazards and the theorems.

    tlc -config MCHub.cfg MCHub                    # a run
    tlapm AlertsProofs.tla                         # the proofs

## 1. The system

| Component | State it keeps | Operations | Correct when |
|---|---|---|---|
| Alert engine `alerts.py` | `_state` in memory; tables `rules`, `events` | `step` and the evaluators, `settle`, `forget_*`, `seed`, rule edits, pruning | memory and table agree, one message per event and one when it ends, nothing ends without evidence |
| Agent link `agents.py`, `rpc.py` | table `servers`; `_live`: socket, capabilities, waiting requests | enroll, connect, replace, ingest, answer, leave, delete; `rpc.call` | every caller is answered, failed or timed out; a deleted server is gone |
| Agent queue `link.go` | bounded queue, wake channel, session | push, take, requeue, send | order kept, newest kept, no lost wake-up |
| Backup schedule `backups.py` | tables `backup_plans`, `backup_runs`; `_running` | create, update, delete, run, tick, recover | one run per plan, bounded parallelism, right times |
| Backup runs `backups.py`, `actions/backup.go`, `fs.go` | files and uploads on two servers, jobs of an agent | dump, poll, prune, copy, prune, delete | the newest good backup survives, copies are whole, runs end |
| Accounts `auth.py`, `security.py` | tables `users`, `sessions`, `login_fail` | login, 2FA, elevation, account changes | codes used once, sessions hold the present factor, an administrator remains |
| URL checks `checks.py` | table `checks`; `_state` | `run_due`, `forget`, `edited` | alerts open and close on the right number of results |
| Live data `live.py`, `metrics.py` | last sample and the current minute in memory; `samples_1m`, `samples_1h` | ingest, flush, rollup, prune, charts | every sample is counted once in its minute, hour rows become final, charts have no hole |
| Management `manage.py` | table `audit` | relays to the agent | changes are audited |
| Domains `domains.py` | `_cache`, `_dns` | `fetch`, lookups, `refresh_all`, `forget` | nothing older than the cache allows is shown; the alert says what the report says |
| Notifications `notify.py` | setting `notify`; tasks that send | `save`, `send`, `fire`, `jalali` | the token goes only where it was entered for; dates are right |
| Agent requests and jobs `link.go`, `actions/` | slots, jobs, files, a database | about 30 actions behind a policy; dumps, restores and archives as jobs | slots come back, jobs stay known, a restore can be undone |

Version 1 (`src/legacy/v1`) is a panel for one server. Its handlers are coroutines that await nothing while they change something, so they run one at a time on
one event loop; next to them run the threads of a scheduler, and one thread for each deploy a webhook starts. They keep rows of a SQLite table in step with files,
services and programs of the server:

| Component | State it keeps | Operations | Correct when |
|---|---|---|---|
| Sites `sites.py`, `ssl.py` | rows, vhost files, links, certificates, what nginx has loaded | create, enable, disable, delete, issue, renew | nothing is served that is not listed; what is listed is served as listed |
| Python apps `pyapp.py` | rows, directories, units, services, proxy sites | create, deploy (endpoint, webhook threads), control, delete | own ports, wired through; the running code is the code that was pulled, with its packages |
| DNS `dns.py` | zones, records, zone files, BIND | zones and records, apply | secondaries follow every published change |
| Backups `backup.py`, `scheduler.py` | jobs, registrations, archives at a destination | run, retention, restore | the last good archive is kept; a restore restores |
| Files `filemanager.py` | the file system | write, upload, copy, move, delete, rename, archives | nothing is overwritten or lost by an operation not meant to |
| Cron `cron.py` | rows, crontabs | create, enable, delete | the user's own lines stay, jobs are there once |
| Mail `email.py` | domains, mailboxes, aliases, DKIM keys | create and delete, DKIM | maps list what can be delivered; the published key signs |
| Accounts `ftp.py`, `databases.py`, `postgres.py` | system users, databases, rows | create, password, activate, delete | rows describe what is there |
| Alerts `notify.py` | `alert_log` | `check_alerts` | told in time, not twice |

How they interact. An agent's sample arrives in `agent_ws`, goes through `live.ingest` (minute
averages, flush to `samples_1m`) and `alerts.evaluate_sample`. The ticker of `main.py` runs
`evaluate_offline`, `checks.run_due`, `backups.tick` and the nightly pruning. API handlers call
`rpc.call`, which registers a future in `lv.pending`, sends the request on the agent's socket and
waits for the `res` frame that the socket's handler matches by id. Backups run as background tasks
that make many such calls to two agents. `notify.fire` sends messages in tasks of its own.

What makes it hard. The hub is single-threaded, but every `await` lets other coroutines in: what was
read before it may be stale after it (replacement and deletion of a connection, results of probes,
the gap between a guard that ran in a thread and its handler). Memory (`_state`, `_live`, `_running`,
`checks._state`) is lost in a restart and rebuilt from tables or not at all. Requests to agents
may be carried out although their answer is lost or late. SQLite hands out ids of deleted rows again. The
agent's two goroutines share a bounded queue and a channel of capacity one. In version 1 nothing ties a row to what it describes: each handler
changes two to five things in turn, any step can fail or be the last one before a stop, and the threads of the scheduler and of webhooks know neither of
each other nor of the handlers.

The list of these hazards, each at its line and with the properties that would catch it going
wrong, is `hazards` in `PROJECT.json`. Beyond it, without a property so far: two changes of the interval before the sampler reads the
first (link.go:249), the window of the limit on failed logins (auth.py:110), the editor's conflict guard, which compares seconds and only
at the first chunk (fs.go:234), a connection that is overwritten by one that awaited the close of the same predecessor
(agents.py:155), and those among the deviations of section 5.

## 2. The modules

| Module | Models | Atomic step |
|---|---|---|
| `AlertLife` | abstract: what the recipient of messages sees of one key | a change of the open event |
| `Alerts` | `alerts.py` with all its callers, pruning, restart | one call (no function of the file awaits) |
| `AlertsProofs` | theorems about `Alerts` | |
| `AgentLink` | `agents.py`, `live.get/peek/forget`, `rpc.call` | from one `await` to the next |
| `AgentLinkProofs` | theorems about `AgentLink` | |
| `AgentQueue` | `push`, `take`, `requeue`, `session` of `link.go` | one access under the mutex, one channel operation, one write |
| `AgentQueueProofs` | theorems about `AgentQueue` | |
| `NextRun` | `backups.next_run` | (operators) |
| `BackupPlans` | the schedule in `backups.py` | from one `await` to the next |
| `BackupRun` | `_run`, `copy_between`, `wait_job` and the agent actions they call | one request, with each of its outcomes |
| `BackupProofs` | theorems about `NextRun`, `BackupPlans` and `BackupRun` | |
| `Auth` | `auth.py`, the account handlers of `api.py` | a guard, or a handler |
| `AuthProofs` | theorems about `Auth` | |
| `Checks` | `checks.py`, the check handlers of `api.py` | from one `await` to the next |
| `Samples` | dating, accumulation and flush of samples in `live.py`; `rollup`, `prune`, `series` of `metrics.py`; stop, crash and start of the hub | one call (none of them awaits) |
| `SamplesProofs` | theorems about `Samples` | |
| `Manage` | the routes of `manage.py`, `reader` of `link.go`, `Start`, `gc` and `jobStatus` of `actions.go`, the jobs of `db.go` and `fs.go` | a route up to its `await`, one channel or file operation, one phase of a job |
| `Domains` | `domains.py`: the reports of agents and the answers of the DNS in their caches, the alert on certificates | from one `await` to the next |
| `NotifySettings` | `save`, `send` and `fire` of `notify.py`, for one channel | a save; the start and the end of a message |
| `HubProofs` | theorems about `NotifySettings`, `Domains`, `Manage`, `Checks` and `Jalali` | |
| `Jalali` | `jalali()` of `notify.py` against a calendar that is counted day by day | a day |
| `V1` | what the modules of version 1 share: `Nil`, and the steps a handler may end after | |
| `V1Sites`, `V1Dns`, `V1Cron`, `V1Mail`, `V1Accounts`, `V1Files` | `sites.py` and `ssl.py`; `dns.py`; `cron.py`; `email.py`; `ftp.py`, `databases.py` and `postgres.py`; `filemanager.py` | a handler, up to any of its steps |
| `V1Apps` | `pyapp.py`: creation, deploys in threads, deletion | one step of a handler or a thread |
| `V1Backup` | `backup.py`, the registrations of `scheduler.py` | one step of a run; a restore |
| `V1Notify` | `check_alerts` of `notify.py`, by the scheduler and by the endpoint | one step of a check |
| `V1Proofs` | theorems about `V1Sites`, `V1Apps`, `V1Dns`, `V1Backup`, `V1Mail`, `V1Accounts`, `V1Notify`, `V1Cron` and `V1Files` | |
| `MCHub` | `Alerts`, with families of keys and rule rows, and `Samples`, one of them in each behaviour | |
| `MCRelay`, `MCPanel` | two models each, one of them in each behaviour: `AgentLink` and `Manage`; `Auth` and `BackupPlans` | |
| `MCAgent` | `AgentQueue`, `AgentLink` and `BackupRun`, one of them in each behaviour, with the fairness of all three | |
| `MCOperations` | `Domains`, `NotifySettings`, `Jalali` and the nine models of version 1, one of them in each behaviour | |

Reading the models:

- **Alerts.** `state` is `_state`, `events` the table (partitioned by key), `rules` the rule rows.
  `StepState`, `StepRows` and `StepTold` are what `step()` does to one key; `Judge(B, G, quiet)` is a
  caller that steps the keys of `B` with `bad=True` and those of `G` with `bad=False`, each once.
  `told` (the calls of `notify.fire`) and `clear` are history variables. Readings are small numbers and
  thresholds compare with them as in the code.
- **AgentLink.** One server. `Live` objects are numbered because handlers keep the object they got
  after `live.forget`. `conn` is the `await` a handler stands at, `phase` that of a call. The
  close of a socket is awaited (`ConnectReplace`/`Install`, `DeleteServer`/`DeleteFinish`,
  `Enroll`/`EnrollAnswer`), and everything else may happen in between.
- **AgentQueue.** Samples are numbered. `Push` and `Signal` are the two halves of `push`; the session
  is `Dial`, `Hello`, `Take`, `Send`, `Woken` and their failures. `sent` and `born` are history.
- **BackupPlans.** `task` is `_running`, with `over` for a task that is finished but whose
  done-callback has not run. `Tick` is one pass of the loop in `tick()`.
- **BackupRun.** One plan, with a source and a destination. For each request: carried out and
  answered, carried out and the answer lost, failed, and for those in `LateOps` carried out after the
  time-out. Files are numbered by the time stamp in their name and have a length in chunks.
- **Auth.** A request passes its guard (`Guard` puts it in `requests`) and runs its handler in a later
  step. The clock counts TOTP steps; `used` and `factor` are history.
- **Checks.** `round` holds the probe results `run_due` still has to apply, `held` is the entry it
  keeps over `await cert_days` when `forget()` took that entry out of `_state`.
- **Samples.** One server, time in minutes. `acc` and `accMinute` are the accumulator of the Live object, `minutes` and `hours` the two
  tables; an hour row is kept as the minute rows that entered its average. `kept` is history: what came for a minute, less what a
  crash took. Averages are totals and counts, so the rounding to two digits is left out.
- **Manage.** A request of the panel is followed through the hub (`hub`), the wire and the agent (`at`); a job has the name of the request
  that started it. `change` stands for the routes that audit after the answer, `delete` for those that audit before. Files are named
  after the kind of job and the clock, as the code does with seconds, so jobs of one tick collide.

- **Domains.** A caller asks (`FetchAsks`), the agent reads its certificates (`AgentReports`), and the caller goes on (`FetchApplies`) with
  whatever the cache holds by then; lookups alike. `shown` is history: the age of what a caller was given. Reports are abstracted to
  the days one certificate has left. `AlertCerts` is `_alert_certs` with what `alerts.step` does under the rule `cert`: on or off (`UpdateRule`), its
  threshold, and the time `for_s` for which a bad certificate is only pending.
- **NotifySettings.** A form field is absent, empty, an address, or one without `https://`; `entered` is history: the addresses a token was
  entered for.
- **Version 1.** A handler that changes several things one after the other has a parameter `k`: it ends after its first `k` steps, because a
  step raised or the panel was stopped; the last value is the handler that ran to its end. Handlers are not interleaved with handlers (one event loop,
  no `await` between the steps); threads are: webhook deploys (`V1Apps`), scheduled runs (`V1Backup`), the hourly check (`V1Notify`). Variables named
  `clean`, `cut`, `raced`, `stale`, `tainted`, `unread`, `cutOff`, `...Odd`, `loose` are history: they mark what a property excepts, by the event that excuses it.
  What the code does in the excepted case is told in section 5.
  nginx, BIND, systemd, git and mail servers are external and modelled from how the code uses them.
- **V1Apps.** `_install_deps` is two steps: `PipBegins` reads the requirements of the commit that is checked out, `PipEnds` leaves the packages of what was read, so that the
  pulls, installations and restarts of other threads fall in between. `raced` marks an app whose last pull did.
- **V1Mail.** `DkimSetup` ends after the key file, after the setting, or with the answer: a key that was not stored is with the administrator (`given`) only with the last.
- **V1Cron.** `ownLines` is every line the user wrote, `kept` those less what was in a crontab that could not be read before a rewrite, `unread` the users this happened to.
- **V1Accounts.** A name is a word, with or without an upper-case letter; `ServerName` is what the engine makes of it: MySQL's quoted names stay, PostgreSQL's fold.

Common abstractions: message texts, JSON, numbers on charts and log lines are left out; URLs, hosts
and payloads are members of small sets; a probe, a dump or a dial succeeds or fails. SQLite
statements outside an `await` are atomic, as they are in the code (one thread, autocommit).

## 3. The runs

| Run | Instance | Shows |
|---|---|---|
| `hub` | one server with a mount, a container, a check, a certificate and a plan, in three families of callers | memory and table agree and each event is told once (`EngineConsistent`); disk and container alerts end only on evidence (`EndsOnEvidence`); `SinceLastClear`; refinement of `AlertLife` (`LifeCycle`) |
| | hours of 2 minutes, a window of 2 hours, 3 samples up to a minute late or ahead, 8 minutes | `MinutesRight`, `HourFinal`, `ChartWhole` |
| `relay` | three connections, one call, two Live objects, two secrets | `PendingIsWaiting`, `DeletedUnreachable` |
| | two requests of any kind, one slot, two connections, one agent restart, two seconds | `SlotsAccounted`, `FilesWhole` |
| `panel` | two accounts, two sessions, two requests in flight, two secrets | `CodesUsedOnce`, `SessionsHoldFactor`, `AdminRemains` |
| | two plans, one server, periods 5, 6 and 48 h, parallelism 1 | `RunsAccounted`, `OneTaskPerPlan`, `NextRunRight` |
| `checks` | two checks, threshold 2, one restart | `AlertsFollowProbes`, `EveryCheckProbed`, `ChecksTyped` |
| `agent` | a queue of 3 with 7 samples; two connections and one call; three files of two chunks, all kinds of plans, keep 1 | `QueueWhole`, `NoSleepOnSamples`, `EverythingGoesOut`; `CallsEnd`; `BackupsWhole`, `RunEnds` |
| `operations` | the twelve models of `MCOperations`, in fifteen families | `FreshAnswers`, `TokenStaysHome`, `JalaliCounts`, `SitesAgree`, `AppsWhole`, `SecondaryFollows`, `LastArchiveKept`, `NothingLost`, `CrontabWhole`, `MailConsistent`, `AccountsAgree`, `ToldInTime` |
| `link_deleted` | as the connections of `relay`, no calls | violation: a deleted server leaves samples or an open event behind |
| `link_greeting` | the same | violation: a connection whose handler has ended is still the server's |
| `manage_audit` | as the requests of `relay` | violation: a change is not in the audit log |
| `run_keep` | keep 2, a local plan | violation: fewer than `keep` whole backups are left |
| `v1_restore` | one job of a site or a database | violation: a restored site is not what the archive holds |
| `v1_cron_lines` | two users, two jobs, two lines | violation: a user's own line is gone |

The types of the variables are part of `EngineConsistent`, `QueueWhole`, `MinutesRight`, `PendingIsWaiting`, `RunsAccounted`, `BackupsWhole`,
`SessionsHoldFactor` and `SlotsAccounted`, and a property of their own (`ChecksTyped`: `run_due` also has the entry it works on) in `checks`. `OpenMeansFiring` of `Alerts`
is proved only.

Why the bounds are enough (the proofs of section 4 remove them from every invariant and every action property; for the liveness
properties they stay):

- *Alerts* (`MCHub`): keys do not interact except through the caller that steps several of them, so one of a kind suffices, and a behaviour of
  `MCHub` exercises one family of callers (slow samples, URL checks, the others), chosen at its start; two events per key are the least with "one event ended and another open"; `MaxNow` of 2 lets a
  delayed rule (`for_s` = 1) wait, fire, and an ended event outlive `KeepEvents`. Rule settings are one that
  fires at once, one that waits and one that is off.
- *AgentLink* (`MCRelay`): connections are alike and are used in order. Three are the least with one replacing, one replaced and one arriving in between;
  two Live objects the least with a handler on a forgotten one; two secrets the least with a re-install.
- *AgentQueue*: with a queue of 3 and 7 samples the queue overflows while a batch of 3 is under way and is put back.
- *BackupPlans* (`MCPanel`): two plans and a parallelism of 1 make the limit bind; `Times` jumps over none, one and several
  slots; period 5 does not divide the day, 6 does, 48 is two days. `HourLen` = 2 gives every hour an inside.
- *BackupRun*: three files with keep 1 are one kept, one pruned, one under way; two chunks are a first and a final one.
- *Auth* (`MCPanel`): two administrators can delete each other; two requests in flight are the least that race; `MaxNow`
  leaves two present steps, with their neighbours.
- *Checks*: two checks give a batch with a result applied while another waits; the threshold of 2 separates "a failure"
  from "enough failures".
- *Samples* (`MCHub`): hours of 2 minutes and 8 minutes are four hours, so that hours leave the window of 2, minutes and hours are pruned and the
  chart's range ends inside; three samples are the least with one written, one accumulated and one late.
- *MCAgent*: the fair actions of the parts that stand still are disabled (no sample, no connection, no run), so that
  the fairness of all parts together asks no more of a behaviour than that of the part that moves. The connection part has one Live object and
  one secret: what the liveness is about needs a replacement and a loss, not a deletion.
- *Domains*: one server's reports, or the lookups of one name (two families of `MCOperations`); two callers overtake each other; certificates of 0 and 1 days with rules that fire at once, later, at
  another threshold and not at all; `CacheTTL` 2 and requests of up to one tick, within three, let an entry be used, expire and be applied late.
- *NotifySettings*: two tokens and three addresses are the least with "entered for this one, not for that one".
- *Jalali*: from 25 February 1996 to the end of 2039 every day is compared: a whole cycle of 33 years and both kinds of shift between
  leap years of the two calendars.
- *V1Sites*: two sites, since nginx tests all vhosts together; the second one stays a good vhost without TLS. Both layouts.
- *V1Apps*: two apps share two ports without deploys; one app with a handler, a webhook thread and two commits. Two creations in all.
- *V1Dns*: two serial numbers in a day run out; two days, also backwards; two zones, the second without records.
- *V1Backup*: both runners with one content and three seconds, or one runner with restores; retentions of -2, -1, 0 and 1 (a negative one deletes from the front of the list).
- *V1Files*: one root, which is one of the two names, two levels below it (`MaxDepth` 3 with the root), at most five files and directories. *V1Cron*: two users, two jobs, two lines of the first user. *V1Mail*: two domains, two
  selectors, two keys. *V1Accounts*: one account, one database name in two spellings and two engines. *V1Notify*: two subjects, a window of two hours.
- *Manage* (`MCRelay`): two requests, which are used in order, are two jobs at a time, a job and a question about it, or one request more than slots; two seconds let two
  jobs have one stamp or two, and let a job end and be collected; two connections leave a request behind on the first; the restart leaves partial files.

Deadlock checking is off only where the bounds stop the model: used-up connections and calls
(`AgentLink`), files (`BackupRun`), sessions, secrets and the clock (`Auth`), requests
(`Manage`), that is in `MCRelay`, `MCPanel` and `MCAgent`, and in `MCOperations`, where the calendar ends.

### The environment of `Samples`

`Clock` assumes two things the code relies on: an agent that is silent for a minute has been disconnected, which flushes its minute
(it samples every few seconds, and both sides ping), and rollups, which the ticker makes every ten minutes, are never as far
apart as the window of six hours. `WindowAssumption` relates the lengths as the code and its default settings do (15 minutes of
lateness, 6 hours, days of retention).

### Fairness

- `AgentLink`: weak fairness of what asyncio resumes by itself: a close or a send that ends (uvicorn's
  ping time-out ends it at the latest), a future that is done, the timer of `wait_for`, a handler whose socket is closed. No
  fairness for connections, frames, answers or clicks: nobody owes them.
- `AgentQueue`: goroutines that can run do run, writes return within 15 s (`link.go:228`), a dead connection is found by the
  ping. Dialling may fail for ever: `EverythingGoesOut` is about a session that lasts.
- `BackupRun`: `rpc.call` has a time-out and `wait_job` a deadline, so the task always takes its next step.
- `Checks`: the ticker catches every exception and never stops; probes and certificate look-ups have time-outs.

## 4. Proofs

Proved with TLAPS for every value of the constants, from the named `ASSUME`s of the modules and nothing else. These say that
bounds and lengths are naturals (some at least 1 or 2), that `Nil` is none of the values it is compared with, that settings are among those the
code admits (`keep` at least 1, periods of 1 to 720 hours), and how lengths relate where the code relies on it (`WindowAssumption`).
A theorem whose name is followed by one in parentheses states that property of a run. Where a property is not inductive by itself, the invariant it
follows from is named and what it adds is explained.

**`AlertsProofs`.** For all sets of servers, mounts, containers, checks, certificates and plans, any rules and any bound:

- `EngineIsConsistent` (`EngineConsistent`), which combines the next two.
- `TypeCorrect` and `TableAgrees` (`StateMatchesTable`). The inductive invariant is `TableInv` = type correctness and
  `StateMatchesTable`; neither is inductive alone, since a closing step updates the row the dictionary names. All callers are
  instances of one `Judge` step (`NextCases`), so a single lemma about one key (`StepMatches`) covers them; the other actions
  (deletion of a server, pruning, restart through `SeedValue`) have a step each.
- `NotifiesOnce` (`NotifyOnce` and `OpenMeansFiring`). `NoticeInv` adds that every id in a notice or an open row was given out before
  (`IdsGivenOut`): without it a new event could repeat an old announcement. `StepNotices` shows it for one key, with two
  lemmas on appending a notice (`SaidOnceAppend`, `SaidAppend`).
- `EngineImplementsLife` (`LifeCycle`). The engine with its dictionary, table and restarts refines `AlertLife`: the mapped
  `open` is the open row, which is the dictionary's event (`OpenEventValue`); each key fires, resolves, is dropped or stays (`LifeKey`).
- `CountsFromClear` (`SinceLastClear`), through `ClearInv`: the last clear judgement is not in the future (`ClearPast`), so an entry that
  starts now is after it, and `TableInv` tells what a restart puts back.
- `OnlyEvidenceEnds` (`EndsOnEvidence`, an action property). `OthersKeepOpen` shows caller by caller that the
  ticker, the URL checks, certificates and backups step no key of a disk or a container (`SampleKey`: the families of keys are disjoint); `SampleEvidence` that a
  sample that ends one carries a list with the subject fine or gone.

**`AgentQueueProofs`.** For every queue size and any number of samples:

- `QueueIsWhole` (`QueueWhole`), which combines `QueueTypeCorrect`, `SamplesInOrder` and `KeepsNewest`.
- `QueueTypeCorrect`, `SamplesInOrder` (`InOrder`), `KeepsNewest` (`NewestKept`), `NoLostWakeUp` (`NoSleepOnSamples`). The four rest on one
  invariant, `QueueInv`. Order alone is not inductive, for putting a batch back keeps the newest only if there is no
  gap the trimming could count wrongly. `QueueInv` therefore gives the contents: the queue holds the latest samples without a gap,
  the batch has no gap, and between the two there is one only while the queue is full; whatever is neither held nor sent
  is older than the limit or than the agent's process (`NoneMissing`). For the wake-up the condition is carried through the sending state.

**`SamplesProofs`.** For every length of the hour, lateness, window and retention that satisfies `WindowAssumption`:

- `MinutesAreRight` (`MinutesRight`), which combines the next two.
- `SamplesTypeCorrect` and `SamplesCountedOnce` (`MinuteExact`), through `SamplesInv`: to know that pruning takes no minute that will be
  written again, it adds that the accumulated minute is recent (`AccRecent`).
- `HourRowsFinal` (`HourFinal`), through `HourInv`: a row of no samples is no row (`EmptyRows`), a minute without a row has
  entered no hour row, which matters because the rollup skips hours without minutes (`RowsFromMinutes`), and the last rollup is not
  further back than the window (`RolledLately`). That a late sample cannot reach a settled hour is arithmetic over `AccRecent` and the lateness.
- `ChartStaysWhole` (`ChartWhole`). Of an hour before the last rollup's predecessor the row is final (`HourFinal`) and within the retention; of a later one the
  minutes are still there (`WindowKept`). That the chart goes on with the minutes early enough needs `RowsRolled`: no row is of an hour
  the rollup has not passed. `LastRow` gives the latest row, as the least distance from the hour of the rollup (naturals are well-founded).

**`AgentLinkProofs`.** For any number of connections, requests, Live objects and secrets, through one invariant, `LinkInv`:

- `PendingExactly` (`PendingIsWaiting`). A call that is about to send must find its future open (`FreshFutures`), and the requests in
  the table of a Live object are those of calls that wait on this object (`PendingExact`, `PendingServed`).
- `DeletionHolds` (`DeletedUnreachable`): no handler, suspended where it may be, makes a deleted server reachable again.
- `AnswersAreFinal`: a future that has its result keeps it; a late answer, a time-out and the end of the connection do not overwrite each other.

**`AuthProofs`.** For any number of accounts, sessions, secrets and requests between guard and handler, through `AuthInv`:

- `NoReplay` (`CodesUsedOnce`). A secret belongs to one account, as its secret or its pending one (`SecretsOwned`), and no code of it later than
  `totp_last` was accepted (`Unspent`); both are needed, for enrolment moves a secret while requests with its codes are under way.
- `FactorOfSessions` (`SessionsHoldFactor`): a request whose session still exists is of the account the session is of (`SessionsOwned`).
- `AnAdminRemains` (`AdminRemains`): `delete_user` counts the administrators in the handler, not in the guard.

**`BackupProofs`.** For any number of plans, servers and files, any parallelism, any number of chunks and any `keep`:

- `NextRunsRight` (`NextRunRight`). The loop of `next_run` is a recursive function. `Ahead` gives what it ends with as one expression;
  `AheadIsLoop` shows that this satisfies the equation of the loop, and that the two agree is an induction, carried out as "there is no least
  number of steps at which they differ" (`LeastOfNaturals`, from the well-foundedness of the naturals).
- `RunsStayAccounted` (`RunsAccounted`), which is inductive, and `TasksDoNotOverlap` (`OneTaskPerPlan`).
- `BackupsStayWhole` (`BackupsWhole`), through `RunInv`. The run must know what a late request may still do (`LateShape`), that
  the file of the present run is the newest (`CurNewest`), that a job that says "done" has made its file (`Made`, `JobsTrue`), and that
  what was copied so far is a prefix of the source (`CopyTrue`).

**`V1Proofs`.** For any sets of subjects, and at any step a handler may end after:

- `AccountsStayListed` (`AccountsAgree`), inductive with the types. A creation or deletion under one spelling of a name changes what every row of that
  name stands for, which is what `dbOdd` is told by and why it is a function of all names.
- `MailStaysConsistent` (`MailConsistent`), inductive with the types and with the keys given out being among those generated. It excepts domains of which a setup ended between
  its steps, by what `Published` says of these steps.
- `ToldOfInTime` (`ToldInTime`), through `NotifyInv`: a row of `alert_log` is never ahead of the message it stands for.
- `SecondariesFollow` (`SecondaryFollows`), through `CopiesInLine`: of a zone that is not tainted the secondary's copy is behind BIND's, that behind
  the file, that behind the rows, and equal serial numbers mean equal zones.
- `SitesStayListed` (`SitesAgree`), through `SitesInv`: the files of a clean site are those its row asks for, and nginx has loaded what passes its test.
- `LastArchiveStays` (`LastArchiveKept`), through `BackupInv`: a run by itself has the latest name of all, so that no list of expired names holds its
  archive, and until the archive is whole nothing is deleted. The cut of the sorted list that retention makes is reasoned about as a set with cardinalities
  (`ExpiredBefore`, `LeastName`).
- `AppsStayWhole` (`AppsWhole`), through `AppsInv`. The end of a deploy is right because of its middle: packages that are not those of the commit are about to be
  installed by somebody (`Installed`), and a service that does not run what is checked out is about to be restarted by somebody, whoever's thread that is (`Started`).
  Unless a pull fell into it, whatever pip is at work has read the commit that is there (`Fresh`): that is what the exception `raced` is
  for. Creations run beside threads of an earlier app of the name (`Apart`).
- `CrontabsStayWhole` (`CrontabWhole`), for crontabs of any length. The loop of `_strip_managed` is a recursive function over the lines. On a crontab that is
  the user's lines with the block after the k-th of them (`HasBlock`), `AfterLines` gives what the loop has after each line as one expression;
  it satisfies the loop's equation (`AfterIsLoop`) and is the only function that does (`LoopUnique`, again by a least counterexample), so that
  stripping gives back the user's lines (`StripGivesOwn`). `CronInv` adds that a row keeps the user its job was created for: only with it does every change of a row
  rewrite the crontab the property speaks of. Of `kept` the theorem says everything; that it is all the user wrote (`ownLines`) only for users whose crontab was never
  rewritten unread.
- `FilesLoseNothing` (`NothingLost`, an action property), for any roots and names and trees of any depth, through `FilesInv`: everything that exists hangs below
  directories (`Tree`). A copied or moved subtree arrives whole because its target is free, hence nothing is below it, and the target is not
  below its source (`GraftTree`); the paths under the old place and under the new one correspond one to one and in order (`MovedOrder`,
  `MovedBack`). In a list of two the second path meets the tree the first one left.

**`HubProofs`.** For the five parts of the hub it names:

- `TokenNeverRedirected` (`TokenStaysHome`). The property is inductive together with the types (a message never carries `NoToken`). The
  step that needs an argument is a save that leaves the token out: `save` compares the address it will store only after reading the form field one way
  (an empty field counts as the stored address) and stores it reading the field another way (an empty field, or one without
  `https://`, becomes the default); `StoredAddress` shows that what gets past the comparison is still the stored address or the default.
- `AnswersStayFresh` (`FreshAnswers`), through `DomainsInv`: an answer is as old as its cache entry plus what the entry was old when it was stored, which
  is bounded only because requests are given up; the ages of the requests under way belong to the invariant. For the alert it knows that an entry is judged by the rule of
  its time and that what is pending began no later than the entry.
- `SlotsStayAccounted` (`SlotsAccounted`) and `FilesStayWhole` (`FilesWhole`), through `ManageInv`. The
  slots in use are the number of requests at work (`SlotsInv`, with the cardinality of finite sets). A job past `O_EXCL` owns its file until it ends (`OwnsInv`), and
  until the database was changed for the first time every file holds the original contents, since a safety copy made later may not (`UndoInv`).
- `RunDueHoldsItsEntry` (`ChecksTyped`) and `CheckAlertsFollow` (`AlertsFollowProbes`, an action property), through `ChecksInv`: the count of an entry
  is never ahead of the failures that were evaluated (`CountsFollow`), an open alert has both at the threshold (`OpenFailed`), and the entry `run_due`
  holds over `await cert_days` is one result ahead, in `_state` or taken out of it (`HeldFollows`).
- `JalaliAgrees` (`JalaliCounts`), for every day from the first one on. The number of the day grows by one with every Gregorian day, at the ends of months, in
  February and over New Year (`GregStep`). `jalali()` divides that number; every number is some cycles of 33 years, some fours of years, some years and some
  days in exactly the way the divisions find them (`CountedExists`, `JalaliIs`). The first year of four, in all but the ninth four of a cycle, is the
  leap year of the counted calendar (`LeapIs`), so that one day more in the count is one day more in the calendar (`NextCounted`, `MonthStep`).

What proving changed. `LastArchiveKept` excepts jobs with a negative retention, but the history variable behind the exception did not
mark every run of such a job: with a retention of -2 or less a run by itself can lose the last archive, which TLC had not met with -1 alone. The
exception now says what the text says (`RunStarts`), and the instance has -2. The order in which `run_due` takes up the checks is stated in
`Checks` as a condition on the sequence, not with a sorting operator. `CrontabWhole` now says where the block is, and that it is whole, instead of
selecting lines by kind. `V1Files` had paths of three names written out; its depth is a constant now, and `FilesAssumption` says that a root has a name like any
other directory: without it the copy of one root into another had a target outside the paths of the model, which an instance with one root does not meet.

Only model-checked: the liveness properties (`EverythingGoesOut`, `CallsEnd`, `RunEnds`, `EveryCheckProbed`), since fairness
and ENABLED are out of the prover's reach. Every other property of a passing run is stated by a theorem.

## 5. Findings and deviations

Six runs end in a violation, each of something the repository states:

- `link_deleted`: `delete_server` (agents.py:71) says that it removes the server and its history. A handler that still has frames
  of the socket in its buffer, or is suspended in its hand-shake, ingests into a Live object nobody looks up any more: it can
  write a minute to `samples_1m` and open an event for the deleted id afterwards, and nobody is left to end the event.
- `run_keep`: the retention counts files by name. A job that an agent's restart interrupted leaves a partial file under
  the final name, which counts as one of the `keep` copies and pushes a good one out.
- `v1_restore`: an archive of a site holds it under the name of the site (backup.py:44), and `restore_job` unpacks it inside the document
  root (backup.py:324): the content goes into a directory below the site, and the site stays as it was.
- `link_greeting`: a server whose agent has disconnected is offline (test_agents.py:101). A peer that goes away between the accept and the greeting makes `send_text` raise outside the
  `try` (agents.py:163): the handler ends, and `lv.ws` keeps its socket.
- `manage_audit`: "Every change is audited" (manage.py:5, README.md:49). Five routes audit after the answer; when that is lost or late, the change was made and not recorded.
- `v1_cron_lines`: the user's lines remain untouched (cron.py:5). A `crontab -l` that fails counts as an empty crontab (cron.py:49), and the rewrite drops them.

### Deviations seen while modelling

Places where the code departs from what its comments or docs lead one to expect; each is in the models (or named as left out). Most are outside what the properties say. The
following are inside and excepted by a property, in its text or by an assumption, as the item or the comment of the property tells: 11 (`EveryCheckProbed`), 13 (`BackupsWhole`),
14 (`HourFinal`), 15 (`FilesWhole`), 17 (`FreshAnswers`), 19 (`SitesAgree`), 20 (`AppsWhole`), 21 (`SecondaryFollows`), 22 (`LastArchiveKept`), 24 (`CrontabWhole`), 25 (`MailConsistent`),
26 (`AccountsAgree`) and 27 (`ToldInTime`). Items 3, 12 and a part of 24 are what violation runs show:

1. When Docker is removed from a server its containers vanish without an answer of Docker; `settle` is skipped and their alerts stay open
   (alerts.py:201).
2. A re-install closes the installed socket of the old identity, but a connection of the old identity that is suspended in
   `await close` is installed afterwards (agents.py:155-159).
3. The greeting is sent outside the `try`: if it fails, `lv.ws` stays set until the next connection replaces it (agents.py:163); the run `link_greeting`.
4. Frames the kernel accepted on a dead connection are lost although the queue had room (link.go:199): `QueueWhole` speaks of samples whose write failed or
   was not tried.
5. A plan whose period neither divides a day nor is whole days (5 h, 36 h) does not run every N hours: the slots are counted from the
   start hour of the present day (backups.py:45). `NextRunRight` states the absence of drift for the other periods.
6. A run of a plan that was deleted meanwhile fails later and opens an alert nobody closes (backups.py:148).
7. `recover()` records interrupted runs as failed without an alert (backups.py:79), unlike a run that fails (backups.py:143).
8. A plan moved to another server leaves the alert of the old one open (backups.py:142).
9. If the answer to the first chunk is lost, the upload's name is unknown and nothing is aborted; `backupList` removes it a day later
   (backups.py:175).
10. A check deleted or disabled while it is probed gets a new entry and possibly an alert that nobody closes; a new check with the id
    inherits it (checks.py:103-125).
11. A probe that raises something else than `httpx.HTTPError` (`InvalidURL`) drops the results of the whole batch and the rest of the
    tick, every time (checks.py:103, main.py:44). `EveryCheckProbed` assumes that such URLs go away.
12. The README says that every change on a server is recorded in the activity log (README.md:49). The routes of write, upload, mkdir, rename
    and chmod audit after the awaited call, so a change whose answer was lost or late is not (manage.py:198). The run
    `manage_audit`.
13. A `backup.run` carried out after its time-out makes a file that is newer than the present run's and still partial: with `keep` = 1 the
    prune then removes the good one (backups.py:125). `BackupsWhole` excepts exactly such a newer stray file.
14. A hub that is down for more than six hours never rolls up the hours before it went down: the rollup only looks six hours back
    (metrics.py:68), and the minutes are pruned after 15 days.
15. An archive asked for under a name that exists fails and then removes that file (fs.go:527). If it was still being written, its
    job reports the size of whatever has the name by then, or panics on `Stat` of nothing (fs.go:619). `FilesWhole` speaks of an
    archive only while no other is asked for under its name.
16. What programs write to a database between the safety copy and the restore is in neither (db.go:372); the model has no such writes.

17. Domains: a request that fails returns the entry its caller had in hand, although another caller may have put a newer one into the cache; an older
    report may overwrite a newer one; a lookup that fails is cached as "no records" for 15 minutes; a lookup in flight refills the cache a
    refresh has just emptied; a report that arrives after its server was deleted leaves a cache entry and possibly an alert
    (domains.py:93-98).
18. Notifications: a message that fails is logged and lost, nothing retries it (notify.py:109-119). A form with an empty address field sets
    the default host without asking for the token (notify.py:47, 58).

Version 1:

19. Sites: on RHEL a `.conf.disabled` left behind by a stop is renamed over the vhost just written (sites.py:107). A vhost nginx rejects stays enabled although
    the warning says that the site was disabled (sites.py:172). One bad vhost, or a certificate whose installation failed unnoticed (ssl.py:100), keeps
    nginx from loading the changes of every other site. An unknown site type leaves a row that cannot be rendered.
20. Apps: a creation that fails leaves its directory or unit, which blocks the next attempt under that name and may share its port with another app
    (pyapp.py:56). The failure to make the proxy site is only logged (pyapp.py:232), so that deleting the app deletes a site it did
    not make. A deploy thread may restart a service during its deletion. Deploys of one app do not wait for each other (pyapp.py:530): the packages may end up those of an older
    commit, when the pip that started first ends last, with both deploys reported as done. `AppsWhole` excepts an app whose last pull fell into an installation.
21. DNS: a zone that is deleted and created again starts over with its serial number (dns.py:62), and a stop between a record and its
    new serial publishes the change under the old one: secondaries do not see either.
22. Backups: a deleted job stays registered until the next start (scheduler.py:75). Runs that overlap, or a broken upload of one of them, can push
    out the only whole archive. The prefix `path-var_www-` also matches the archives of `/var/www-old` and the like (backup.py:154). A negative retention
    deletes from the front, and a local destination has no retention at all.
23. Files: "a folder into itself" is decided by comparing strings, so that `/srv/a` cannot be moved into `/srv/ab` (filemanager.py:235). Moving a file
    into its own directory renames it. `compress` overwrites an archive that exists (filemanager.py:346). Roots that do not exist on the
    server (`roots`, filemanager.py:96) are left out of the model: `Roots` are those that do. Operations on symbolic links act on their target.
24. Cron: every user's crontab gets the jobs of all users (cron.py:74), so a job that is disabled or deleted stays in the crontabs of the others. When
    `crontab -l` fails, the user's own lines are lost (cron.py:49), although the docstring says that they are not touched. `CrontabWhole` excepts both (it looks at the user's own jobs, and at the
    lines kept); the second is the run `v1_cron_lines`.
25. Mail: a setup of DKIM that ends half-way leaves a record whose key signs nothing and is nowhere (email.py:220-231): after the key file the key that was published
    is overwritten, and after the setting the answer with a key that could not be stored is missing. `MailConsistent` excepts such a domain until a later setup is sound. An alias may name a domain that is not there (email.py:119); deleting a domain keeps its DKIM key and setting.
26. Accounts: `create_account` adopts a system user that exists, and `delete_account` then removes it (ftp.py:73, 109). A password change opens a
    deactivated account (ftp.py:86). A MySQL database created over a PostgreSQL row keeps the engine of the row (databases.py:67), and the deletion of a
    MySQL database removes a PostgreSQL row of that name (databases.py:103). A preview (`apply=False`) inserts the row all the same.
    PostgreSQL reads names that differ in case as one (postgres.py:54, 94): two rows share a
    database, and deleting the one drops that of the other, which stays listed. `AccountsAgree` excepts that other row.
27. Alerts: two checks that overlap tell of a subject twice, as does a stop between a message and its row (notify.py:138-140).

## 6. Not modelled, and why

- Pure I/O: reading `/proc`, the DNS protocol, the Bot API, running `systemctl`, `certbot`, `docker`.
- One-time work: schema migration, settings, installation scripts.
- The browser code, vendored libraries.
- Of version 1: diagnosis, scans, discovery, logs, certificates found on disk and metrics, which read and parse and keep no state; webmail
  and one-click applications, which run installers; the users of the old panel (single-row changes).
- Not yet: agent policy, edits of files with their conflict guard, extraction of archives, the ring of the one-hour chart, the limit on failed logins (see the plan).

## 7. Plan

Done: the alert engine with its callers; the agent link; the agent queue; backup schedule and runs; accounts; checks; the sample
history; management requests and jobs; domains; notifications; the stateful services of version 1; and the proofs of all their safety properties.

Next, in this order:

1. Composition of `AgentLink` and `Manage`: `rpc.call` with the agent's reader in place of the free `Answer`, abstract specification "a request is carried
   out at most once, and its caller learns of it, fails or times out".
2. Edits of files: uploads in chunks, the conflict guard, two editors of one file.
3. Policy operators (`policy.go` Check, CheckEntry) against a reference definition.
4. The limit on failed logins (`_too_many`, `_fail`, `prune`), in `Auth` or beside it.
5. Proofs: the wire of (1) refined, and the safety of (2) to (4) as they are modelled.
