-------------------------------- MODULE V1Apps --------------------------------
(***************************************************************************)
(* Python apps of panel version 1 (services/pyapp.py): a checked-out       *)
(* directory with its virtual environment, a systemd unit, a proxy site    *)
(* and a row of the table pyapps. A push to the repository redeploys an    *)
(* app in a thread of its own (handle_webhook), so deploys run beside each *)
(* other and beside the steps of the handlers; a handler never runs beside *)
(* a handler (see V1). task[0] is the handler at work, task[1], task[2]... *)
(* are the webhook threads.                                                *)
(*                                                                         *)
(* last_status is left out: it is shown and never read by the panel. Each  *)
(* app has a domain of its own; site is what the sites table has for it.   *)
(***************************************************************************)
EXTENDS V1

CONSTANTS
    AppNames,
    Ports,        \* PORT_MIN .. PORT_MAX
    Threads,      \* bound: webhook deploys at work at the same time
    MaxVersion,   \* bound: commits pushed to the repository
    MaxApps       \* bound: rows inserted

VARIABLES
    head,      \* the latest commit of the repository
    appRow,    \* pyapps: Nil or [id, port]
    appId,     \* the last id handed out (AUTOINCREMENT: never reused)
    dir,       \* app_dir: Nil or [src, deps], the commit and the one installed for
    unit,      \* the unit file: Nil or its port
    running,   \* what the service was last started with: Nil when stopped
    site,      \* the site of the app's domain: Nil, its proxy port, or 0 for a user's own
    task,      \* the handler and the threads: Nil or [op, app, id, port, read]
    cut,       \* history: since the last pull a deploy ended before its restart, or
               \* a deleted app of that name was restarted by a late deploy
    raced,     \* history: the last pull fell into an installation for another commit
    dying,     \* history: delete_app has begun on the app
    stale      \* history: delete_app could not delete the site

\* A row of pyapps, a directory, and what a handler or a thread is at.
AppRecord == [id : Nat \ {0}, port : Ports]
Checkout  == [src : Nat, deps : Nat \cup {Nil}]
\* Its id is 0 while it creates the app; read is the commit whose requirements
\* pip is installing.
AppOps    == {"deps", "pip", "unit", "site", "row", "get", "pull", "restart", "rm", "unsite", "unrow"}
AppTask   == [op : AppOps, app : AppNames, id : Nat, port : Nat, read : Nat]

ASSUME AppsAssumption ==
    Ports \subseteq Nat /\ Nil \notin Nat \cup AppRecord \cup Checkout \cup AppTask

appsVars == <<head, appRow, appId, dir, unit, running, site, task, cut, raced, dying, stale>>

Tasks     == {0} \cup Threads
Idle(t)   == task[t] = Nil
Goes(t, op)  == task' = [task EXCEPT ![t].op = op]
Ends(t)   == task' = [task EXCEPT ![t] = Nil]
AtStep(t, op) == ~Idle(t) /\ task[t].op = op

AppsInit ==
    /\ head = 1 /\ appId = 0
    /\ appRow = [n \in AppNames |-> Nil]
    /\ dir = appRow /\ unit = appRow /\ running = appRow /\ site = appRow
    /\ task = [t \in Tasks |-> Nil]
    /\ cut = [n \in AppNames |-> FALSE] /\ raced = cut /\ dying = cut /\ stale = cut

M_PickPort == CHOOSE p \in Ports : \A q \in Ports : p <= q

\* _pick_port: the least port no row has; raises when there is none.
FreePorts == {p \in Ports : \A n \in AppNames : appRow[n] # Nil => appRow[n].port # p}
PickPort  == CHOOSE p \in FreePorts : \A q \in FreePorts : p <= q

\* A pip is at work on the app for another commit than this one.
Overlaps(n, commit) == \E t \in Tasks : AtStep(t, "pip") /\ task[t].app = n /\ task[t].read # commit

\* The checks, the clone and the virtual environment of a new app. One that
\* fails leaves what failing packages leave, the directory; a clone that
\* fails leaves nothing.
NewDir(n, src) ==
    /\ Idle(0) /\ appRow[n] = Nil /\ dir[n] = Nil /\ FreePorts # {} /\ appId < MaxApps
    /\ dir' = [dir EXCEPT ![n] = [src |-> src, deps |-> Nil]]
    /\ task' = [task EXCEPT ![0] = [op |-> "deps", app |-> n, id |-> 0, port |-> PickPort, read |-> 0]]
    /\ cut' = [cut EXCEPT ![n] = running[n] # Nil]
    /\ raced' = [raced EXCEPT ![n] = Overlaps(n, src)]
    /\ UNCHANGED <<head, appRow, appId, unit, running, site, dying, stale>>

\* A template is a directory that no repository can update.
CreateApp(n)          == NewDir(n, head)
CreateFromTemplate(n) == NewDir(n, 0)

\* _install_deps, of a creation and of a deploy: pip reads requirements.txt
\* when it starts, and is at work for minutes. Without a directory it does
\* nothing, and raises nothing.
PipBegins(t) ==
    LET n == task[t].app
    IN /\ AtStep(t, "deps")
       /\ task' = IF dir[n] = Nil THEN [task EXCEPT ![t].op = "restart"]
                  ELSE [task EXCEPT ![t].op = "pip", ![t].read = dir[n].src]
       /\ UNCHANGED <<head, appRow, appId, dir, unit, running, site, cut, raced, dying, stale>>

\* What follows the packages.
AfterPip(t) == IF task[t].id = 0 THEN "unit" ELSE "restart"

M_PipEnds(t, builds) ==
    LET n == task[t].app
    IN /\ AtStep(t, "pip")
       /\ builds
       /\ dir' = IF task[t].id = 0 /\ dir[n] # Nil THEN [dir EXCEPT ![n].deps = task[t].read] ELSE dir
       /\ Goes(t, AfterPip(t))
       /\ UNCHANGED <<head, appRow, appId, unit, running, site, cut, raced, dying, stale>>

\* pip has installed what it read, or fails, which raises.
PipEnds(t, builds) ==
    LET n == task[t].app
    IN /\ AtStep(t, "pip")
       /\ dir' = IF builds /\ dir[n] # Nil THEN [dir EXCEPT ![n].deps = task[t].read] ELSE dir
       /\ cut' = [cut EXCEPT ![n] = @ \/ ~builds]
       /\ IF builds THEN Goes(t, AfterPip(t)) ELSE Ends(t)
       /\ UNCHANGED <<head, appRow, appId, unit, running, site, raced, dying, stale>>

\* _write_unit, daemon-reload and enable --now, which need not succeed and
\* leaves a service alone that still runs.
CreateUnit(starts) ==
    /\ AtStep(0, "unit")
    /\ LET n == task[0].app
       IN /\ unit' = [unit EXCEPT ![n] = task[0].port]
          /\ running' = IF starts /\ running[n] = Nil THEN [running EXCEPT ![n] = dir[n]] ELSE running
    /\ Goes(0, "site")
    /\ UNCHANGED <<head, appRow, appId, dir, site, cut, raced, dying, stale>>

\* create_site: any exception (the domain has a site) is only logged.
CreateProxy ==
    /\ AtStep(0, "site")
    /\ LET n == task[0].app
       IN site' = IF site[n] = Nil THEN [site EXCEPT ![n] = task[0].port] ELSE site
    /\ Goes(0, "row")
    /\ UNCHANGED <<head, appRow, appId, dir, unit, running, cut, raced, dying, stale>>

InsertApp ==
    /\ AtStep(0, "row")
    /\ appId' = appId + 1
    /\ appRow' = [appRow EXCEPT ![task[0].app] = [id |-> appId + 1, port |-> task[0].port]]
    /\ Ends(0)
    /\ UNCHANGED <<head, dir, unit, running, site, cut, raced, dying, stale>>

\* The deploy endpoint, and a webhook whose signature and branch are right,
\* which starts a thread. Both read the row by its id.
StartDeploy(t, n) ==
    /\ Idle(0) /\ Idle(t) /\ appRow[n] # Nil
    /\ task' = [task EXCEPT ![t] = [op |-> "get", app |-> n, id |-> appRow[n].id, port |-> 0, read |-> 0]]
    /\ UNCHANGED <<head, appRow, appId, dir, unit, running, site, cut, raced, dying, stale>>

\* deploy: get_app; a thread may find its row gone.
DeployGet(t) ==
    /\ AtStep(t, "get")
    /\ LET row == appRow[task[t].app]
       IN IF row # Nil /\ row.id = task[t].id THEN Goes(t, "pull") ELSE Ends(t)
    /\ UNCHANGED <<head, appRow, appId, dir, unit, running, site, cut, raced, dying, stale>>

\* git pull --ff-only: needs a repository, may fail.
DeployPull(t, pulls) ==
    LET n == task[t].app
    IN /\ AtStep(t, "pull")
       /\ pulls => dir[n] # Nil /\ dir[n].src # 0
       /\ dir' = IF pulls THEN [dir EXCEPT ![n].src = head] ELSE dir
       /\ cut' = [cut EXCEPT ![n] = @ /\ ~pulls]
       /\ raced' = IF pulls THEN [raced EXCEPT ![n] = Overlaps(n, head)] ELSE raced
       /\ IF pulls THEN Goes(t, "deps") ELSE Ends(t)
       /\ UNCHANGED <<head, appRow, appId, unit, running, site, dying, stale>>

\* systemctl restart: fails without a unit, and may fail with one.
DeployRestart(t, restarts) ==
    LET n == task[t].app
    IN /\ AtStep(t, "restart")
       /\ restarts => unit[n] # Nil /\ dir[n] # Nil
       /\ running' = IF restarts THEN [running EXCEPT ![n] = dir[n]] ELSE running
       /\ cut' = [cut EXCEPT ![n] = @ \/ ~restarts]
       /\ Ends(t)
       /\ UNCHANGED <<head, appRow, appId, dir, unit, site, raced, dying, stale>>

\* control: start and restart load what is in the directory, stop unloads it.
Control(n, action) ==
    /\ Idle(0) /\ appRow[n] # Nil /\ unit[n] # Nil /\ dir[n] # Nil
    /\ running' = [running EXCEPT ![n] = CASE action = "stop" -> Nil
                                           [] action = "start" /\ @ # Nil -> @
                                           [] action = "start" /\ @ = Nil -> dir[n]
                                           [] action = "restart" -> dir[n]]
    /\ UNCHANGED <<head, appRow, appId, dir, unit, site, task, cut, raced, dying, stale>>

\* delete_app, step by step: disable --now; remove the unit; delete the site
\* (an exception is swallowed); remove the directory if asked; the row.
DeleteApp(n) ==
    /\ Idle(0) /\ appRow[n] # Nil
    /\ task' = [task EXCEPT ![0] = [op |-> "rm", app |-> n, id |-> appRow[n].id, port |-> 0, read |-> 0]]
    /\ dying' = [dying EXCEPT ![n] = TRUE]
    /\ running' = [running EXCEPT ![n] = Nil]
    /\ UNCHANGED <<head, appRow, appId, dir, unit, site, cut, raced, stale>>

DeleteUnit ==
    /\ AtStep(0, "rm")
    /\ unit' = [unit EXCEPT ![task[0].app] = Nil]
    /\ Goes(0, "unsite")
    /\ UNCHANGED <<head, appRow, appId, dir, running, site, cut, raced, dying, stale>>

DeleteProxy(deleted) ==
    LET n == task[0].app
    IN /\ AtStep(0, "unsite")
       /\ site' = IF deleted THEN [site EXCEPT ![n] = Nil] ELSE site
       /\ stale' = [stale EXCEPT ![n] = ~deleted]
       /\ Goes(0, "unrow")
       /\ UNCHANGED <<head, appRow, appId, dir, unit, running, cut, raced, dying>>

DeleteRow(files) ==
    LET n == task[0].app
    IN /\ AtStep(0, "unrow")
       /\ dir' = IF files THEN [dir EXCEPT ![n] = Nil] ELSE dir
       /\ appRow' = [appRow EXCEPT ![n] = Nil]
       /\ dying' = [dying EXCEPT ![n] = FALSE]
       /\ Ends(0)
       /\ UNCHANGED <<head, appId, unit, running, site, cut, raced, stale>>

\* The panel stops, with its handler and its daemon threads.
PanelStops ==
    /\ \E t \in Tasks : ~Idle(t)
    /\ task' = [t \in Tasks |-> Nil]
    /\ cut' = [n \in AppNames |-> \/ cut[n]
                                  \/ \E t \in Tasks : ~Idle(t) /\ task[t].app = n
                                        /\ task[t].op \in {"deps", "pip", "restart"}]
    /\ UNCHANGED <<head, appRow, appId, dir, unit, running, site, raced, dying, stale>>

\* Outside: a commit is pushed; a site of the domain is made or removed by
\* hand; systemd restarts a service that died (Restart=on-failure).
Push ==
    /\ head < MaxVersion
    /\ head' = head + 1
    /\ UNCHANGED <<appRow, appId, dir, unit, running, site, task, cut, raced, dying, stale>>

SiteByHand(n) ==
    /\ Idle(0)
    /\ site' = [site EXCEPT ![n] = IF @ = Nil THEN 0 ELSE Nil]
    /\ stale' = [stale EXCEPT ![n] = FALSE]
    /\ UNCHANGED <<head, appRow, appId, dir, unit, running, task, cut, raced, dying>>

Respawn(n) ==
    /\ running[n] # Nil /\ dir[n] # Nil /\ running[n] # dir[n]
    /\ running' = [running EXCEPT ![n] = dir[n]]
    /\ UNCHANGED <<head, appRow, appId, dir, unit, site, task, cut, raced, dying, stale>>

AppsNext ==
    \/ \E n \in AppNames : CreateApp(n) \/ CreateFromTemplate(n)
    \/ \E starts \in BOOLEAN : CreateUnit(starts)
    \/ CreateProxy \/ InsertApp \/ DeleteUnit
    \/ \E t \in Tasks, n \in AppNames : StartDeploy(t, n)
    \/ \E t \in Tasks : DeployGet(t) \/ PipBegins(t)
    \/ \E t \in Tasks, ok \in BOOLEAN : DeployPull(t, ok) \/ PipEnds(t, ok) \/ DeployRestart(t, ok)
    \/ \E n \in AppNames, action \in {"start", "stop", "restart"} : Control(n, action)
    \/ \E n \in AppNames : DeleteApp(n) \/ SiteByHand(n) \/ Respawn(n)
    \/ \E b \in BOOLEAN : DeleteProxy(b) \/ DeleteRow(b)
    \/ PanelStops \/ Push

AppsSpec == AppsInit /\ [][AppsNext]_appsVars

-----------------------------------------------------------------------------
\* Every listed app has a port of its own, which its unit listens on and its
\* proxy site points to, through failed creations that are repeated under
\* another name, deletions and stops: except while it is being deleted, or
\* when the site is not one create_app made for it.
AppsWired ==
    \A n \in AppNames : appRow[n] # Nil /\ ~dying[n] =>
        /\ unit[n] = appRow[n].port
        /\ site[n] \in {Nil, 0, appRow[n].port} \/ stale[n]
        /\ \A m \in AppNames \ {n} : appRow[m] # Nil => appRow[m].port # appRow[n].port

\* The app runs, and nobody is between its pull and its restart, or was cut
\* short there.
Settled(n) ==
    /\ appRow[n] # Nil /\ running[n] # Nil /\ dir[n] # Nil /\ ~cut[n]
    /\ \A t \in Tasks : task[t] # Nil /\ task[t].app = n => task[t].op \notin {"deps", "pip", "restart"}

\* However many deploys of an app overlap, when it is settled the service runs
\* what is checked out and installed, and these are the packages of the commit:
\* except when a pull fell into an installation for another commit, and no
\* pull came since. (handle_webhook starts a thread for each push, and the pip
\* of an earlier one may end after that of a later one.)
RunsWhatWasPulled ==
    \A n \in AppNames : Settled(n) => running[n] = dir[n] /\ (raced[n] \/ dir[n].deps = dir[n].src)

\* Both: each listed app is reachable, and is the one that was deployed.
AppsWhole == AppsWired /\ RunsWhatWasPulled
=============================================================================
