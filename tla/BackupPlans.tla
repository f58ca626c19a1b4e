----------------------------- MODULE BackupPlans -----------------------------
(***************************************************************************)
(* The scheduler of backups (hub/icsd_hub/backups.py): the plans, the      *)
(* ticker that starts due ones, manual runs, the tasks in _running, the    *)
(* rows of backup_runs. What a run does in detail is module BackupRun;     *)
(* here it works for a while and ends well or badly. The alert of a failed *)
(* run is in module Alerts (BackupEnds, ForgetPlan).                       *)
(*                                                                         *)
(* A task keeps the plan row it read when it started (_run(plan, run_id)), *)
(* while the plan may be edited, deleted, or deleted and replaced by a new *)
(* plan with the same id: SQLite hands out the largest id plus one.        *)
(***************************************************************************)
EXTENDS NextRun, FiniteSets

CONSTANTS
    Servers,      \* ids of servers
    MaxPlans,     \* bound: plans that exist at one time
    MaxParallel,  \* MAX_PARALLEL
    EveryHours, StartHours,  \* the schedules an administrator may choose
    Times,        \* bound: the moments the model looks at, 0 among them
    Nil

ASSUME PlansAssumption ==
    /\ MaxPlans \in Nat /\ MaxParallel \in Nat
    /\ Times \subseteq Nat /\ 0 \in Times
    /\ EveryHours \subseteq 1 .. 720 /\ StartHours \subseteq 0 .. 23
    /\ Nil \notin Servers

PlanIds == 1 .. MaxPlans

VARIABLES
    now,       \* the clock
    known,     \* servers that have a row
    online,    \* servers with a live socket (live.peek(sid).ws)
    plans,     \* backup_plans: Nil or [server, every, start, enabled, next]
    task,      \* _running: Nil or [server, trigger, over]; over: finished, its
               \* done-callback has not run yet
    row        \* state of the latest row of backup_runs started under this id

vars == <<now, known, online, plans, task, row>>

PlanRow == [server : Servers, every : EveryHours, start : StartHours,
            enabled : BOOLEAN, next : Nat]

TaskRow == [server : Servers, trigger : {"manual", "schedule"}, over : BOOLEAN]

RunState == {"running", "done", "error"}

ASSUME NilIsNoRow == Nil \notin PlanRow \cup TaskRow \cup RunState

Init ==
    /\ now = 0 /\ known = Servers /\ online = {}
    /\ plans = [p \in PlanIds |-> Nil]
    /\ task = [p \in PlanIds |-> Nil]
    /\ row = [p \in PlanIds |-> Nil]

Existing == {p \in PlanIds : plans[p] # Nil}
Running  == {p \in PlanIds : task[p] # Nil}

\* The body of create and update, with its next_run.
Body(server, every, start, enabled) ==
    [server |-> server, every |-> every, start |-> start, enabled |-> enabled,
     next |-> NextRunAt(every, start, now)]

-----------------------------------------------------------------------------
(***************************************************************************)
(* The API.                                                                *)
(***************************************************************************)

Create(p, body) ==
    /\ body.server \in known
    /\ \A q \in Existing : q < p            \* the largest id
    /\ p - 1 \in Existing \cup {0}         \* plus one
    /\ plans' = [plans EXCEPT ![p] = body]
    /\ UNCHANGED <<now, known, online, task, row>>

Update(p, body) ==
    /\ plans[p] # Nil /\ body.server \in known
    /\ plans' = [plans EXCEPT ![p] = body]
    /\ UNCHANGED <<now, known, online, task, row>>

\* The row goes; a run of the plan that is under way goes on.
Delete(p) ==
    /\ plans' = [plans EXCEPT ![p] = Nil]
    /\ UNCHANGED <<now, known, online, task, row>>

\* Mutant: a second task is started over the first.
M_CanStart(p) == plans[p] # Nil

\* start(): 409 while a task of this id is there, 404 without a plan.
CanStart(p) == task[p] = Nil /\ plans[p] # Nil

\* start() for every plan of P: a row and a task each.
StartAll(P, trigger) ==
    /\ task' = [p \in PlanIds |-> IF p \in P
                                  THEN [server |-> plans[p].server, trigger |-> trigger, over |-> FALSE]
                                  ELSE task[p]]
    /\ row' = [p \in PlanIds |-> IF p \in P THEN "running" ELSE row[p]]

RunNow(p) ==
    /\ CanStart(p)
    /\ StartAll({p}, "manual")
    /\ UNCHANGED <<now, known, online, plans>>

-----------------------------------------------------------------------------
(***************************************************************************)
(* The ticker.                                                             *)
(***************************************************************************)
Due(p) ==
    /\ plans[p] # Nil /\ plans[p].enabled /\ plans[p].next <= now
    /\ task[p] = Nil
    /\ plans[p].server \in online

\* Mutant: the limit is looked at once, before the loop.
M_Started == IF Cardinality(Running) >= MaxParallel THEN {} ELSE {p \in PlanIds : Due(p)}

\* The loop takes the due plans in the order of their ids until MaxParallel
\* tasks run, manual ones included.
Started ==
    {p \in PlanIds : /\ Due(p)
                     /\ Cardinality(Running) + Cardinality({q \in 1 .. p - 1 : Due(q)}) < MaxParallel}

Tick ==
    /\ Started # {}
    /\ StartAll(Started, "schedule")
    /\ plans' = [p \in PlanIds |->
                   IF p \in Started
                   THEN [plans[p] EXCEPT !.next = NextRunAt(plans[p].every, plans[p].start, now)]
                   ELSE plans[p]]
    /\ UNCHANGED <<now, known, online>>

-----------------------------------------------------------------------------
(***************************************************************************)
(* A task ends. A run that ends well had its last request answered by a    *)
(* connected agent.                                                        *)
(***************************************************************************)
RunDone(p) ==
    /\ task[p] # Nil /\ ~task[p].over
    /\ task[p].server \in online
    /\ task' = [task EXCEPT ![p].over = TRUE]
    /\ row' = [row EXCEPT ![p] = "done"]
    /\ UNCHANGED <<now, known, online, plans>>

RunError(p) ==
    /\ task[p] # Nil /\ ~task[p].over
    /\ task' = [task EXCEPT ![p].over = TRUE]
    /\ row' = [row EXCEPT ![p] = "error"]
    /\ UNCHANGED <<now, known, online, plans>>

\* The done-callback: _running.pop(plan_id).
Popped(p) ==
    /\ task[p] # Nil /\ task[p].over
    /\ task' = [task EXCEPT ![p] = Nil]
    /\ UNCHANGED <<now, known, online, plans, row>>

-----------------------------------------------------------------------------
(***************************************************************************)
(* The rest of the hub.                                                    *)
(***************************************************************************)
Connect(s) ==
    /\ s \in known \ online
    /\ online' = online \cup {s}
    /\ UNCHANGED <<now, known, plans, task, row>>

Disconnect(s) ==
    /\ s \in online
    /\ online' = online \ {s}
    /\ UNCHANGED <<now, known, plans, task, row>>

\* agents.delete_server: the plans of s go with its row.
DeleteServer(s) ==
    /\ s \in known
    /\ known' = known \ {s} /\ online' = online \ {s}
    /\ plans' = [p \in PlanIds |-> IF plans[p] # Nil /\ plans[p].server = s THEN Nil ELSE plans[p]]
    /\ UNCHANGED <<now, task, row>>

\* Mutant: recover() is not called.
M_Recover(p) == row[p]

\* recover(): rows that were running are marked as failed.
Recover(p) == IF row[p] = "running" THEN "error" ELSE row[p]

\* The hub stops, in whatever step its tasks are, and comes up again.
Restart ==
    /\ task' = [p \in PlanIds |-> Nil]
    /\ row' = [p \in PlanIds |-> Recover(p)]
    /\ online' = {}
    /\ UNCHANGED <<now, known, plans>>

\* Time passes: the tickers in between were late, or found nothing due.
Clock ==
    /\ \E t \in Times : t > now /\ now' = t
    /\ UNCHANGED <<known, online, plans, task, row>>

-----------------------------------------------------------------------------
Edit(p) ==
    \E s \in Servers, e \in EveryHours, h \in StartHours, on \in BOOLEAN :
        Create(p, Body(s, e, h, on)) \/ Update(p, Body(s, e, h, on))

Next ==
    \/ \E p \in PlanIds : \/ Edit(p) \/ Delete(p) \/ RunNow(p)
                          \/ RunDone(p) \/ RunError(p) \/ Popped(p)
    \/ \E s \in Servers : Connect(s) \/ Disconnect(s) \/ DeleteServer(s)
    \/ Tick \/ Restart \/ Clock

Spec == Init /\ [][Next]_vars

-----------------------------------------------------------------------------
(***************************************************************************)
(* Properties.                                                             *)
(***************************************************************************)

\* The type of every variable.
TypeOK ==
    /\ now \in Times
    /\ known \subseteq Servers /\ online \subseteq known
    /\ plans \in [PlanIds -> {Nil} \cup PlanRow]
    /\ task \in [PlanIds -> {Nil} \cup TaskRow]
    /\ row \in [PlanIds -> {Nil} \cup RunState]

\* A row says "running" exactly while a task works on it: no run is left
\* "running" for ever by a restart, a deleted plan or a reused plan id. And
\* the scheduler never has more than MaxParallel runs going, whatever is
\* started by hand in between. (With the types.)
RunsAccounted ==
    /\ TypeOK
    /\ \A p \in PlanIds : row[p] = "running" <=> task[p] # Nil /\ ~task[p].over
    /\ Cardinality({p \in PlanIds : task[p] # Nil /\ task[p].trigger = "schedule"}) <= MaxParallel

\* Two runs under one plan id never work at the same time: ticks, clicks and
\* a new plan that got the id of a deleted one wait for the task to be over.
OneTaskPerPlan ==
    [][\A p \in PlanIds : task[p] # Nil /\ ~task[p].over =>
          task'[p] \in {task[p], [task[p] EXCEPT !.over = TRUE]} \/ Restart]_vars

\* A plan whose period divides the day, or is whole days, is on its start hour.
OnItsHour(pl) ==
    LET grid == IF 24 % pl.every = 0 THEN pl.every ELSE 24
    IN 24 % pl.every = 0 \/ pl.every % 24 = 0
         => (pl.next - pl.start * HourLen) % (grid * HourLen) = 0

\* Every time a plan gets a new next_run (created, edited or started late),
\* it lies ahead of the clock and not further than one period: no slot starts
\* a plan twice, none is skipped. And it does not drift off its hour, however
\* late its runs are started.
NextRunRight ==
    [][\A p \in PlanIds : plans'[p] # Nil /\ plans'[p] # plans[p] =>
          /\ now < plans'[p].next
          /\ plans'[p].next <= now + plans'[p].every * HourLen
          /\ OnItsHour(plans'[p])]_vars
=============================================================================
