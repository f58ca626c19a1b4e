-------------------------------- MODULE Manage --------------------------------
(***************************************************************************)
(* Management of one server: the hub's routes relay a request to the agent *)
(* and write the audit log (manage.py), the agent runs it in one of its    *)
(* slots (link.go), and long work goes on as a job of the agent that the   *)
(* hub asks about later (actions.go): dumps and restores of a database     *)
(* (db.go) and archives (fs.go). Time-outs of the hub, lost connections,   *)
(* panics and restarts of the agent may come between any two steps.        *)
(*                                                                         *)
(* A request starts at most one job, which is named after it. Of the one   *)
(* database the model knows whether its contents are the original ones.    *)
(* A dump contains what the database contained when it began; writes of    *)
(* other programs to the database are left out, and so are the requests    *)
(* that only read, but for job.status.                                     *)
(***************************************************************************)
EXTENDS Naturals, FiniteSets

CONSTANTS
    Requests,    \* bound: requests made in the panel
    MaxSlots,    \* requests an agent runs at a time (8)
    KeepJobs,    \* how long an ended job is known (6 hours)
    MaxNow,      \* bound: the clock stops here
    MaxSessions, \* bound: connections of the agent
    MaxRestarts  \* bound: restarts of the agent

ASSUME BoundsAssumption ==
    /\ IsFiniteSet(Requests) /\ "none" \notin Requests /\ MaxSlots \in Nat \ {0}
    /\ KeepJobs \in Nat /\ MaxNow \in Nat /\ MaxSessions \in Nat \ {0} /\ MaxRestarts \in Nat

\* A mkdir, rename, chmod, write or upload: audited after the answer. A delete,
\* service or container action or console command: audited before, like the
\* requests that start a job. A restore is sent with a backup file to read.
JobOps == {"dump", "restore", "archive"}
Ops    == {"change", "delete", "status"} \cup JobOps

Nobody == [op |-> "none", at |-> "idle", session |-> 0, hub |-> "idle", res |-> "none"]
NoJob  == [state |-> "none", step |-> "none", stamp |-> 0, ended |-> 0]
NoFile == [there |-> FALSE, whole |-> FALSE, by |-> "none", data |-> "none"]

\* A dump is named after its database and the second; archives are asked for
\* under one name.
Names == [dir : {"dump", "restore"}, stamp : 0 .. MaxNow] \cup {[dir |-> "archive", stamp |-> 0]}

VARIABLES
    session,  \* the agent's connection, 0 for none
    sessions, \* connections so far
    request,  \* per request: where it is in the agent, and at the hub
    slots,    \* len(a.slots)
    jobs,     \* Runner.jobs, with the step a job is at
    process,  \* the agent's process, counted from 1
    files,    \* the backup directory and the archive
    db,       \* the contents of the database
    now,      \* the clock of the agent
    audit,    \* requests in the audit table
    done      \* history: requests that changed something on the server

vars == <<session, sessions, request, slots, jobs, process, files, db, now, audit, done>>
agent == <<slots, jobs, process, files, db, now, done>>

Init ==
    /\ session = 1 /\ sessions = 1
    /\ request = [r \in Requests |-> Nobody]
    /\ slots = 0 /\ jobs = [r \in Requests |-> NoJob]
    /\ process = 1
    /\ files = [n \in Names |-> NoFile] /\ db = "original"
    /\ now = 0 /\ audit = {} /\ done = {}

\* The record of a request at the hub, and in the agent.
HubHas(r, hub)  == request' = [request EXCEPT ![r].hub = hub]
AgentHas(r, at, res) == request' = [request EXCEPT ![r].at = at, ![r].res = res]

-----------------------------------------------------------------------------
(***************************************************************************)
(* The hub: manage.py and rpc.call.                                        *)
(***************************************************************************)

\* The routes that audit before they call.
AuditedFirst(op) == op \in JobOps \cup {"delete"}

\* A route up to its await; an agent that is offline fails it at once.
Ask(r, op) ==
    /\ request[r] = Nobody
    /\ audit' = IF AuditedFirst(op) THEN audit \cup {r} ELSE audit
    /\ request' = [request EXCEPT ![r] =
          IF session = 0 THEN [@ EXCEPT !.op = op, !.hub = "failed"]
          ELSE [@ EXCEPT !.op = op, !.hub = "waiting", !.at = "sent", !.session = session]]
    /\ UNCHANGED <<session, sessions, agent>>

\* The answer arrives; the routes left audit now, if it is no error.
Answered(r) ==
    /\ request[r].hub = "waiting" /\ request[r].at = "replied"
    /\ HubHas(r, IF request[r].res = "ok" THEN "ok" ELSE "error")
    /\ audit' = IF request[r].res = "ok" /\ request[r].op # "status" THEN audit \cup {r} ELSE audit
    /\ UNCHANGED <<session, sessions, agent>>

TimedOut(r) ==
    /\ request[r].hub = "waiting"
    /\ HubHas(r, "failed")
    /\ UNCHANGED <<session, sessions, audit, agent>>

\* The connection ends, or the hub with it: every waiting route fails, and
\* frames on their way are lost.
Lose ==
    /\ session # 0 /\ session' = 0
    /\ request' = [r \in Requests |->
          [request[r] EXCEPT !.hub = IF @ = "waiting" THEN "failed" ELSE @,
                             !.at = IF @ = "sent" THEN "dropped" ELSE @]]
    /\ UNCHANGED <<sessions, audit, agent>>

Connect ==
    /\ session = 0 /\ sessions < MaxSessions
    /\ sessions' = sessions + 1 /\ session' = sessions + 1
    /\ UNCHANGED <<request, audit, agent>>

-----------------------------------------------------------------------------
(***************************************************************************)
(* The agent: reader in link.go, Handle and Start in actions.go.           *)
(***************************************************************************)

\* The send to the buffered channel of slots does not block.
Free == slots < MaxSlots

\* reader takes a slot for the request, or answers that all are taken.
Receive(r) ==
    /\ request[r].at = "sent"
    /\ IF Free
       THEN slots' = slots + 1 /\ AgentHas(r, "running", request[r].res)
       ELSE slots' = slots /\ AgentHas(r, "replied", "busy")
    /\ UNCHANGED <<session, sessions, jobs, process, files, db, now, audit, done>>

Returns(r, res) == AgentHas(r, "returned", res)

Running(r, ops) == request[r].at = "running" /\ request[r].op \in ops

\* A handler that changes something.
Carry(r) ==
    /\ Running(r, {"change", "delete"})
    /\ Returns(r, "ok") /\ done' = done \cup {r}
    /\ UNCHANGED <<session, sessions, slots, jobs, process, files, db, now, audit>>

\* A handler that is refused, fails or panics. A deletion or a command may
\* have done a part.
HandlerFails(r) ==
    /\ Running(r, Ops) /\ Returns(r, "error")
    /\ done' \in {done} \cup (IF request[r].op = "delete" THEN {done \cup {r}} ELSE {})
    /\ UNCHANGED <<session, sessions, slots, jobs, process, files, db, now, audit>>

\* gc, called by Start: the jobs it removes.
Collected(j) == j.state \notin {"none", "running"} /\ j.ended + KeepJobs < now

\* A handler that starts a job; a dump has its file name from here.
StartJob(r) ==
    /\ Running(r, JobOps) /\ Returns(r, "ok")
    /\ jobs' = [q \in Requests |->
          IF q = r THEN [NoJob EXCEPT !.state = "running", !.step = "begin", !.stamp = now]
          ELSE IF Collected(jobs[q]) THEN NoJob ELSE jobs[q]]
    /\ UNCHANGED <<session, sessions, slots, process, files, db, now, audit, done>>

\* jobStatus of job q.
JobStatus(r, q) ==
    /\ Running(r, {"status"})
    /\ Returns(r, IF jobs[q].state = "none" THEN "error" ELSE "ok")
    /\ UNCHANGED <<session, sessions, agent, audit>>

\* Mutant: the slot is only given back when the answer was sent.
M_Reply(r) ==
    /\ request[r].at = "returned"
    /\ AgentHas(r, IF request[r].session = session THEN "replied" ELSE "dropped", request[r].res)
    /\ slots' = IF request[r].session = session THEN slots - 1 ELSE slots
    /\ UNCHANGED <<session, sessions, jobs, process, files, db, now, audit, done>>

\* The answer goes out on the connection of the request, if that is still
\* there; then the slot is free.
Reply(r) ==
    /\ request[r].at = "returned"
    /\ AgentHas(r, IF request[r].session = session THEN "replied" ELSE "dropped", request[r].res)
    /\ slots' = slots - 1
    /\ UNCHANGED <<session, sessions, jobs, process, files, db, now, audit, done>>

-----------------------------------------------------------------------------
(***************************************************************************)
(* Jobs.                                                                   *)
(***************************************************************************)

At(r, step) == jobs[r].state = "running" /\ jobs[r].step = step

\* The end of the goroutine in Start.
JobEnds(r, state) == jobs' = [jobs EXCEPT ![r].state = state, ![r].ended = now]

GoesOn(r, step) == jobs' = [jobs EXCEPT ![r].step = step]

\* What a job leaves alone.
jobFrame == <<session, sessions, request, slots, process, now, audit>>

\* The file a job writes; a restore names its safety copy when it makes it.
FileOf(r) ==
    LET op == request[r].op
    IN [dir |-> op, stamp |-> IF op = "archive" THEN 0 ELSE jobs[r].stamp]

SafetyAt(r, t) == IF request[r].op = "restore" THEN [FileOf(r) EXCEPT !.stamp = t] ELSE FileOf(r)

\* O_CREATE|O_EXCL in dumpTo and writeTarGz.
Open(r) ==
    LET n == SafetyAt(r, now)
    IN /\ At(r, "begin") /\ ~files[n].there
       /\ files' = [files EXCEPT ![n] = [there |-> TRUE, whole |-> FALSE, by |-> r, data |-> db]]
       /\ jobs' = [jobs EXCEPT ![r].step = "writing", ![r].stamp = n.stamp]
       /\ done' = done \cup {r}
       /\ UNCHANGED <<jobFrame, db>>

\* Mutant: dumpTo removes the file also when it could not create it.
M_AfterRefusal(n) == [files EXCEPT ![n] = NoFile]

\* dumpTo returns before it defers the removal; fsArchive removes dest on
\* every error.
AfterRefusal(n) == IF n.dir = "archive" THEN [files EXCEPT ![n] = NoFile] ELSE files

OpenFails(r) ==
    LET n == SafetyAt(r, now)
    IN /\ At(r, "begin") /\ files[n].there
       /\ files' = AfterRefusal(n)
       /\ done' = IF n.dir = "archive" THEN done \cup {r} ELSE done
       /\ JobEnds(r, "error")
       /\ UNCHANGED <<jobFrame, db>>

\* The whole file is written. An archive that was removed meanwhile makes
\* Stat return nil, and the job panics.
Written(r) ==
    LET n == FileOf(r)
        f == files[n]
    IN /\ At(r, "writing")
       /\ files' = [files EXCEPT ![n].whole = IF f.by = r THEN TRUE ELSE @]
       /\ IF request[r].op = "restore" THEN GoesOn(r, "safe")
          ELSE JobEnds(r, IF f.there THEN "done" ELSE "error")
       /\ UNCHANGED <<jobFrame, db, done>>

\* Mutant: a restore goes on without its safety copy.
M_WriteFails(r) ==
    /\ At(r, "writing")
    /\ files' = [files EXCEPT ![FileOf(r)] = NoFile]
    /\ IF request[r].op = "restore" THEN GoesOn(r, "safe") ELSE JobEnds(r, "error")
    /\ UNCHANGED <<jobFrame, db, done>>

\* dumpTo and fsArchive remove the partial file. A failing job ends.
WriteFails(r) ==
    /\ At(r, "writing")
    /\ files' = [files EXCEPT ![FileOf(r)] = NoFile]
    /\ JobEnds(r, "error")
    /\ UNCHANGED <<jobFrame, db, done>>

\* No space (guard), no directory, a file that is no dump of this database:
\* the job ends before it changes anything; or the restore itself fails, and
\* leaves the database as it is then.
JobFails(r) ==
    /\ \E step \in {"begin", "safe", "restoring"} : At(r, step)
    /\ JobEnds(r, "error")
    /\ UNCHANGED <<jobFrame, files, db, done>>

\* The database client begins to read the backup file.
RestoreBegins(r) ==
    /\ At(r, "safe")
    /\ db' = "changed" /\ GoesOn(r, "restoring")
    /\ UNCHANGED <<jobFrame, files, done>>

\* The contents are those of the backup file, which may be a safety copy.
RestoreEnds(r) ==
    /\ At(r, "restoring")
    /\ db' \in {"changed"} \cup {files[n].data : n \in {m \in Names : files[m].whole /\ m.dir # "archive"}}
    /\ JobEnds(r, "done")
    /\ UNCHANGED <<jobFrame, files, done>>

\* The agent's process ends and is started again. Its goroutines are gone,
\* files and database are as they were left.
AgentRestarts ==
    /\ process <= MaxRestarts /\ process' = process + 1
    /\ session' = 0 /\ slots' = 0
    /\ jobs' = [r \in Requests |-> NoJob]
    /\ request' = [r \in Requests |->
          [request[r] EXCEPT !.hub = IF @ = "waiting" THEN "failed" ELSE @,
                             !.at = IF @ \in {"sent", "running", "returned"} THEN "dropped" ELSE @]]
    /\ UNCHANGED <<sessions, files, db, now, audit, done>>

Clock ==
    /\ now < MaxNow /\ now' = now + 1
    /\ UNCHANGED <<session, sessions, request, slots, jobs, process, files, db, audit, done>>

Job(r) ==
    \/ Open(r) \/ OpenFails(r) \/ Written(r) \/ WriteFails(r) \/ JobFails(r)
    \/ RestoreBegins(r) \/ RestoreEnds(r)

Next ==
    \/ \E r \in Requests, op \in Ops : Ask(r, op)
    \/ \E r \in Requests : Answered(r) \/ TimedOut(r) \/ Receive(r) \/ Carry(r)
                           \/ HandlerFails(r) \/ StartJob(r) \/ Reply(r) \/ Job(r)
    \/ \E r, q \in Requests : JobStatus(r, q)
    \/ Lose \/ Connect \/ AgentRestarts \/ Clock

Spec == Init /\ [][Next]_vars

-----------------------------------------------------------------------------
(***************************************************************************)
(* Properties.                                                             *)
(***************************************************************************)

\* The type of every variable.
TypeOK ==
    /\ session \in 0 .. sessions /\ sessions \in 1 .. MaxSessions /\ now \in 0 .. MaxNow
    /\ \A r \in Requests :
          /\ request[r].op \in Ops \cup {"none"} /\ request[r].session \in 0 .. sessions
          /\ request[r].at \in {"idle", "sent", "running", "returned", "replied", "dropped"}
          /\ request[r].hub \in {"idle", "waiting", "ok", "error", "failed"}
          /\ request[r].res \in {"none", "ok", "error", "busy"}
          /\ jobs[r].state \in {"none", "running", "done", "error"}
          /\ jobs[r].step \in {"none", "begin", "writing", "safe", "restoring"}
          /\ jobs[r].stamp \in 0 .. now /\ jobs[r].ended \in 0 .. now
    /\ \A n \in Names : files[n].whole => files[n].there
    /\ db \in {"original", "changed"}
    /\ slots \in 0 .. MaxSlots
    /\ audit \subseteq Requests /\ done \subseteq Requests

\* A slot is taken exactly by each request at work, so that none leaks when a
\* handler panics or its connection is gone, and a restart begins with none.
\* (With the types, which bound the slots.)
SlotsAccounted ==
    /\ TypeOK
    /\ slots = Cardinality({r \in Requests : request[r].at \in {"running", "returned"}})

\* Every change is audited: what changed something on the server is in the
\* audit log once its route has ended, with or without an answer.
EveryChangeAudited ==
    \A r \in done : request[r].hub \in {"ok", "error", "failed"} => r \in audit

\* A restore can be undone: once it has begun to change the database, the
\* original contents are whole in a safety copy, also when restores run at the
\* same time and second, fail half-way or die with the agent. And a job that
\* is done left a whole file, which no other job damages; for an archive as
\* long as no other one is asked for under its name.
FilesWhole ==
    /\ \/ db = "original"
       \/ \E n \in Names : n.dir = "restore" /\ files[n].whole /\ files[n].data = "original"
    /\ \A r \in Requests :
          /\ jobs[r].state = "done"
          /\ request[r].op = "archive" => \A q \in Requests \ {r} : request[q].op # "archive"
          => files[FileOf(r)].whole /\ files[FileOf(r)].by = r
=============================================================================
