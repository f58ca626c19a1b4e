------------------------------ MODULE BackupRun ------------------------------
(***************************************************************************)
(* The runs of one backup plan, step by step: the hub's task (_run and     *)
(* copy_between in hub/icsd_hub/backups.py, wait_job in rpc.py), the jobs  *)
(* and files of the source agent (agent/internal/actions: backupRun,       *)
(* Start, jobStatus, backupPrune, fsRead, fsDelete) and the uploads of the *)
(* destination agent (fsWrite, fsAbort, backupPrune, backupList).          *)
(*                                                                         *)
(* Every request may fail before it does anything, be carried out and      *)
(* answered, or be carried out and its answer lost (connection dropped,    *)
(* time-out); and the slow ones in LateOps may be carried out only after   *)
(* the hub gave up on them. The hub and both agents may be restarted at    *)
(* any moment; only the files survive that.                                *)
(*                                                                         *)
(* Backup files are numbered in the order of the time stamps in their      *)
(* names; a job, and the one upload a copy makes, go by the file's number. *)
(***************************************************************************)
EXTENDS Integers, FiniteSets

CONSTANTS
    MaxFiles,    \* bound: backup.run requests carried out
    Chunks,      \* length of a backup, in chunks of CHUNK bytes
    Keep,        \* plan["keep"]
    DestKeep,    \* plan["dest_keep"]
    Modes,       \* kinds of plans: "local", "copy", "move" (delete_local)
    LateOps,     \* requests that may outlive the hub's time-out
    Absent

ASSUME RunAssumption ==
    /\ MaxFiles \in Nat /\ Chunks \in Nat \ {0}
    /\ Keep \in Nat \ {0} /\ DestKeep \in Nat \ {0}
    /\ Modes \subseteq {"local", "copy", "move"}
    /\ LateOps \subseteq {"run", "write"}
    /\ Absent \notin Nat \cup {"running", "done", "error", "part", "whole"}

Files == 1 .. MaxFiles

VARIABLES
    mode,    \* the kind of the plan
    stage,   \* the step the hub's task is in, "idle" without one
    cur,     \* the job (file) the hub's task knows of
    offset,  \* chunks copied
    upload,  \* the hub knows the name of its upload
    good,    \* history: files of the runs recorded as done
    last,    \* the latest file made on the source
    job,     \* the source agent's r.jobs: Absent, "running", "done", "error"
    local,   \* files on the source: Absent, "part" or "whole"
    temp,    \* unfinished uploads on the destination: Absent or their length
    remote,  \* files on the destination: Absent or their length
    late,    \* requests still to be carried out
    strays   \* history: files made by a backup.run the hub had given up on

hubVars  == <<mode, stage, cur, offset, upload, good>>
srcVars  == <<last, job, local, strays>>
destVars == <<temp, remote>>
runVars  == <<hubVars, srcVars, destVars, late>>

\* plan["dest_server"] is set, plan["delete_local"] is set; _validate allows
\* the second only with the first.
HasDest     == mode \in {"copy", "move"}
DeleteLocal == mode = "move"

RunInit ==
    /\ mode \in Modes
    /\ stage = "idle" /\ cur = Absent /\ offset = 0 /\ upload = FALSE /\ good = {}
    /\ last = 0 /\ job = [f \in Files |-> Absent] /\ local = [f \in Files |-> Absent]
    /\ temp = [f \in Files |-> Absent] /\ remote = [f \in Files |-> Absent]
    /\ late = {} /\ strays = {}

-----------------------------------------------------------------------------
(***************************************************************************)
(* The source agent.                                                       *)
(***************************************************************************)

\* backupRun: a job is registered and starts to write its file.
BackupRun ==
    /\ last < MaxFiles
    /\ last' = last + 1
    /\ job' = [job EXCEPT ![last + 1] = "running"]
    /\ local' = [local EXCEPT ![last + 1] = "part"]

JobDone(f) ==
    /\ job[f] = "running" /\ local[f] = "part"
    /\ job' = [job EXCEPT ![f] = "done"]
    /\ local' = [local EXCEPT ![f] = "whole"]
    /\ UNCHANGED <<last, strays, hubVars, destVars, late>>

\* No space, a failed dump, a panic, or the file was pruned under it: the job
\* removes its file.
JobFails(f) ==
    /\ job[f] = "running"
    /\ job' = [job EXCEPT ![f] = "error"]
    /\ local' = [local EXCEPT ![f] = Absent]
    /\ UNCHANGED <<last, strays, hubVars, destVars, late>>

\* backupPrune: f is one of the `keep` newest names of its directory.
Kept(f, dir, keep) == Cardinality({g \in Files : g > f /\ dir[g] # Absent}) < keep

Prune(dir, keep) == [f \in Files |-> IF Kept(f, dir, keep) THEN dir[f] ELSE Absent]

\* The agent's process ends: its jobs are forgotten, and what they had
\* written so far stays under the name of the backup.
SourceRestarts ==
    /\ job' = [f \in Files |-> Absent]
    /\ late' = {r \in late : r.op # "run"}
    /\ UNCHANGED <<last, local, strays, hubVars, destVars>>

-----------------------------------------------------------------------------
(***************************************************************************)
(* The destination agent.                                                  *)
(***************************************************************************)

\* Mutant: a later chunk that finds no upload starts a new one.
M_FsWrite(f, off, final) ==
    LET len == off + 1
    IN /\ temp' = [temp EXCEPT ![f] = IF final THEN Absent ELSE len]
       /\ remote' = [remote EXCEPT ![f] = IF final THEN len - (IF temp[f] = Absent THEN off ELSE 0) ELSE @]

\* fsWrite: the first chunk makes the upload, a later one must find it, and
\* the final one renames it to the target. Fails without a change otherwise.
FsWrite(f, off, final) ==
    LET len == off + 1
    IN /\ off = 0 \/ temp[f] # Absent
       /\ temp' = [temp EXCEPT ![f] = IF final THEN Absent ELSE len]
       /\ remote' = [remote EXCEPT ![f] = IF final THEN len ELSE @]

\* fsAbort: openUpload fails if there is no such upload, which is fine.
FsAbort(f) ==
    /\ temp' = [temp EXCEPT ![f] = Absent]
    /\ UNCHANGED remote

\* backupList: an upload nobody touched for a day is removed.
ReapUpload(f) ==
    /\ temp[f] # Absent /\ ~(cur = f /\ stage \in {"read", "write", "abort"})
    /\ temp' = [temp EXCEPT ![f] = Absent]
    /\ UNCHANGED <<remote, hubVars, srcVars, late>>

DestRestarts ==
    /\ late' = {r \in late : r.op # "write"}
    /\ UNCHANGED <<hubVars, srcVars, destVars>>

-----------------------------------------------------------------------------
(***************************************************************************)
(* Requests carried out after the hub's time-out.                          *)
(***************************************************************************)
LateRun ==
    /\ \E r \in late : r.op = "run" /\ late' = late \ {r}
    /\ BackupRun
    /\ strays' = strays \cup {last + 1}
    /\ UNCHANGED <<hubVars, destVars>>

LateWrite ==
    \E r \in late :
        /\ r.op = "write"
        /\ late' = late \ {r}
        /\ \/ FsWrite(r.file, r.offset, r.final)
           \/ r.offset > 0 /\ temp[r.file] = Absent /\ UNCHANGED destVars
        /\ UNCHANGED <<hubVars, srcVars>>

-----------------------------------------------------------------------------
(***************************************************************************)
(* The hub's task.                                                         *)
(***************************************************************************)

\* Where the task goes next, or that it ends.
Goto(step) == stage' = step /\ UNCHANGED <<mode, cur, offset, upload, good>>

Ended ==
    /\ stage' = "idle" /\ cur' = Absent /\ offset' = 0 /\ upload' = FALSE
    /\ UNCHANGED mode

\* The except clause: the run is recorded as failed.
Failed == Ended /\ UNCHANGED good

\* The run is recorded as done.
Succeeded == Ended /\ good' = good \cup {cur}

\* backups.start; bounded by the files the source may still make.
StartRun ==
    /\ stage = "idle" /\ last < MaxFiles
    /\ Goto("run")
    /\ UNCHANGED <<srcVars, destVars, late>>

\* rpc.call(sid, "backup.run"), answered,
RunAccepted ==
    /\ stage = "run"
    /\ BackupRun
    /\ stage' = "poll" /\ cur' = last + 1
    /\ UNCHANGED <<mode, offset, upload, good, strays, destVars, late>>

\* or carried out without an answer, or late, or not at all.
RunFails ==
    /\ stage = "run"
    /\ Failed
    /\ \/ BackupRun /\ UNCHANGED <<late, strays>>
       \/ /\ "run" \in LateOps
          /\ late' = late \cup {[op |-> "run"]}
          /\ UNCHANGED srcVars
       \/ UNCHANGED <<srcVars, late>>
    /\ UNCHANGED destVars

\* wait_job ends: the job is done,
PollDone ==
    /\ stage = "poll" /\ job[cur] = "done"
    /\ Goto("prune")
    /\ UNCHANGED <<srcVars, destVars, late>>

\* Mutant: only a job that says it failed ends the wait.
M_PollFails ==
    /\ stage = "poll" /\ job[cur] = "error"
    /\ Failed
    /\ UNCHANGED <<srcVars, destVars, late>>

\* failed, or unknown to a restarted agent; or patience is at its end.
PollFails ==
    /\ stage = "poll"
    /\ Failed
    /\ UNCHANGED <<srcVars, destVars, late>>

\* Mutant: the local file is deleted first, there is a copy to be made.
M_AfterPrune ==
    IF DeleteLocal THEN Goto("delete") ELSE IF HasDest THEN Goto("mkdir") ELSE Succeeded

\* What follows the prune on the source.
AfterPrune == IF HasDest THEN Goto("mkdir") ELSE Succeeded

\* backup.prune on the source, answered or not.
PruneSource ==
    /\ stage = "prune"
    /\ local' = Prune(local, Keep)
    /\ AfterPrune \/ Failed
    /\ UNCHANGED <<last, job, strays, destVars, late>>

\* copy_between: the destination is there and has the directory.
Mkdir ==
    /\ stage = "mkdir"
    /\ Goto("read")
    /\ UNCHANGED <<srcVars, destVars, late>>

\* A request that fails before it does anything, in a step with no upload.
StepFails ==
    /\ stage \in {"prune", "mkdir", "destprune", "delete"}
    /\ Failed
    /\ UNCHANGED <<srcVars, destVars, late>>

\* fs.read of the next chunk.
Read ==
    /\ stage = "read" /\ local[cur] # Absent
    /\ Goto("write")
    /\ UNCHANGED <<srcVars, destVars, late>>

Final == offset + 1 >= Chunks

\* The except clause of copy_between: abort the upload if its name is known.
CopyFails == IF upload THEN Goto("abort") ELSE Failed

ReadFails ==
    /\ stage = "read"
    /\ CopyFails
    /\ UNCHANGED <<srcVars, destVars, late>>

\* fs.write answered; after the last chunk `offset != size` is the check that
\* the copy is complete.
Write ==
    /\ stage = "write"
    /\ FsWrite(cur, offset, Final)
    /\ upload' = (upload \/ ~Final) /\ offset' = offset + 1
    /\ stage' = IF Final THEN "destprune" ELSE "read"
    /\ UNCHANGED <<mode, cur, good, srcVars, late>>

\* fs.write without a good answer: carried out, late, failed on the disk (the
\* upload is removed), or not at all.
WriteFails ==
    /\ stage = "write"
    /\ CopyFails
    /\ \/ FsWrite(cur, offset, Final) /\ UNCHANGED late
       \/ /\ "write" \in LateOps
          /\ late' = late \cup {[op |-> "write", file |-> cur, offset |-> offset, final |-> Final]}
          /\ UNCHANGED destVars
       \/ temp' = [temp EXCEPT ![cur] = Absent] /\ UNCHANGED <<remote, late>>
       \/ UNCHANGED <<destVars, late>>
    /\ UNCHANGED srcVars

\* fs.abort, carried out or not; its errors are ignored.
Abort ==
    /\ stage = "abort"
    /\ FsAbort(cur) \/ UNCHANGED destVars
    /\ Failed
    /\ UNCHANGED <<srcVars, late>>

\* What follows the prune on the destination.
AfterDestPrune == IF DeleteLocal THEN Goto("delete") ELSE Succeeded

\* backup.prune on the destination, answered or not.
PruneDest ==
    /\ stage = "destprune"
    /\ remote' = Prune(remote, DestKeep)
    /\ AfterDestPrune \/ Failed
    /\ UNCHANGED <<temp, srcVars, late>>

\* fs.delete of the local file, answered or not.
DeleteFile ==
    /\ stage = "delete"
    /\ local' = [local EXCEPT ![cur] = Absent]
    /\ Succeeded \/ Failed
    /\ UNCHANGED <<last, job, strays, destVars, late>>

\* The hub stops and comes up again: recover() records the run as failed.
HubRestarts ==
    /\ stage # "idle"
    /\ Failed
    /\ UNCHANGED <<srcVars, destVars, late>>

-----------------------------------------------------------------------------
Task ==
    \/ RunAccepted \/ RunFails \/ PollDone \/ PollFails \/ PruneSource \/ Mkdir
    \/ StepFails \/ Read \/ ReadFails \/ Write \/ WriteFails \/ Abort \/ PruneDest \/ DeleteFile

Agents ==
    \/ \E f \in Files : JobDone(f) \/ JobFails(f) \/ ReapUpload(f)
    \/ SourceRestarts \/ DestRestarts \/ LateRun \/ LateWrite

RunNext == StartRun \/ Task \/ Agents \/ HubRestarts

RunSpec == RunInit /\ [][RunNext]_runVars

\* Every request ends (rpc.call has a time-out) and wait_job has a deadline.
RunFairSpec == RunSpec /\ WF_runVars(Task)

-----------------------------------------------------------------------------
(***************************************************************************)
(* Properties.                                                             *)
(***************************************************************************)

\* The type of every variable; a task past its first request knows its job.
RunTypes ==
    /\ mode \in Modes
    /\ stage \in {"idle", "run", "poll", "prune", "mkdir", "read", "write", "abort",
               "destprune", "delete"}
    /\ cur \in Files \cup {Absent} /\ (cur = Absent <=> stage \in {"idle", "run"})
    /\ offset \in 0 .. Chunks /\ upload \in BOOLEAN /\ good \subseteq Files
    /\ last \in 0 .. MaxFiles
    /\ job \in [Files -> {Absent, "running", "done", "error"}]
    /\ local \in [Files -> {Absent, "part", "whole"}]
    /\ temp \in [Files -> {Absent} \cup 1 .. Chunks]
    /\ remote \in [Files -> {Absent} \cup 1 .. Chunks]
    /\ \A r \in late : r.op \in LateOps
    /\ strays \subseteq Files

\* A whole copy of file f exists somewhere.
Safe(f) == local[f] = "whole" \/ remote[f] = Chunks

\* Whatever fails, is repeated or restarted: once a run was recorded as done,
\* a whole backup at least as new as that run's exists, at the source or at
\* the destination. Pruning and "delete local" never remove the last one. The
\* one exception is a newer file made by a backup.run that was carried out
\* after its time-out, which the pruning takes for the newest backup. A file
\* under its final name on the destination is a whole copy. (With the types.)
BackupsWhole ==
    /\ RunTypes
    /\ \A f \in good : (\E g \in Files : g >= f /\ Safe(g)) \/ (\E g \in strays : g > f)
    /\ \A f \in Files : remote[f] # Absent => remote[f] = Chunks

\* Every run ends, through every failure.
RunEnds == stage # "idle" ~> stage = "idle"

\* "keep the last K copies there": with the local files kept, the last Keep
\* successful backups are there (as many as there were).
LastCopiesKept ==
    LET whole == {f \in Files : local[f] = "whole"}
    IN ~DeleteLocal => Cardinality(whole) >= (IF Cardinality(good) < Keep THEN Cardinality(good) ELSE Keep)
=============================================================================
