------------------------------- MODULE V1Backup -------------------------------
(***************************************************************************)
(* One backup job of panel version 1 (services/backup.py, scheduler.py,    *)
(* api/backup.py). It is run by its handler and by a thread of the         *)
(* scheduler, at most one of each at a time (APScheduler starts no second  *)
(* instance of a job), and the two do not know of each other. The          *)
(* scheduler keeps the row as it was read: a deleted job stays registered  *)
(* until the panel starts again.                                           *)
(*                                                                         *)
(* An archive is named after the second it is made in; names are numbers   *)
(* here, in the order of the time stamps. What it holds is the version of  *)
(* the source, or Part while it is uploaded or when the upload broke off.  *)
(* The tar file of a directory holds it under the name of the source.      *)
(***************************************************************************)
EXTENDS V1

CONSTANTS
    SourceTypes,   \* "site" (a path is treated alike), "database"
    DestTypes,     \* "remote" (ftp, sftp), "local"
    Retentions,    \* what a user may enter
    DefaultKeep,   \* 7 in the code
    MaxSecond,     \* bound: seconds in which runs start
    MaxVersion1    \* bound: versions of the source

ASSUME BackupAssumption ==
    /\ SourceTypes \subseteq {"site", "database"}
    /\ Retentions \subseteq Int /\ DefaultKeep \in Nat \ {0}
    /\ MaxSecond \in Nat \ {0} /\ MaxVersion1 \in Nat /\ Nil \notin Int

VARIABLES
    source, dest,   \* the types of the job
    jobRow,         \* backup_jobs: Nil or the retention
    sched,          \* the registered copy of the row: Nil or the retention
    second,         \* the time
    runs,           \* runs["manual"], runs["scheduled"]: Nil or the run's state
    archives,       \* archives of the job on the destination
    others,         \* archives of another job whose names extend this prefix
    live, inner,    \* the source, and a directory named after it inside it
    lastGood,       \* history: the last run that succeeded
    restored        \* history: what the last restore_job that returned applied

Part  == -1    \* an unfinished archive
Mixed == 0     \* a source of which only a part was restored

Runners    == {"manual", "scheduled"}
runVars1   == <<second, runs, archives, lastGood>>
backupVars == <<source, dest, jobRow, sched, others, live, inner, restored, runVars1>>

\* A run of run_job, and what is remembered of the last one that succeeded.
RunRow1  == [step : {"upload", "uploading", "list", "delete", "done"}, name : Nat,
             version : Nat, retention : Int, old : SUBSET Nat, alone : BOOLEAN]
LastGood == [name : Nat, alone : BOOLEAN]

ASSUME NilIsNoRun1 == Nil \notin RunRow1 \cup LastGood

Present == {n \in DOMAIN archives : archives[n] # Nil}

BackupInit ==
    /\ source \in SourceTypes /\ dest \in DestTypes
    /\ jobRow = Nil /\ sched = Nil /\ second = 1
    /\ runs = [r \in Runners |-> Nil]
    /\ archives = [n \in 1 .. MaxSecond |-> Nil]
    /\ others = 0
    /\ live = 1 /\ inner = Nil
    /\ lastGood = Nil /\ restored = Nil

\* create_job and reload_backup_jobs.
CreateJob(retention) ==
    /\ jobRow = Nil /\ sched = Nil
    /\ jobRow' = retention /\ sched' = retention
    /\ UNCHANGED <<source, dest, others, live, inner, restored, runVars1>>

\* delete_job: reload_backup_jobs registers the rows it finds and removes no
\* registration.
DeleteJob ==
    /\ runs["manual"] = Nil /\ jobRow # Nil
    /\ jobRow' = Nil
    /\ UNCHANGED <<source, dest, sched, others, live, inner, restored, runVars1>>

\* run_job begins, from the endpoint with the row or from the scheduler with
\* its copy: the archive is made in a directory of its own and named.
RunStarts(r, retention) ==
    LET busy == \E o \in Runners \ {r} : runs[o] # Nil
    IN /\ runs[r] = Nil /\ retention # Nil
       /\ runs' = [o \in Runners |->
                     IF o = r THEN [step |-> "upload", name |-> second, version |-> live,
                                    retention |-> retention, old |-> {}, alone |-> ~busy]
                     ELSE IF runs[o] = Nil THEN Nil ELSE [runs[o] EXCEPT !.alone = FALSE]]
       /\ lastGood' = IF lastGood # Nil /\ (busy \/ archives[second] # Nil \/ retention < 0)
                      THEN [lastGood EXCEPT !.alone = FALSE] ELSE lastGood
       /\ UNCHANGED <<source, dest, jobRow, sched, second, archives, others, live, inner, restored>>

ManualRun    == RunStarts("manual", jobRow)
ScheduledRun == RunStarts("scheduled", sched)

\* The upload (_upload_ftp, _upload_sftp, copy2) creates the file,
\* and completes it or breaks off; then the run has failed.
UploadBegins(r) ==
    /\ runs[r] # Nil /\ runs[r].step = "upload"
    /\ archives' = [archives EXCEPT ![runs[r].name] = Part]
    /\ runs' = [runs EXCEPT ![r].step = "uploading"]
    /\ UNCHANGED <<source, dest, jobRow, sched, second, others, live, inner, lastGood, restored>>

UploadEnds(r) ==
    /\ runs[r] # Nil /\ runs[r].step = "uploading"
    /\ archives' = [archives EXCEPT ![runs[r].name] = runs[r].version]
    /\ runs' = [runs EXCEPT ![r].step = IF dest = "local" THEN "done" ELSE "list"]
    /\ UNCHANGED <<source, dest, jobRow, sched, second, others, live, inner, lastGood, restored>>

UploadFails(r) ==
    /\ runs[r] # Nil /\ runs[r].step \in {"upload", "uploading"}
    /\ runs' = [runs EXCEPT ![r] = Nil]
    /\ UNCHANGED <<source, dest, jobRow, sched, second, archives, others, live, inner, lastGood, restored>>

Oldest(n, names) == {a \in names : Cardinality({b \in names : b < a}) < n}

M_Expired(names, extra, keep) ==
    IF Cardinality(names) > keep THEN names \ Oldest(Cardinality(names) - keep, names) ELSE {}

\* The slice names[:-keep] of the sorted names, of which extra come after
\* all of ours; a negative keep counts from the front.
Expired(names, extra, keep) ==
    LET len == Cardinality(names) + extra
    IN IF len <= keep THEN {}
       ELSE Oldest(IF keep > 0 THEN len - keep ELSE 0 - keep, names)

\* _ftp_retention, _sftp_retention: the names are listed, then the old ones
\* deleted one by one; a deletion that fails is passed over.
RetentionLists(r) ==
    LET keep == IF runs[r].retention = 0 THEN DefaultKeep ELSE runs[r].retention
    IN /\ runs[r] # Nil /\ runs[r].step = "list"
       /\ runs' = [runs EXCEPT ![r].old = Expired(Present, others, keep), ![r].step = "delete"]
       /\ UNCHANGED <<source, dest, jobRow, sched, second, archives, others, live, inner, lastGood, restored>>

RetentionDeletes(r, deletes) ==
    /\ runs[r] # Nil /\ runs[r].step = "delete" /\ runs[r].old # {}
    /\ LET a == CHOOSE x \in runs[r].old : \A y \in runs[r].old : x <= y
       IN /\ archives' = IF deletes THEN [archives EXCEPT ![a] = Nil] ELSE archives
          /\ runs' = [runs EXCEPT ![r].old = @ \ {a}]
    /\ UNCHANGED <<source, dest, jobRow, sched, second, others, live, inner, lastGood, restored>>

\* The run is recorded as a success.
RunSucceeds(r) ==
    /\ runs[r] # Nil
    /\ runs[r].step = "done" \/ (runs[r].step = "delete" /\ runs[r].old = {})
    /\ lastGood' = [name |-> runs[r].name,
                    alone |-> runs[r].alone /\ runs[r].retention >= 0 /\ others = 0]
    /\ runs' = [runs EXCEPT ![r] = Nil]
    /\ UNCHANGED <<source, dest, jobRow, sched, second, archives, others, live, inner, restored>>

\* restore_job, a handler: download and unpack. A tar file goes into the
\* source directory under the name it has in the archive; a dump is fed to
\* mysql, which may stop in the middle. A broken archive raises.
RestoreJob(n, completes) ==
    /\ runs["manual"] = Nil /\ jobRow # Nil /\ archives[n] \notin {Nil, Part}
    /\ CASE source = "site"     -> inner' = archives[n] /\ live' = live /\ completes
         [] source = "database" -> live' = (IF completes THEN archives[n] ELSE Mixed) /\ inner' = inner
    /\ restored' = IF completes THEN archives[n] ELSE Nil
    /\ UNCHANGED <<source, dest, jobRow, sched, others, runVars1>>

\* The panel stops and starts: runs are gone, rows are registered again.
PanelRestarts ==
    /\ runs' = [r \in Runners |-> Nil]
    /\ sched' = jobRow
    /\ UNCHANGED <<source, dest, jobRow, second, archives, others, live, inner, lastGood, restored>>

\* Outside: the source changes, the other job leaves an archive, time goes on.
SourceChanges ==
    /\ live < MaxVersion1
    /\ live' = live + 1 /\ restored' = Nil
    /\ UNCHANGED <<source, dest, jobRow, sched, others, inner, runVars1>>

OtherArchive ==
    /\ others = 0 /\ dest = "remote"
    /\ others' = 1
    /\ lastGood' = Nil
    /\ UNCHANGED <<source, dest, jobRow, sched, live, inner, restored, second, runs, archives>>

SecondPasses ==
    /\ second < MaxSecond
    /\ second' = second + 1
    /\ UNCHANGED <<source, dest, jobRow, sched, others, live, inner, restored, runs, archives, lastGood>>

BackupNext ==
    \/ \E retention \in Retentions : CreateJob(retention)
    \/ DeleteJob \/ ManualRun \/ ScheduledRun
    \/ \E r \in Runners : \/ UploadBegins(r) \/ UploadEnds(r) \/ UploadFails(r)
                          \/ RetentionLists(r) \/ RunSucceeds(r)
                          \/ \E deletes \in BOOLEAN : RetentionDeletes(r, deletes)
    \/ \E n \in DOMAIN archives, completes \in BOOLEAN : RestoreJob(n, completes)
    \/ PanelRestarts \/ SourceChanges \/ OtherArchive \/ SecondPasses

BackupSpec == BackupInit /\ [][BackupNext]_backupVars

-----------------------------------------------------------------------------
\* The destination has a whole archive at least as recent as the last
\* successful run, whatever fails, breaks off or is stopped after it: a
\* broken archive never pushes the last good one out. Excepted are runs of
\* the job that overlap or start within one second, a negative retention, and
\* a directory shared with a job whose archive names extend this job's prefix.
LastArchiveKept ==
    lastGood # Nil /\ lastGood.alone =>
        \E n \in Present : n >= lastGood.name /\ archives[n] # Part

\* restore_job "restores to the source": what it applied is the source's
\* content until the source changes again.
RestoreReachesSource == restored # Nil => live = restored
=============================================================================
