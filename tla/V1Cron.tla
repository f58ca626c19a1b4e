-------------------------------- MODULE V1Cron --------------------------------
(***************************************************************************)
(* Cron jobs of panel version 1 (services/cron.py): the table cron_jobs,   *)
(* and the crontab of every user, of which the panel owns the block        *)
(* between two marker lines.                                               *)
(*                                                                         *)
(* A line is a record: a line of the user's own, a marker, or the job      *)
(* lines of a block, together one line here: the jobs that are switched    *)
(* on. A job that is off is a comment.                                     *)
(***************************************************************************)
EXTENDS V1

CONSTANTS
    CronUsers,
    CronJobs,   \* the ids, each handed out once
    MaxOwn      \* bound: lines of their own that users write

VARIABLES
    cronRow,    \* cron_jobs: Nil or [user, enabled]
    owner,      \* history: the user an id was handed out for
    crontab,    \* the lines of each user's crontab
    ownLines,   \* history: every line of their own that users wrote
    kept,       \* history: those less the ones of a crontab that was not read
    unread,     \* history: users whose crontab was rewritten and could not be read
    behind      \* history: a crontab that could not be written after a change

cronVars == <<cronRow, owner, crontab, ownLines, kept, unread, behind>>

Own(n)   == [tag |-> "own", n |-> n, jobs |-> {}]
BEGIN    == [tag |-> "begin", n |-> 0, jobs |-> {}]
END      == [tag |-> "end", n |-> 0, jobs |-> {}]
Lines(s) == [tag |-> "jobs", n |-> 0, jobs |-> s]

\* The panel's block, with the jobs s switched on.
Managed(s) == <<BEGIN, Lines(s), END>>

CronRow == [user : CronUsers, enabled : BOOLEAN]

ASSUME NilIsNoCronRow == Nil \notin CronRow

CronInit ==
    /\ cronRow = [j \in CronJobs |-> Nil] /\ owner = cronRow
    /\ crontab = [u \in CronUsers |-> <<>>] /\ ownLines = crontab
    /\ kept = crontab /\ unread = {}
    /\ behind = [u \in CronUsers |-> FALSE]

M_StripLine(acc, line) ==
    IF line = BEGIN THEN [acc EXCEPT !.skipping = TRUE]
    ELSE IF acc.skipping THEN acc ELSE [acc EXCEPT !.out = Append(@, line)]

\* One line of the loop of _strip_managed.
StripLine(acc, line) ==
    IF line = BEGIN THEN [acc EXCEPT !.skipping = TRUE]
    ELSE IF line = END THEN [acc EXCEPT !.skipping = FALSE]
    ELSE IF acc.skipping THEN acc ELSE [acc EXCEPT !.out = Append(@, line)]

\* _strip_managed: drop the markers and what is between them.
StripManaged(raw) ==
    LET loop[i \in 0 .. Len(raw)] ==
            IF i = 0 THEN [out |-> <<>>, skipping |-> FALSE] ELSE StripLine(loop[i - 1], raw[i])
    IN IF \A i \in DOMAIN raw : raw[i] # BEGIN THEN raw ELSE loop[Len(raw)].out

\* _render_managed: the jobs of the whole table, not only the user's.
RenderManaged(rows) == Managed({j \in CronJobs : rows[j] # Nil /\ rows[j].enabled})

\* _apply_crontab. A crontab that cannot be read, for whatever reason, counts
\* as empty; one that cannot be written is an error, and stays as it was.
ApplyCrontab(u, reads, writes) ==
    LET own == StripManaged(IF reads THEN crontab[u] ELSE <<>>)
    IN /\ crontab' = IF writes THEN [crontab EXCEPT ![u] = own \o RenderManaged(cronRow')] ELSE crontab
       /\ kept' = IF writes /\ ~reads THEN [kept EXCEPT ![u] = <<>>] ELSE kept
       /\ unread' = IF writes /\ ~reads /\ crontab[u] # <<>> THEN unread \cup {u} ELSE unread
       /\ behind' = [behind EXCEPT ![u] = ~writes]
       /\ UNCHANGED ownLines

\* create_job, set_enabled, delete_job: the row, then the crontab of the
\* job's user.
CronCreate(j, u, reads, writes) ==
    /\ owner[j] = Nil
    /\ owner' = [owner EXCEPT ![j] = u]
    /\ cronRow' = [cronRow EXCEPT ![j] = [user |-> u, enabled |-> TRUE]]
    /\ ApplyCrontab(u, reads, writes)

CronSetEnabled(j, enabled, reads, writes) ==
    /\ cronRow[j] # Nil
    /\ cronRow' = [cronRow EXCEPT ![j].enabled = enabled]
    /\ ApplyCrontab(cronRow[j].user, reads, writes)
    /\ UNCHANGED owner

CronDelete(j, reads, writes) ==
    /\ cronRow[j] # Nil
    /\ cronRow' = [cronRow EXCEPT ![j] = Nil]
    /\ ApplyCrontab(cronRow[j].user, reads, writes)
    /\ UNCHANGED owner

\* The user edits the crontab (external): a line in front or at the end.
UserEdits(u, front) ==
    /\ Len(ownLines[u]) < MaxOwn
    /\ LET line == <<Own(Len(ownLines[u]) + 1)>>
           at(s) == IF front THEN line \o s ELSE s \o line
       IN /\ crontab' = [crontab EXCEPT ![u] = at(@)]
          /\ ownLines' = [ownLines EXCEPT ![u] = at(@)] /\ kept' = [kept EXCEPT ![u] = at(@)]
    /\ UNCHANGED <<cronRow, owner, unread, behind>>

CronNext ==
    \/ \E j \in CronJobs, reads, writes \in BOOLEAN :
          \/ \E u \in CronUsers : CronCreate(j, u, reads, writes)
          \/ \E enabled \in BOOLEAN : CronSetEnabled(j, enabled, reads, writes)
          \/ CronDelete(j, reads, writes)
    \/ \E u \in CronUsers, front \in BOOLEAN : UserEdits(u, front)

CronSpec == CronInit /\ [][CronNext]_cronVars

-----------------------------------------------------------------------------
\* Job j is run from a crontab with these lines.
RunsIn(raw, j) == \E i \in DOMAIN raw : j \in raw[i].jobs

SwitchedOn(j) == cronRow[j] # Nil /\ cronRow[j].enabled

\* However often the panel rewrites a crontab, wherever the user has put
\* lines, and whatever failed before: a crontab is the user's own lines, all
\* of them, once, in their order, with at most one block somewhere between
\* them, whole. (Two things are excepted, since the code does not do them. The
\* lines of a crontab that `crontab -l` could not read are lost in the next
\* rewrite, which OwnLinesStay shows; what the user writes later is kept again.
\* And every crontab is given the jobs of all users, but only that of a job's
\* own user is made again when it changes: of the jobs only the user's own are
\* looked at.) Unless its last rewrite failed, the crontab of a job's user runs
\* it exactly while it is listed and switched on.
CrontabWhole ==
    \A u \in CronUsers :
        LET own            == kept[u]
            Around(k, mid) == SubSeq(own, 1, k) \o mid \o SubSeq(own, k + 1, Len(own))
        IN /\ u \in unread \/ kept[u] = ownLines[u]
           /\ \/ crontab[u] = own
              \/ \E k \in 0 .. Len(own), s \in SUBSET CronJobs : crontab[u] = Around(k, Managed(s))
           /\ ~behind[u] => \A j \in CronJobs : owner[j] = u =>
                 (RunsIn(crontab[u], j) <=> SwitchedOn(j))

\* The user's own lines remain untouched: each is still in the crontab.
OwnLinesStay ==
    \A u \in CronUsers : \A i \in DOMAIN ownLines[u] :
        \E k \in DOMAIN crontab[u] : crontab[u][k] = ownLines[u][i]
=============================================================================
