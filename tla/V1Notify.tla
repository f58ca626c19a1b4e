------------------------------- MODULE V1Notify -------------------------------
(***************************************************************************)
(* Alerts of panel version 1 (services/notify.py): check_alerts looks at   *)
(* certificates, disks and sites and tells the administrator what is wrong *)
(* with them, at most once in Window hours for each subject, remembered in *)
(* the table alert_log. It is run by a thread of the scheduler every hour  *)
(* and by a handler, and the two may overlap. A check takes no hour.       *)
(***************************************************************************)
EXTENDS V1

CONSTANTS
    Subjects,     \* certificates, disks and sites
    Window,       \* within_hours: 20 in the code
    MaxHour       \* bound

ASSUME NotifyAssumption == Window \in Nat \ {0} /\ MaxHour \in Nat /\ Nil \notin Nat

VARIABLES
    hour,
    breach,       \* the subjects that something is wrong with
    alertLog,     \* alert_log: the hour of the last row with sent = 1, or Nil
    checks1,      \* the checks at work: Nil or [todo, subject, step, sent, judged]
    lastTold,     \* history: the hour a message about the subject last arrived
    twice,        \* history: subjects told of again too early
    loose         \* history: subjects told of whose row is not written yet, or
                  \* never will be

notifyVars == <<hour, breach, alertLog, checks1, lastTold, twice, loose>>

Checkers == {"thread", "handler"}

Recently(h) == h # Nil /\ hour - h < Window

NotifyInit ==
    /\ hour = 0 /\ breach \in SUBSET Subjects
    /\ alertLog = [s \in Subjects |-> Nil] /\ lastTold = alertLog
    /\ checks1 = [c \in Checkers |-> Nil]
    /\ twice = {} /\ loose = {}

\* check_alerts, from the scheduler or the check endpoint.
CheckAlerts(c) ==
    /\ checks1[c] = Nil
    /\ checks1' = [checks1 EXCEPT ![c] = [todo |-> Subjects, subject |-> Nil, step |-> "next",
                                          sent |-> FALSE, judged |-> {}]]
    /\ UNCHANGED <<hour, breach, alertLog, lastTold, twice, loose>>

M_AlreadyAlerted(s) == alertLog[s] # Nil

\* _already_alerted
AlreadyAlerted(s) == Recently(alertLog[s])

\* The next subject: fine, or in breach and told of lately, or to be told of.
Emit(c, s) ==
    /\ checks1[c] # Nil /\ checks1[c].step = "next" /\ s \in checks1[c].todo
    /\ LET skips == s \notin breach \/ AlreadyAlerted(s)
       IN checks1' = [checks1 EXCEPT ![c].todo = @ \ {s}, ![c].subject = s,
                                     ![c].step = IF skips THEN "next" ELSE "send",
                                     ![c].judged = IF s \in breach /\ skips THEN @ \cup {s} ELSE @]
    /\ UNCHANGED <<hour, breach, alertLog, lastTold, twice, loose>>

\* notify: the message arrives by one of the channels or by none.
SendAlert(c, sent) ==
    /\ checks1[c] # Nil /\ checks1[c].step = "send"
    /\ LET s == checks1[c].subject
       IN /\ checks1' = [checks1 EXCEPT ![c].step = "record", ![c].sent = sent]
          /\ lastTold' = IF sent THEN [lastTold EXCEPT ![s] = hour] ELSE lastTold
          /\ twice' = IF sent /\ s \notin loose /\ Recently(lastTold[s]) THEN twice \cup {s} ELSE twice
          /\ loose' = IF sent THEN loose \cup {s} ELSE loose
    /\ UNCHANGED <<hour, breach, alertLog>>

\* _record_alert; sent = 0 is not looked for later.
RecordAlert(c) ==
    /\ checks1[c] # Nil /\ checks1[c].step = "record"
    /\ LET s == checks1[c].subject
       IN /\ alertLog' = IF checks1[c].sent THEN [alertLog EXCEPT ![s] = hour] ELSE alertLog
          /\ loose' = IF checks1[c].sent /\ \A o \in Checkers \ {c} :
                            ~(checks1[o] # Nil /\ checks1[o].subject = s /\ checks1[o].step \in {"send", "record"})
                      THEN loose \ {s} ELSE loose
          /\ checks1' = [checks1 EXCEPT ![c].step = "next",
                                        ![c].judged = IF checks1[c].sent THEN @ \cup {s} ELSE @]
    /\ UNCHANGED <<hour, breach, lastTold, twice>>

\* A check ends; a scan of certificates, disks or sites that raises is logged
\* and leaves out the rest of its subjects.
CheckEnds(c) ==
    /\ checks1[c] # Nil /\ checks1[c].step = "next"
    /\ checks1' = [checks1 EXCEPT ![c] = Nil]
    /\ UNCHANGED <<hour, breach, alertLog, lastTold, twice, loose>>

\* The panel stops in the middle of its checks.
NotifyStops ==
    /\ \E c \in Checkers : checks1[c] # Nil
    /\ checks1' = [c \in Checkers |-> Nil]
    /\ UNCHANGED <<hour, breach, alertLog, lastTold, twice, loose>>

\* Outside: something breaks or is repaired; an hour passes between checks.
Breaks(s) ==
    /\ breach' = IF s \in breach THEN breach \ {s} ELSE breach \cup {s}
    /\ UNCHANGED <<hour, alertLog, checks1, lastTold, twice, loose>>

HourPasses ==
    /\ hour < MaxHour /\ \A c \in Checkers : checks1[c] = Nil
    /\ hour' = hour + 1
    /\ UNCHANGED <<breach, alertLog, checks1, lastTold, twice, loose>>

NotifyNext ==
    \/ \E c \in Checkers : CheckAlerts(c) \/ RecordAlert(c) \/ CheckEnds(c)
    \/ \E c \in Checkers, s \in Subjects : Emit(c, s)
    \/ \E c \in Checkers, sent \in BOOLEAN : SendAlert(c, sent)
    \/ NotifyStops \/ HourPasses
    \/ \E s \in Subjects : Breaks(s)

NotifySpec == NotifyInit /\ [][NotifyNext]_notifyVars

-----------------------------------------------------------------------------
\* The administrator has been told within the window of everything a check
\* has passed over or dealt with, so that a breach that lasts is told of
\* again and again, and a message that did not get through is sent by the
\* next check. Nothing is told of twice within the window, except by two
\* checks that overlap on the subject and after a stop between the message
\* and its row.
ToldInTime ==
    /\ \A c \in Checkers : checks1[c] # Nil => \A s \in checks1[c].judged : Recently(lastTold[s])
    /\ twice = {}
=============================================================================
