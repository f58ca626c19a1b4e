------------------------------ MODULE V1Proofs ------------------------------
(***************************************************************************)
(* Proofs about panel version 1: for any sets of accounts, databases, mail *)
(* domains, zones, sites, apps, crontabs, trees of files and subjects of   *)
(* alerts, and for any retention of a backup job.                          *)
(***************************************************************************)
EXTENDS V1Accounts, V1Mail, V1Notify, V1Dns, V1Sites, V1Backup, V1Apps, V1Cron, V1Files,
        FiniteSetTheorems, WellFoundedInduction, TLAPS

(***************************************************************************)
(* FTP accounts and databases (V1Accounts). The agreement is inductive as  *)
(* soon as the columns have their types.                                   *)
(***************************************************************************)
FtpTypes ==
    /\ sysUser \in [Accounts -> {Nil, "open", "locked"}]
    /\ ftpRow \in [Accounts -> {Nil, TRUE, FALSE}] /\ ftpOdd \in [Accounts -> BOOLEAN]

DbTypes ==
    /\ database \in [Engines -> SUBSET DbNames]
    /\ dbRow \in [DbNames -> {Nil} \cup Engines] /\ dbOdd \in [DbNames -> Reasons]

FtpAgrees ==
    \A a \in Accounts : ftpRow[a] # Nil /\ ~ftpOdd[a] => sysUser[a] = IF ftpRow[a] THEN "open" ELSE "locked"

DbAgrees ==
    \A d \in DbNames : dbRow[d] # Nil /\ dbOdd[d] = "no" => ServerName(dbRow[d], d) \in database[dbRow[d]]

AccountsInv == FtpTypes /\ DbTypes /\ AccountsAgree

LEMMA AccountsParts == AccountsAgree <=> FtpAgrees /\ DbAgrees
  BY DEF AccountsAgree, FtpAgrees, DbAgrees

LEMMA FtpCreateStep ==
  ASSUME FtpTypes, FtpAgrees, NEW a \in Accounts, NEW k \in Steps(3), FtpCreate(a, k)
  PROVE  FtpTypes' /\ FtpAgrees'
<1>1. k = 3 => sysUser'[a] = "open"
  BY DEF FtpCreate, FtpTypes
<1>2. /\ sysUser' \in [Accounts -> {Nil, "open", "locked"}]
      /\ ftpRow' \in [Accounts -> {Nil, TRUE, FALSE}]
  BY DEF FtpCreate, FtpTypes
<1>3. ftpOdd' \in [Accounts -> BOOLEAN]
  BY Zenon DEF FtpCreate, FtpTypes
<1>4. FtpAgrees'
  BY <1>1, Zenon DEF FtpCreate, FtpTypes, FtpAgrees
<1> QED BY <1>2, <1>3, <1>4 DEF FtpTypes

LEMMA FtpPasswordStep ==
  ASSUME FtpTypes, FtpAgrees, NEW a \in Accounts, FtpPassword(a)
  PROVE  FtpTypes' /\ FtpAgrees'
<1>1. sysUser' \in [Accounts -> {Nil, "open", "locked"}] /\ ftpRow' = ftpRow
  BY DEF FtpPassword, FtpTypes
<1>2. ftpOdd' \in [Accounts -> BOOLEAN]
  BY Zenon DEF FtpPassword, FtpTypes
<1>3. /\ sysUser'[a] = "open"
      /\ ~ftpOdd'[a] => ftpRow[a]
      /\ \A b \in Accounts \ {a} : sysUser'[b] = sysUser[b] /\ ftpOdd'[b] = ftpOdd[b]
  BY Zenon DEF FtpPassword, FtpTypes
<1> QED BY <1>1, <1>2, <1>3 DEF FtpTypes, FtpAgrees

LEMMA FtpActiveStep ==
  ASSUME FtpTypes, FtpAgrees, NEW a \in Accounts, NEW active \in BOOLEAN, NEW modified \in BOOLEAN,
         NEW k \in Steps(2), FtpActive(a, active, modified, k)
  PROVE  FtpTypes' /\ FtpAgrees'
<1>1. sysUser' \in [Accounts -> {Nil, "open", "locked"}]
  BY DEF FtpActive, FtpTypes
<1>2. ftpOdd' \in [Accounts -> BOOLEAN] /\ ftpRow' \in [Accounts -> {Nil, TRUE, FALSE}]
  BY Zenon DEF FtpActive, FtpTypes
<1>3. k \in {1, 2}
  BY DEF FtpActive, Steps
<1>4. /\ sysUser'[a] = (IF active THEN "open" ELSE "locked")
      /\ ~ftpOdd'[a] => ftpRow'[a] = active
      /\ \A b \in Accounts \ {a} : sysUser'[b] = sysUser[b] /\ ftpOdd'[b] = ftpOdd[b] /\ ftpRow'[b] = ftpRow[b]
  BY <1>3, Zenon DEF FtpActive, FtpTypes
<1> QED BY <1>1, <1>2, <1>4 DEF FtpTypes, FtpAgrees

LEMMA FtpDeleteStep ==
  ASSUME FtpTypes, FtpAgrees, NEW a \in Accounts, NEW k \in Steps(3), FtpDelete(a, k)
  PROVE  FtpTypes' /\ FtpAgrees'
<1>1. sysUser' \in [Accounts -> {Nil, "open", "locked"}] /\ ftpRow' \in [Accounts -> {Nil, TRUE, FALSE}]
  BY DEF FtpDelete, FtpTypes
<1>2. ftpOdd' \in [Accounts -> BOOLEAN]
  BY Zenon DEF FtpDelete, FtpTypes
<1>3. ftpOdd'[a] /\ \A b \in Accounts \ {a} : sysUser'[b] = sysUser[b] /\ ftpOdd'[b] = ftpOdd[b] /\ ftpRow'[b] = ftpRow[b]
  BY Zenon DEF FtpDelete, FtpTypes
<1> QED BY <1>1, <1>2, <1>3 DEF FtpTypes, FtpAgrees

\* The server's name of a database is one of the names.
LEMMA ServerNameType == \A e \in Engines, d \in DbNames : ServerName(e, d) \in DbNames
  BY DEF ServerName, DbNames

LEMMA DbCreateStep ==
  ASSUME DbTypes, DbAgrees, NEW e \in Engines, NEW d \in DbNames, NEW apply \in BOOLEAN,
         NEW k \in Steps(2), DbCreate(e, d, apply, k)
  PROVE  DbTypes' /\ DbAgrees'
<1> DEFINE Same(c) == ServerName(e, c) = ServerName(e, d)
<1>1. /\ database' \in [Engines -> SUBSET DbNames]
      /\ \A x \in Engines : database[x] \subseteq database'[x]
      /\ apply => ServerName(e, d) \in database'[e]
  BY ServerNameType DEF DbCreate, DbTypes
<1>2. dbRow' \in [DbNames -> {Nil} \cup Engines]
  BY DEF DbCreate, DbTypes, CreateRow
<1>3. \A c \in DbNames : dbRow'[c] # e => dbRow'[c] = dbRow[c]
  BY DEF DbCreate, DbTypes, CreateRow
<1>4. \A c \in DbNames : dbOdd'[c] = IF dbRow'[c] # e \/ ~Same(c) THEN dbOdd[c] ELSE IF apply THEN "no"
                                     ELSE IF dbRow[c] # e THEN "preview" ELSE dbOdd[c]
  BY Zenon DEF DbCreate
<1>5. dbOdd' \in [DbNames -> Reasons]
  BY DEF DbCreate, DbTypes, Reasons
<1>6. ASSUME NEW c \in DbNames, dbRow'[c] # Nil, dbOdd'[c] = "no"
      PROVE  ServerName(dbRow'[c], c) \in database'[dbRow'[c]]
  <2>1. dbRow'[c] \in Engines
    BY <1>2, <1>6
  <2>2. CASE dbRow'[c] = e /\ Same(c) /\ apply
    BY <1>1, <2>2
  <2>3. CASE ~(dbRow'[c] = e /\ Same(c) /\ apply)
    <3>1. dbOdd[c] = "no"
      BY <1>4, <1>6, <2>3
    <3>2. dbRow'[c] = dbRow[c]
      <4>1. CASE dbRow'[c] # e
        BY <1>3, <4>1
      <4>2. CASE dbRow'[c] = e /\ Same(c)
        BY <1>4, <1>6, <2>3, <4>2
      <4>3. CASE ~Same(c)
        <5>1. c # d
          BY <4>3
        <5> QED BY <5>1 DEF DbCreate, DbTypes
      <4> QED BY <4>1, <4>2, <4>3
    <3> QED BY <1>1, <1>6, <2>1, <3>1, <3>2 DEF DbAgrees
  <2> QED BY <2>2, <2>3
<1>7. DbAgrees'
  BY <1>6 DEF DbAgrees
<1> QED BY <1>1, <1>2, <1>5, <1>7 DEF DbTypes

LEMMA DbDeleteStep ==
  ASSUME DbTypes, DbAgrees, NEW e \in Engines, NEW d \in DbNames, NEW k \in Steps(2), DbDelete(e, d, k)
  PROVE  DbTypes' /\ DbAgrees'
<1> DEFINE Same(c) == ServerName(e, c) = ServerName(e, d)
<1>1. database' \in [Engines -> SUBSET DbNames] /\ dbRow' \in [DbNames -> {Nil} \cup Engines]
  BY DEF DbDelete, DbTypes, DropRow
<1>2. \A c \in DbNames : dbOdd'[c] = IF dbRow'[c] # e \/ ~Same(c) THEN dbOdd[c] ELSE IF c = d THEN "half"
                                     ELSE IF dbOdd[c] = "no" THEN "spelling" ELSE dbOdd[c]
  BY Zenon DEF DbDelete
<1>3. dbOdd' \in [DbNames -> Reasons]
  BY DEF DbDelete, DbTypes, Reasons
<1>4. \A c \in DbNames : dbRow'[c] # Nil => dbRow'[c] = dbRow[c]
  BY DEF DbDelete, DbTypes, DropRow
<1>5. \A x \in Engines, c \in DbNames :
         ServerName(x, c) \in database[x] /\ ~(x = e /\ Same(c)) => ServerName(x, c) \in database'[x]
  BY DEF DbDelete, DbTypes
<1>6. ASSUME NEW c \in DbNames, dbRow'[c] # Nil, dbOdd'[c] = "no"
      PROVE  ServerName(dbRow'[c], c) \in database'[dbRow'[c]]
  <2>1. dbRow'[c] \in Engines /\ dbRow[c] = dbRow'[c]
    BY <1>1, <1>4, <1>6
  <2>2. ~(dbRow'[c] = e /\ Same(c)) /\ dbOdd[c] = "no"
    BY <1>2, <1>6
  <2> QED BY <1>5, <1>6, <2>1, <2>2 DEF DbAgrees
<1>7. DbAgrees'
  BY <1>6 DEF DbAgrees
<1> QED BY <1>1, <1>3, <1>7 DEF DbTypes

LEMMA AccountsInductive == AccountsInv /\ [AccountsNext]_accountsVars => AccountsInv'
<1> SUFFICES ASSUME AccountsInv, [AccountsNext]_accountsVars PROVE AccountsInv'
  OBVIOUS
<1>0. FtpTypes /\ DbTypes /\ FtpAgrees /\ DbAgrees
  BY AccountsParts DEF AccountsInv
<1>1. FtpTypes' /\ FtpAgrees' /\ DbTypes' /\ DbAgrees'
  <2>1. UNCHANGED ftpVars => FtpTypes' /\ FtpAgrees'
    BY <1>0 DEF ftpVars, FtpTypes, FtpAgrees
  <2>2. UNCHANGED dbVars => DbTypes' /\ DbAgrees'
    BY <1>0 DEF dbVars, DbTypes, DbAgrees
  <2>3. ASSUME NEW a \in Accounts, NEW k \in Steps(3), FtpCreate(a, k) \/ FtpDelete(a, k)
        PROVE  FtpTypes' /\ FtpAgrees' /\ UNCHANGED dbVars
    BY <1>0, <2>3, FtpCreateStep, FtpDeleteStep DEF FtpCreate, FtpDelete
  <2>4. ASSUME NEW a \in Accounts, FtpPassword(a) PROVE FtpTypes' /\ FtpAgrees' /\ UNCHANGED dbVars
    BY <1>0, <2>4, FtpPasswordStep DEF FtpPassword
  <2>5. ASSUME NEW a \in Accounts, NEW active \in BOOLEAN, NEW modified \in BOOLEAN, NEW k \in Steps(2),
               FtpActive(a, active, modified, k)
        PROVE  FtpTypes' /\ FtpAgrees' /\ UNCHANGED dbVars
    BY <1>0, <2>5, FtpActiveStep DEF FtpActive
  <2>6. ASSUME NEW e \in Engines, NEW d \in DbNames, NEW k \in Steps(2),
               (\E apply \in BOOLEAN : DbCreate(e, d, apply, k)) \/ DbDelete(e, d, k)
        PROVE  DbTypes' /\ DbAgrees' /\ UNCHANGED ftpVars
    BY <1>0, <2>6, DbCreateStep, DbDeleteStep DEF DbCreate, DbDelete
  <2>7. CASE UNCHANGED accountsVars
    BY <2>1, <2>2, <2>7 DEF accountsVars
  <2> QED BY <2>1, <2>2, <2>3, <2>4, <2>5, <2>6, <2>7 DEF AccountsNext
<1> QED BY <1>1 DEF AccountsInv, AccountsAgree, FtpAgrees, DbAgrees

LEMMA AccountsInitial == AccountsInit => AccountsInv
<1> SUFFICES ASSUME AccountsInit PROVE AccountsInv
  OBVIOUS
<1>1. FtpTypes
  BY Zenon DEF AccountsInit, FtpTypes
<1>3. DbTypes
  BY DEF AccountsInit, DbTypes, Reasons
<1>2. FtpAgrees /\ DbAgrees
  BY DEF AccountsInit, FtpAgrees, DbAgrees
<1> QED BY <1>1, <1>2, <1>3, AccountsParts DEF AccountsInv

\* What the panel lists exists and is as listed: FTP accounts and databases,
\* through handlers that end half-way, accounts the panel did not make, names
\* shared by the two engines, and names that PostgreSQL folds to one, up to
\* what AccountsAgree excepts (ftp.py, databases.py, postgres.py).
THEOREM AccountsStayListed == AccountsSpec => []AccountsAgree
<1>1. AccountsInv => AccountsAgree
  BY DEF AccountsInv
<1> QED BY <1>1, AccountsInitial, AccountsInductive, PTL DEF AccountsSpec

-----------------------------------------------------------------------------
(***************************************************************************)
(* Mail (V1Mail).                                                          *)
(***************************************************************************)
DkimRow == [selector : Selectors, key : Nat]

MailTypes ==
    /\ keyFile \in [MailDomains -> [Selectors -> {Nil} \cup Nat]]
    /\ setting \in [MailDomains -> {Nil} \cup DkimRow]
    /\ lastKey \in Nat

DkimOutcomes == {"kept", "refused", "broken", "unguarded"}

DkimRight ==
    \A d \in MailDomains : setting[d] # Nil /\ d \notin cutOff =>
       keyFile[d][setting[d].selector] = setting[d].key \/ setting[d].key \in given

MailInv == MailTypes /\ DkimRight /\ mailbox \subseteq mailDomain

LEMMA DkimSetupStep ==
  ASSUME MailTypes, DkimRight, NEW d \in MailDomains, NEW s \in Selectors,
         NEW outcome \in DkimOutcomes, NEW k \in Steps(3), DkimSetup(d, s, outcome, k)
  PROVE  MailTypes' /\ DkimRight'
<1> DEFINE new == [selector |-> s, key |-> lastKey + 1]
<1>0. /\ new \in DkimRow /\ new.selector = s /\ new.key = lastKey + 1
      /\ lastKey' = lastKey + 1 /\ lastKey' \in Nat
      /\ setting' = IF k >= 2 THEN [setting EXCEPT ![d] = new] ELSE setting
  BY DEF DkimSetup, MailTypes, DkimRow
<1> HIDE DEF new
<1>1. /\ keyFile' \in [MailDomains -> [Selectors -> {Nil} \cup Nat]]
      /\ \A x \in MailDomains \ {d} : keyFile'[x] = keyFile[x]
      /\ outcome \in {"kept", "unguarded"} => keyFile'[d][s] = lastKey + 1
      /\ \A t \in Selectors : outcome = "refused" \/ t # s => keyFile'[d][t] = keyFile[d][t]
  <2>1. CASE outcome \in {"kept", "unguarded"}
    <3>1. keyFile' = [keyFile EXCEPT ![d][s] = lastKey']
      BY <2>1 DEF DkimSetup, StoreDkimKey
    <3> QED BY <1>0, <2>1, <3>1 DEF MailTypes
  <2>2. CASE outcome = "broken"
    <3>1. keyFile' = [keyFile EXCEPT ![d][s] = 0]
      BY <2>2 DEF DkimSetup, StoreDkimKey
    <3> QED BY <2>2, <3>1 DEF MailTypes
  <2>3. CASE outcome = "refused"
    <3>1. keyFile' = keyFile
      BY <2>3 DEF DkimSetup, StoreDkimKey
    <3> QED BY <2>3, <3>1 DEF MailTypes
  <2> QED BY <2>1, <2>2, <2>3 DEF DkimOutcomes
<1>2. setting' \in [MailDomains -> {Nil} \cup DkimRow]
  BY <1>0 DEF MailTypes
<1>3. given \subseteq given' /\ \A x \in MailDomains \ {d} : x \in cutOff' <=> x \in cutOff
  BY DEF DkimSetup
<1>4. ASSUME NEW x \in MailDomains, setting'[x] # Nil, x \notin cutOff'
      PROVE  keyFile'[x][setting'[x].selector] = setting'[x].key \/ setting'[x].key \in given'
  <2>1. CASE x # d
    <3>1. setting'[x] = setting[x]
      BY <1>0, <2>1 DEF MailTypes
    <3>2. keyFile'[x] = keyFile[x] /\ x \notin cutOff
      BY <1>1, <1>3, <1>4, <2>1
    <3>3. keyFile[x][setting[x].selector] = setting[x].key \/ setting[x].key \in given
      BY <1>4, <3>1, <3>2 DEF DkimRight
    <3> QED BY <1>3, <3>1, <3>2, <3>3, Zenon
  <2>2. CASE x = d
    <3>0. Published(d, s, outcome, k) # "lost" /\ (x \notin cutOff \/ Published(d, s, outcome, k) = "sound")
      BY <1>4, <2>2 DEF DkimSetup
    <3>1. CASE k >= 2
      <4>1. setting'[x] = new
        BY <1>0, <2>2, <3>1 DEF MailTypes
      <4>2. k = 3 \/ (k = 2 /\ outcome \in {"kept", "unguarded"})
        BY <3>0, <3>1 DEF Published, Steps
      <4>3. k = 3 /\ outcome # "kept" => lastKey + 1 \in given'
        BY <1>0 DEF DkimSetup
      <4>4. setting'[x].selector = s /\ setting'[x].key = lastKey + 1
        BY <1>0, <4>1
      <4>5. outcome \in {"kept", "unguarded"} => keyFile'[x][s] = lastKey + 1
        BY <1>1, <2>2
      <4> QED BY <4>2, <4>3, <4>4, <4>5
    <3>2. CASE k = 1
      <4>1. setting' = setting
        BY <1>0, <3>2
      <4>2. Published(d, s, outcome, k) = "same" /\ x \notin cutOff
        BY <3>0, <3>2 DEF Published
      <4>3. outcome = "refused" \/ setting[x].selector # s
        BY <1>4, <2>2, <3>2, <4>1, <4>2 DEF Published
      <4>4. setting[x].selector \in Selectors
        BY <1>4, <4>1 DEF MailTypes, DkimRow
      <4>5. keyFile'[x][setting[x].selector] = keyFile[x][setting[x].selector]
        BY <1>1, <2>2, <4>3, <4>4
      <4>6. keyFile[x][setting[x].selector] = setting[x].key \/ setting[x].key \in given
        BY <1>4, <4>1, <4>2 DEF DkimRight
      <4> QED BY <1>3, <4>1, <4>5, <4>6, Zenon
    <3>3. k \in {1, 2, 3}
      BY DEF DkimSetup, Steps
    <3> QED BY <3>1, <3>2, <3>3
  <2> QED BY <2>1, <2>2
<1> QED BY <1>0, <1>1, <1>2, <1>4 DEF MailTypes, DkimRight

LEMMA MailInductive == MailInv /\ [MailNext]_mailVars => MailInv'
<1> SUFFICES ASSUME MailInv, [MailNext]_mailVars PROVE MailInv'
  OBVIOUS
<1>1. UNCHANGED <<keyFile, setting, lastKey, given, cutOff>> => MailTypes' /\ DkimRight'
  BY DEF MailInv, MailTypes, DkimRight
<1>2. ASSUME NEW d \in MailDomains,
             \/ AddDomain(d) \/ DeleteDomain(d) \/ CreateMailbox(d) \/ DeleteMailbox(d)
             \/ CreateAlias(d) \/ DeleteAlias(d)
      PROVE  MailInv'
  <2>1. mailbox' \subseteq mailDomain'
    BY <1>2 DEF MailInv, AddDomain, DeleteDomain, CreateMailbox, DeleteMailbox, CreateAlias, DeleteAlias
  <2>2. UNCHANGED <<keyFile, setting, lastKey, given, cutOff>>
    BY <1>2 DEF AddDomain, DeleteDomain, CreateMailbox, DeleteMailbox, CreateAlias, DeleteAlias
  <2> QED BY <1>1, <2>1, <2>2 DEF MailInv
<1>3. ASSUME NEW d \in MailDomains, NEW s \in Selectors, NEW outcome \in DkimOutcomes,
             NEW k \in Steps(3), DkimSetup(d, s, outcome, k)
      PROVE  MailInv'
  <2>1. MailTypes' /\ DkimRight'
    BY <1>3, DkimSetupStep DEF MailInv
  <2> QED BY <1>3, <2>1 DEF MailInv, DkimSetup
<1>4. CASE UNCHANGED mailVars
  BY <1>1, <1>4 DEF mailVars, MailInv
<1> QED BY <1>2, <1>3, <1>4 DEF MailNext, DkimOutcomes

\* The DKIM record of a domain names the key the mail server signs with, or
\* one the administrator was given, and Postfix gets mailboxes of its domains
\* only: for any domains and selectors, and through setups that end before
\* the setting or before the answer, except the two ends that MailConsistent
\* names (dkim_setup, delete_domain).
THEOREM MailStaysConsistent == MailSpec => []MailConsistent
<1>1. MailInit => MailInv
  BY DEF MailInit, MailInv, MailTypes, DkimRight
<1>2. MailInv => MailConsistent
  BY DEF MailInv, MailConsistent, DkimRight, DkimRecord, VMailboxes, VDomains
<1> QED BY <1>1, <1>2, MailInductive, PTL DEF MailSpec

-----------------------------------------------------------------------------
(***************************************************************************)
(* Alerts (V1Notify). A row of alert_log is never ahead of the message it  *)
(* stands for, and they part only while a subject is loose.                *)
(***************************************************************************)
CheckRow == [todo : SUBSET Subjects, subject : Subjects \cup {Nil}, step : {"next", "send", "record"},
             sent : BOOLEAN, judged : SUBSET Subjects]

NotifyTypes ==
    /\ hour \in Nat
    /\ alertLog \in [Subjects -> {Nil} \cup Nat] /\ lastTold \in [Subjects -> {Nil} \cup Nat]
    /\ checks1 \in [Checkers -> {Nil} \cup CheckRow]

\* For one subject: what was logged was told, not after now, and nothing was
\* told since unless it is loose.
LogTrue ==
    \A s \in Subjects :
       /\ alertLog[s] # Nil => lastTold[s] # Nil /\ alertLog[s] <= lastTold[s]
       /\ lastTold[s] # Nil => lastTold[s] <= hour
       /\ s \notin loose => lastTold[s] = alertLog[s]

\* For one check: its subject is one; when it is about to tell, nobody has
\* lately or the subject is loose; when it is about to log what it has told,
\* it told it this hour.
CheckTrue ==
    \A c \in Checkers : checks1[c] # Nil =>
       LET s == checks1[c].subject
       IN /\ checks1[c].step \in {"send", "record"} => s \in Subjects
          /\ checks1[c].step = "send" => s \in loose \/ ~Recently(alertLog[s])
          /\ checks1[c].step = "record" /\ checks1[c].sent => s \in loose /\ lastTold[s] = hour

JudgedTold == \A c \in Checkers : checks1[c] # Nil => \A s \in checks1[c].judged : Recently(lastTold[s])

NotifyInv == NotifyTypes /\ LogTrue /\ CheckTrue /\ JudgedTold /\ twice = {}

LEMMA RecentlyNow == hour \in Nat => Recently(hour)
  BY NotifyAssumption DEF Recently

LEMMA LogIsTold ==
  ASSUME NotifyTypes, LogTrue, NEW s \in Subjects, Recently(alertLog[s])
  PROVE  Recently(lastTold[s])
  BY NotifyAssumption DEF NotifyTypes, LogTrue, Recently

LEMMA CheckAlertsStep ==
  ASSUME NotifyInv, NEW c \in Checkers, CheckAlerts(c) \/ CheckEnds(c)
  PROVE  NotifyInv'
<1> DEFINE new == [todo |-> Subjects, subject |-> Nil, step |-> "next", sent |-> FALSE, judged |-> {}]
<1>1. new \in CheckRow /\ new.step = "next" /\ new.judged = {}
  BY Zenon DEF CheckRow
<1> HIDE DEF new
<1>2. /\ checks1' = [checks1 EXCEPT ![c] = new] \/ checks1' = [checks1 EXCEPT ![c] = Nil]
      /\ UNCHANGED <<hour, breach, alertLog, lastTold, twice, loose>>
  BY DEF CheckAlerts, CheckEnds, new
<1>3. NotifyTypes' /\ LogTrue'
  BY <1>1, <1>2 DEF NotifyInv, NotifyTypes, LogTrue
<1>4. \A o \in Checkers : o # c => checks1'[o] = checks1[o]
  BY <1>2 DEF NotifyInv, NotifyTypes
<1>5. checks1'[c] = Nil \/ checks1'[c] = new
  BY <1>2 DEF NotifyInv, NotifyTypes
<1>6. CheckTrue' /\ JudgedTold'
  BY <1>1, <1>2, <1>4, <1>5 DEF NotifyInv, CheckTrue, JudgedTold, Recently
<1> QED BY <1>2, <1>3, <1>6 DEF NotifyInv

LEMMA EmitStep ==
  ASSUME NotifyInv, NEW c \in Checkers, NEW s \in Subjects, Emit(c, s)
  PROVE  NotifyInv'
<1> DEFINE w == checks1[c]
           skips == s \notin breach \/ AlreadyAlerted(s)
           st == IF skips THEN "next" ELSE "send"
           j == IF s \in breach /\ skips THEN w.judged \cup {s} ELSE w.judged
           t == w.todo \ {s}
           n == [w EXCEPT !.todo = t, !.subject = s, !.step = st, !.judged = j]
<1>0. w \in CheckRow /\ w # Nil
  BY DEF Emit, NotifyInv, NotifyTypes
<1>1. t \in SUBSET Subjects /\ j \in SUBSET Subjects /\ st \in {"next", "send", "record"}
  BY <1>0 DEF CheckRow
<1>2. n \in CheckRow /\ n.subject = s /\ n.step = st /\ n.judged = j
  <2>1. n = [w EXCEPT !.todo = t, !.subject = s, !.step = st, !.judged = j]
    OBVIOUS
  <2> HIDE DEF w, st, j, t, n
  <2> QED BY <1>0, <1>1, <2>1, Zenon DEF CheckRow
<1>3. checks1' = [checks1 EXCEPT ![c] = n] /\ UNCHANGED <<hour, breach, alertLog, lastTold, twice, loose>>
  BY <1>0 DEF Emit, NotifyInv, NotifyTypes
<1> HIDE DEF n
<1>4. NotifyTypes' /\ LogTrue'
  BY <1>2, <1>3 DEF NotifyInv, NotifyTypes, LogTrue
<1>5. \A o \in Checkers : o # c => checks1'[o] = checks1[o]
  BY <1>3 DEF NotifyInv, NotifyTypes
<1>6. checks1'[c] = n
  BY <1>3 DEF NotifyInv, NotifyTypes
<1>7. st = "send" => ~Recently(alertLog[s])
  BY DEF AlreadyAlerted
<1>12. st # "record"
  OBVIOUS
<1>8. \A x \in j : Recently(lastTold[x])
  <2>1. s \in breach /\ skips => Recently(lastTold[s])
    BY LogIsTold DEF AlreadyAlerted, NotifyInv
  <2>2. \A x \in w.judged : Recently(lastTold[x])
    BY <1>0 DEF NotifyInv, JudgedTold
  <2> QED BY <2>1, <2>2
<1> HIDE DEF j, st, skips, w, t
<1>9. CheckTrue'
  <2> SUFFICES ASSUME NEW o \in Checkers, checks1'[o] # Nil
               PROVE  /\ checks1'[o].step \in {"send", "record"} => checks1'[o].subject \in Subjects
                      /\ checks1'[o].step = "send" =>
                           checks1'[o].subject \in loose \/ ~Recently(alertLog[checks1'[o].subject])
                      /\ checks1'[o].step = "record" /\ checks1'[o].sent =>
                           checks1'[o].subject \in loose /\ lastTold[checks1'[o].subject] = hour
    BY <1>3 DEF CheckTrue, Recently
  <2>1. CASE o = c
    BY <1>1, <1>2, <1>6, <1>7, <1>12, <2>1
  <2>2. CASE o # c
    BY <1>5, <2>2 DEF NotifyInv, CheckTrue
  <2> QED BY <2>1, <2>2
<1>10. JudgedTold'
  BY <1>2, <1>3, <1>5, <1>6, <1>8 DEF NotifyInv, JudgedTold, Recently
<1> QED BY <1>3, <1>4, <1>9, <1>10 DEF NotifyInv

LEMMA SendAlertStep ==
  ASSUME NotifyInv, NEW c \in Checkers, NEW sent \in BOOLEAN, SendAlert(c, sent)
  PROVE  NotifyInv'
<1> DEFINE w == checks1[c]
           s == w.subject
           n == [w EXCEPT !.step = "record", !.sent = sent]
<1>0. w \in CheckRow /\ w # Nil /\ w.step = "send"
  BY DEF SendAlert, NotifyInv, NotifyTypes
<1>1. s \in Subjects /\ (s \in loose \/ ~Recently(alertLog[s])) /\ w.judged \subseteq Subjects
  BY <1>0 DEF NotifyInv, CheckTrue, CheckRow
<1>2. n \in CheckRow /\ n.subject = s /\ n.step = "record" /\ n.sent = sent /\ n.judged = w.judged
  <2>1. n = [w EXCEPT !.step = "record", !.sent = sent]
    OBVIOUS
  <2> HIDE DEF w, n
  <2> QED BY <1>0, <2>1, Zenon DEF s, CheckRow
<1>3. /\ checks1' = [checks1 EXCEPT ![c] = n]
      /\ lastTold' = (IF sent THEN [lastTold EXCEPT ![s] = hour] ELSE lastTold)
      /\ twice' = (IF sent /\ s \notin loose /\ Recently(lastTold[s]) THEN twice \cup {s} ELSE twice)
      /\ loose' = (IF sent THEN loose \cup {s} ELSE loose)
      /\ UNCHANGED <<hour, breach, alertLog>>
  BY <1>0 DEF SendAlert, NotifyInv, NotifyTypes
<1>4. NotifyTypes
  BY DEF NotifyInv
<1> HIDE DEF n, w, s
<1>5. /\ \A o \in Checkers : o # c => checks1'[o] = checks1[o]
      /\ checks1'[c] = n
  BY <1>3, <1>4 DEF NotifyTypes
<1>6. /\ \A x \in Subjects : lastTold'[x] = IF sent /\ x = s THEN hour ELSE lastTold[x]
      /\ loose \subseteq loose' /\ (sent => s \in loose')
      /\ \A x \in Subjects : x \notin loose' => x \notin loose /\ ~(sent /\ x = s)
  BY <1>1, <1>3, <1>4 DEF NotifyTypes
<1>7. NotifyTypes'
  BY <1>1, <1>2, <1>3, <1>4 DEF NotifyTypes
<1>8. LogTrue'
  <2> SUFFICES ASSUME NEW x \in Subjects
               PROVE  /\ alertLog[x] # Nil => lastTold'[x] # Nil /\ alertLog[x] <= lastTold'[x]
                      /\ lastTold'[x] # Nil => lastTold'[x] <= hour
                      /\ x \notin loose' => lastTold'[x] = alertLog[x]
    BY <1>3 DEF LogTrue
  <2>1. /\ alertLog[x] # Nil => lastTold[x] # Nil /\ alertLog[x] <= lastTold[x]
        /\ lastTold[x] # Nil => lastTold[x] <= hour
        /\ x \notin loose => lastTold[x] = alertLog[x]
    BY DEF NotifyInv, LogTrue
  <2>2. alertLog[x] \in {Nil} \cup Nat /\ lastTold[x] \in {Nil} \cup Nat /\ hour \in Nat
    BY <1>4 DEF NotifyTypes
  <2> QED BY <1>6, <2>1, <2>2, NotifyAssumption
<1>9. CheckTrue'
  <2> SUFFICES ASSUME NEW o \in Checkers, checks1'[o] # Nil
               PROVE  /\ checks1'[o].step \in {"send", "record"} => checks1'[o].subject \in Subjects
                      /\ checks1'[o].step = "send" =>
                           checks1'[o].subject \in loose' \/ ~Recently(alertLog[checks1'[o].subject])
                      /\ checks1'[o].step = "record" /\ checks1'[o].sent =>
                           checks1'[o].subject \in loose' /\ lastTold'[checks1'[o].subject] = hour
    BY <1>3 DEF CheckTrue, Recently
  <2>1. CASE o = c
    BY <1>1, <1>2, <1>5, <1>6, <2>1
  <2>2. CASE o # c
    BY <1>5, <1>6, <2>2 DEF NotifyInv, CheckTrue
  <2> QED BY <2>1, <2>2
<1>10. JudgedTold'
  <2> SUFFICES ASSUME NEW o \in Checkers, checks1'[o] # Nil, NEW x \in checks1'[o].judged
               PROVE  Recently(lastTold'[x])
    BY <1>3 DEF JudgedTold, Recently
  <2>1. Recently(lastTold[x])
    BY <1>0, <1>2, <1>5 DEF NotifyInv, JudgedTold, w
  <2>2. x \in Subjects
    <3>1. checks1'[o] \in CheckRow
      BY <1>7 DEF NotifyTypes
    <3> QED BY <3>1 DEF CheckRow
  <2> QED BY <1>4, <1>6, <2>1, <2>2, RecentlyNow DEF NotifyTypes
<1>11. twice' = {}
  <2>1. s \notin loose => lastTold[s] = alertLog[s]
    BY <1>1 DEF NotifyInv, LogTrue
  <2> QED BY <1>1, <1>3, <2>1 DEF NotifyInv
<1> QED BY <1>7, <1>8, <1>9, <1>10, <1>11 DEF NotifyInv

LEMMA RecordAlertStep ==
  ASSUME NotifyInv, NEW c \in Checkers, RecordAlert(c)
  PROVE  NotifyInv'
<1> DEFINE w == checks1[c]
           s == w.subject
           j == IF w.sent THEN w.judged \cup {s} ELSE w.judged
           n == [w EXCEPT !.step = "next", !.judged = j]
           other == \E o \in Checkers \ {c} :
                       checks1[o] # Nil /\ checks1[o].subject = s /\ checks1[o].step \in {"send", "record"}
<1>0. w \in CheckRow /\ w # Nil /\ w.step = "record"
  BY DEF RecordAlert, NotifyInv, NotifyTypes
<1>1. s \in Subjects /\ (w.sent => s \in loose /\ lastTold[s] = hour) /\ w.judged \subseteq Subjects
  BY <1>0 DEF NotifyInv, CheckTrue, CheckRow
<1>2. n \in CheckRow /\ n.step = "next" /\ n.judged = j
  <2>1. n = [w EXCEPT !.step = "next", !.judged = j] /\ j \in SUBSET Subjects
    BY <1>1
  <2> HIDE DEF w, n, j
  <2> QED BY <1>0, <2>1, Zenon DEF CheckRow
<1>3. /\ checks1' = [checks1 EXCEPT ![c] = n]
      /\ alertLog' = (IF w.sent THEN [alertLog EXCEPT ![s] = hour] ELSE alertLog)
      /\ loose' = (IF w.sent /\ ~other THEN loose \ {s} ELSE loose)
      /\ UNCHANGED <<hour, breach, lastTold, twice>>
  BY <1>0 DEF RecordAlert, NotifyInv, NotifyTypes
<1>4. NotifyTypes
  BY DEF NotifyInv
<1>5. \A o \in Checkers : o # c /\ checks1[o] # Nil /\ checks1[o].step \in {"send", "record"} =>
         checks1[o].subject # s \/ other
  OBVIOUS
<1>12. \A x \in j : x \in w.judged \/ (x = s /\ w.sent)
  OBVIOUS
<1> HIDE DEF n, w, s, other, j
<1>6. /\ \A o \in Checkers : o # c => checks1'[o] = checks1[o]
      /\ checks1'[c] = n
  BY <1>3, <1>4 DEF NotifyTypes
<1>7. /\ \A x \in Subjects : alertLog'[x] = IF w.sent /\ x = s THEN hour ELSE alertLog[x]
      /\ \A x \in loose : x \notin loose' => x = s /\ w.sent /\ ~other
      /\ loose' \subseteq loose
  BY <1>1, <1>3, <1>4 DEF NotifyTypes
<1>8. NotifyTypes'
  BY <1>1, <1>2, <1>3, <1>4 DEF NotifyTypes
<1>9. LogTrue'
  <2> SUFFICES ASSUME NEW x \in Subjects
               PROVE  /\ alertLog'[x] # Nil => lastTold[x] # Nil /\ alertLog'[x] <= lastTold[x]
                      /\ lastTold[x] # Nil => lastTold[x] <= hour
                      /\ x \notin loose' => lastTold[x] = alertLog'[x]
    BY <1>3 DEF LogTrue
  <2>1. /\ alertLog[x] # Nil => lastTold[x] # Nil /\ alertLog[x] <= lastTold[x]
        /\ lastTold[x] # Nil => lastTold[x] <= hour
        /\ x \notin loose => lastTold[x] = alertLog[x]
    BY DEF NotifyInv, LogTrue
  <2>2. hour \in Nat
    BY <1>4 DEF NotifyTypes
  <2> QED BY <1>1, <1>7, <2>1, <2>2, NotifyAssumption
<1>10. CheckTrue'
  <2> SUFFICES ASSUME NEW o \in Checkers, checks1'[o] # Nil
               PROVE  /\ checks1'[o].step \in {"send", "record"} => checks1'[o].subject \in Subjects
                      /\ checks1'[o].step = "send" =>
                           checks1'[o].subject \in loose' \/ ~Recently(alertLog'[checks1'[o].subject])
                      /\ checks1'[o].step = "record" /\ checks1'[o].sent =>
                           checks1'[o].subject \in loose' /\ lastTold[checks1'[o].subject] = hour
    BY <1>3 DEF CheckTrue, Recently
  <2>1. CASE o = c
    BY <1>2, <1>6, <2>1
  <2>2. CASE o # c
    <3> DEFINE y == checks1[o].subject
    <3>1. checks1'[o] = checks1[o] /\ checks1[o] # Nil
      BY <1>6, <2>2
    <3>2. /\ checks1[o].step \in {"send", "record"} => y \in Subjects /\ (y # s \/ other)
          /\ checks1[o].step = "send" => y \in loose \/ ~Recently(alertLog[y])
          /\ checks1[o].step = "record" /\ checks1[o].sent => y \in loose /\ lastTold[y] = hour
      BY <1>5, <2>2, <3>1 DEF NotifyInv, CheckTrue
    <3>3. checks1[o].step \in {"send", "record"} /\ y \in loose => y \in loose'
      BY <1>7, <3>2
    <3>4. checks1[o].step = "send" /\ y \notin loose => alertLog'[y] = alertLog[y]
      BY <1>1, <1>7, <3>2
    <3> HIDE DEF y
    <3> QED BY <3>1, <3>2, <3>3, <3>4 DEF y
  <2> QED BY <2>1, <2>2
<1>11. JudgedTold'
  <2> SUFFICES ASSUME NEW o \in Checkers, checks1'[o] # Nil, NEW x \in checks1'[o].judged
               PROVE  Recently(lastTold[x])
    BY <1>3 DEF JudgedTold, Recently
  <2>1. CASE o # c
    BY <1>6, <2>1 DEF NotifyInv, JudgedTold
  <2>2. CASE o = c
    <3>1. x \in w.judged \/ (x = s /\ w.sent)
      BY <1>2, <1>6, <1>12, <2>2
    <3>2. x \in w.judged => Recently(lastTold[x])
      BY <1>0 DEF NotifyInv, JudgedTold, w
    <3>3. x = s /\ w.sent => Recently(lastTold[x])
      BY <1>1, <1>4, RecentlyNow DEF NotifyTypes
    <3> QED BY <3>1, <3>2, <3>3
  <2> QED BY <2>1, <2>2
<1> QED BY <1>3, <1>8, <1>9, <1>10, <1>11 DEF NotifyInv

LEMMA NotifyOutside ==
  ASSUME NotifyInv, NotifyStops \/ HourPasses \/ (\E s \in Subjects : Breaks(s)) \/ UNCHANGED notifyVars
  PROVE  NotifyInv'
<1>1. CASE NotifyStops
  <2>1. \A c \in Checkers : checks1'[c] = Nil
    BY <1>1 DEF NotifyStops
  <2>2. NotifyTypes' /\ LogTrue'
    BY <1>1 DEF NotifyStops, NotifyInv, NotifyTypes, LogTrue
  <2> QED BY <1>1, <2>1, <2>2 DEF NotifyStops, NotifyInv, CheckTrue, JudgedTold
<1>2. CASE HourPasses
  <2>1. \A c \in Checkers : checks1'[c] = Nil
    BY <1>2 DEF HourPasses
  <2>2. NotifyTypes'
    BY <1>2 DEF HourPasses, NotifyInv, NotifyTypes
  <2>3. LogTrue'
    BY <1>2, NotifyAssumption DEF HourPasses, NotifyInv, NotifyTypes, LogTrue
  <2> QED BY <1>2, <2>1, <2>2, <2>3 DEF HourPasses, NotifyInv, CheckTrue, JudgedTold
<1>3. CASE (\E s \in Subjects : Breaks(s)) \/ UNCHANGED notifyVars
  <2>1. UNCHANGED <<hour, alertLog, checks1, lastTold, twice, loose>>
    BY <1>3 DEF Breaks, notifyVars
  <2> QED BY <2>1 DEF NotifyInv, NotifyTypes, LogTrue, CheckTrue, JudgedTold, Recently
<1> QED BY <1>1, <1>2, <1>3

LEMMA NotifyInitial == NotifyInit => NotifyInv
  BY DEF NotifyInit, NotifyInv, NotifyTypes, LogTrue, CheckTrue, JudgedTold

\* Whatever a check passed over or dealt with, the administrator was told of
\* within the window, and nothing is told of twice in it unless two checks
\* overlap or a stop comes between the message and its row: for any subjects
\* and any window (check_alerts, _already_alerted, _record_alert).
THEOREM ToldOfInTime == NotifySpec => []ToldInTime
<1>1. NotifyInv => ToldInTime
  BY DEF NotifyInv, ToldInTime, JudgedTold
<1>2. NotifyInv /\ [NotifyNext]_notifyVars => NotifyInv'
  BY CheckAlertsStep, EmitStep, SendAlertStep, RecordAlertStep, NotifyOutside DEF NotifyNext
<1> QED BY <1>1, <1>2, NotifyInitial, PTL DEF NotifySpec

-----------------------------------------------------------------------------
(***************************************************************************)
(* DNS zones (V1Dns). Of a zone that is not tainted, the copies are behind *)
(* one another: the secondary's behind BIND's, BIND's behind the file, the *)
(* file behind the rows; and equal serial numbers mean equal zones.        *)
(***************************************************************************)
Behind(x, y) == x # Nil => y # Nil /\ x.serial <= y.serial /\ (x.serial = y.serial => x = y)

ZoneOrNil == {Nil} \cup ZoneRow

DnsTypes ==
    /\ today \in Nat
    /\ zone \in [Zones -> ZoneOrNil] /\ zfile \in [Zones -> ZoneOrNil]
    /\ served \in [Zones -> ZoneOrNil] /\ secondary \in [Zones -> ZoneOrNil]

TaintType == tainted \in [Zones -> BOOLEAN]

InLine(z) == Behind(secondary[z], served[z]) /\ Behind(served[z], zfile[z]) /\ Behind(zfile[z], zone[z])

CopiesInLine == \A z \in Zones : ~tainted[z] => InLine(z)

DnsInv == DnsTypes /\ TaintType /\ CopiesInLine

LEMMA BehindTrans ==
  ASSUME NEW x \in ZoneOrNil, NEW y \in ZoneOrNil, NEW z \in ZoneOrNil, Behind(x, y), Behind(y, z)
  PROVE  Behind(x, z)
  BY DEF Behind, ZoneOrNil, ZoneRow

LEMMA BehindItself == ASSUME NEW x \in ZoneOrNil PROVE Behind(x, x)
  BY DEF Behind, ZoneOrNil, ZoneRow

\* A bumped serial number is a new one.
LEMMA BumpGrows ==
  ASSUME today \in Nat, NEW s \in Nat
  PROVE  BumpSerial(s) \in Nat /\ BumpSerial(s) > s /\ NewSerial \in Nat
<1>1. today * DayRange \in Nat
  BY DnsAssumption
<1> QED BY <1>1 DEF BumpSerial, NewSerial

\* Writing a file and reloading keep a zone's copies in line with the rows
\* as they are by now.
LEMMA PublishInLine ==
  ASSUME DnsTypes, NEW z \in Zones, zone'[z] \in ZoneOrNil,
         Behind(secondary[z], served[z]), Behind(served[z], zfile[z]), Behind(zfile[z], zone'[z]),
         zfile'[z] = zfile[z] \/ zfile'[z] = zone'[z],
         served' = served \/ (BindReload /\ included' = {y \in Zones : zone'[y] # Nil}),
         secondary' = secondary
  PROVE  InLine(z)' /\ served'[z] \in ZoneOrNil
<1>1. /\ secondary[z] \in ZoneOrNil /\ served[z] \in ZoneOrNil /\ zfile[z] \in ZoneOrNil
      /\ zfile'[z] \in ZoneOrNil
  BY DEF DnsTypes
<1>2. Behind(zfile'[z], zone'[z])
  BY BehindItself
<1>3. Behind(served[z], zfile'[z])
  <2>1. Behind(served[z], zone'[z])
    BY <1>1, BehindTrans
  <2> QED BY <2>1
<1>4. CASE served'[z] = served[z]
  BY <1>1, <1>2, <1>3, <1>4 DEF InLine
<1>5. CASE served'[z] = zfile'[z]
  <2>1. Behind(secondary[z], zfile'[z])
    BY <1>1, <1>3, BehindTrans
  <2>2. Behind(zfile'[z], zfile'[z])
    BY <1>1, BehindItself
  <2> QED BY <1>1, <1>2, <1>5, <2>1, <2>2 DEF InLine
<1>6. served'[z] = served[z] \/ served'[z] = zfile'[z]
  <2>1. CASE BindReload /\ included' = {y \in Zones : zone'[y] # Nil}
    <3>1. CASE z \notin included'
      <4>1. zone'[z] = Nil /\ served'[z] = Nil
        BY <2>1, <3>1 DEF BindReload
      <4> QED BY <1>3, <1>2, <4>1 DEF Behind
    <3>2. CASE z \in included'
      BY <2>1, <3>2 DEF BindReload
    <3> QED BY <3>1, <3>2
  <2> QED BY <2>1
<1> QED BY <1>4, <1>5, <1>6

LEMMA ServedType ==
  ASSUME DnsTypes, zfile' \in [Zones -> ZoneOrNil], served' = served \/ BindReload
  PROVE  served' \in [Zones -> ZoneOrNil]
  BY DEF DnsTypes, BindReload, ZoneOrNil

LEMMA ApplyStepsDo ==
  ASSUME DnsTypes, zone' \in [Zones -> ZoneOrNil], NEW z \in Zones, NEW k \in Int, ApplySteps(z, k)
  PROVE  /\ zfile' \in [Zones -> ZoneOrNil] /\ served' \in [Zones -> ZoneOrNil]
         /\ \A y \in Zones : zfile'[y] = zfile[y] \/ zfile'[y] = zone'[y]
         /\ served' = served \/ (BindReload /\ included' = {y \in Zones : zone'[y] # Nil})
<1>1. zfile' \in [Zones -> ZoneOrNil] /\ \A y \in Zones : zfile'[y] = zfile[y] \/ zfile'[y] = zone'[y]
  BY DEF ApplySteps, DnsTypes
<1>2. served' = served \/ (BindReload /\ included' = {y \in Zones : zone'[y] # Nil})
  BY DEF ApplySteps
<1> QED BY <1>1, <1>2, ServedType

LEMMA CreateZoneStep ==
  ASSUME DnsInv, NEW z \in Zones, NEW k \in Steps(3), CreateZone(z, k) \/ ApplyZone(z, k)
  PROVE  DnsInv'
<1> DEFINE new == [serial |-> NewSerial, recs |-> {}]
<1>0. new \in ZoneOrNil
  BY BumpGrows DEF DnsInv, DnsTypes, ZoneOrNil, ZoneRow
<1>1. /\ zone' = zone \/ (zone[z] = Nil /\ zone' = [zone EXCEPT ![z] = new])
      /\ ApplySteps(z, k) /\ UNCHANGED <<today, secondary, tainted>> /\ k \in Int
  BY DEF CreateZone, ApplyZone, Steps
<1> HIDE DEF new
<1>2. zone' \in [Zones -> ZoneOrNil] /\ \A y \in Zones : zone[y] # Nil => zone'[y] = zone[y]
  BY <1>0, <1>1 DEF DnsInv, DnsTypes
<1>3. /\ zfile' \in [Zones -> ZoneOrNil] /\ served' \in [Zones -> ZoneOrNil]
      /\ \A y \in Zones : zfile'[y] = zfile[y] \/ zfile'[y] = zone'[y]
      /\ served' = served \/ (BindReload /\ included' = {y \in Zones : zone'[y] # Nil})
  BY <1>1, <1>2, ApplyStepsDo DEF DnsInv
<1>4. DnsTypes' /\ TaintType'
  BY <1>1, <1>2, <1>3 DEF DnsInv, DnsTypes, TaintType
<1>5. ASSUME NEW y \in Zones, ~tainted'[y] PROVE InLine(y)'
  <2>1. InLine(y)
    BY <1>1, <1>5 DEF DnsInv, CopiesInLine
  <2>2. Behind(zfile[y], zone'[y])
    BY <1>2, <2>1 DEF InLine, Behind
  <2>3. zone'[y] \in ZoneOrNil
    BY <1>2
  <2> QED BY <1>1, <1>3, <2>1, <2>2, <2>3, PublishInLine DEF InLine, DnsInv
<1> QED BY <1>4, <1>5 DEF DnsInv, CopiesInLine

LEMMA ChangeRecordsStep ==
  ASSUME DnsInv, NEW z \in Zones, NEW recs \in SUBSET Records, NEW k \in Steps(5), ChangeRecords(z, recs, k)
  PROVE  DnsInv'
<1> DEFINE old == zone[z]
           new == [serial |-> IF k >= 2 THEN BumpSerial(old.serial) ELSE old.serial, recs |-> recs]
<1>0. old \in ZoneRow /\ old.serial \in Nat
  BY DEF ChangeRecords, DnsInv, DnsTypes, ZoneOrNil, ZoneRow
<1>1. new \in ZoneRow /\ (k >= 2 => new.serial > old.serial)
  BY <1>0, BumpGrows DEF DnsInv, DnsTypes, ZoneRow
<1>2. /\ zone' = [zone EXCEPT ![z] = new] /\ ApplySteps(z, k - 2) /\ UNCHANGED <<today, secondary>>
      /\ k >= 1 /\ k \in Int /\ k - 2 \in Int /\ tainted' = [tainted EXCEPT ![z] = @ \/ k = 1]
  BY DEF ChangeRecords, Steps, DnsInv, DnsTypes
<1> HIDE DEF new
<1>3. zone' \in [Zones -> ZoneOrNil] /\ zone'[z] = new /\ \A y \in Zones \ {z} : zone'[y] = zone[y]
  BY <1>1, <1>2 DEF DnsInv, DnsTypes, ZoneOrNil
<1>4. /\ zfile' \in [Zones -> ZoneOrNil] /\ served' \in [Zones -> ZoneOrNil]
      /\ \A y \in Zones : zfile'[y] = zfile[y] \/ zfile'[y] = zone'[y]
      /\ served' = served \/ (BindReload /\ included' = {y \in Zones : zone'[y] # Nil})
  BY <1>2, <1>3, ApplyStepsDo DEF DnsInv
<1>5. DnsTypes'
  BY <1>2, <1>3, <1>4 DEF DnsInv, DnsTypes
<1>6. TaintType' /\ \A y \in Zones : ~tainted'[y] => ~tainted[y] /\ (y = z => k # 1)
  BY <1>2, Zenon DEF DnsInv, TaintType
<1>7. ASSUME NEW y \in Zones, ~tainted'[y] PROVE InLine(y)'
  <2>1. InLine(y)
    BY <1>6, <1>7 DEF DnsInv, CopiesInLine
  <2>2. Behind(zfile[y], zone'[y])
    <3>1. CASE y # z
      BY <1>3, <2>1, <3>1 DEF InLine
    <3>2. CASE y = z
      <4>1. new.serial > old.serial
        BY <1>1, <1>2, <1>6, <1>7, <3>2
      <4>2. Behind(zfile[z], old) /\ zfile[z] \in ZoneOrNil /\ zone'[z] = new
        BY <1>3, <2>1, <3>2 DEF InLine, DnsInv, DnsTypes
      <4> HIDE DEF old
      <4>3. Behind(zfile[z], new)
        BY <1>0, <1>1, <4>1, <4>2, DnsAssumption DEF Behind, ZoneOrNil, ZoneRow
      <4> QED BY <3>2, <4>2, <4>3
    <3> QED BY <3>1, <3>2
  <2>3. zone'[y] \in ZoneOrNil
    BY <1>3
  <2> QED BY <1>2, <1>4, <2>1, <2>2, <2>3, PublishInLine DEF InLine, DnsInv
<1> QED BY <1>5, <1>6, <1>7 DEF DnsInv, CopiesInLine

LEMMA DeleteZoneStep ==
  ASSUME DnsInv, NEW z \in Zones, NEW k \in Steps(3), DeleteZone(z, k)
  PROVE  DnsInv'
<1>1. /\ zone' \in [Zones -> ZoneOrNil] /\ zfile' \in [Zones -> ZoneOrNil] /\ UNCHANGED <<today, secondary>>
      /\ \A y \in Zones \ {z} : zone'[y] = zone[y] /\ zfile'[y] = zfile[y]
      /\ k \in Int
  BY DEF DeleteZone, DnsInv, DnsTypes, ZoneOrNil, Steps
<1>2. served' = served \/ (BindReload /\ included' = {y \in Zones : zone'[y] # Nil})
  BY <1>1 DEF DeleteZone
<1>3. DnsTypes'
  BY <1>1, <1>2, ServedType DEF DnsInv, DnsTypes
<1>4. TaintType' /\ \A y \in Zones : ~tainted'[y] => ~tainted[y] /\ y # z
  BY Zenon DEF DeleteZone, DnsInv, TaintType
<1>5. ASSUME NEW y \in Zones, ~tainted'[y] PROVE InLine(y)'
  <2>1. InLine(y) /\ y # z
    BY <1>4, <1>5 DEF DnsInv, CopiesInLine
  <2>2. Behind(zfile[y], zone'[y]) /\ zone'[y] \in ZoneOrNil /\ zfile'[y] = zfile[y]
    BY <1>1, <2>1 DEF InLine
  <2> QED BY <1>1, <1>2, <2>1, <2>2, PublishInLine DEF InLine, DnsInv
<1> QED BY <1>3, <1>4, <1>5 DEF DnsInv, CopiesInLine

LEMMA DnsOutside ==
  ASSUME DnsInv, (\E z \in Zones : Transfer(z)) \/ DateChanges \/ UNCHANGED dnsVars
  PROVE  DnsInv'
<1>1. ASSUME NEW z \in Zones, Transfer(z) PROVE DnsInv'
  <2>1. DnsTypes' /\ TaintType'
    BY <1>1 DEF Transfer, DnsInv, DnsTypes, TaintType
  <2>2. ASSUME NEW y \in Zones, ~tainted'[y] PROVE InLine(y)'
    <3>1. InLine(y) /\ served[y] \in ZoneOrNil
      BY <1>1, <2>2 DEF Transfer, DnsInv, CopiesInLine, DnsTypes
    <3>2. secondary'[y] = secondary[y] \/ secondary'[y] = served[y]
      BY <1>1 DEF Transfer, DnsInv, DnsTypes
    <3>3. Behind(served[y], served[y])
      BY <3>1, BehindItself
    <3>4. Behind(secondary'[y], served[y])
      BY <3>1, <3>2, <3>3 DEF InLine
    <3> QED BY <1>1, <3>1, <3>4 DEF Transfer, InLine
  <2> QED BY <2>1, <2>2 DEF DnsInv, CopiesInLine
<1>2. CASE DateChanges \/ UNCHANGED dnsVars
  <2>1. UNCHANGED <<zone, zfile, served, secondary, tainted>> /\ today' \in Nat
    BY <1>2, DnsAssumption DEF DateChanges, dnsVars, DnsInv, DnsTypes
  <2> QED BY <2>1 DEF DnsInv, DnsTypes, TaintType, CopiesInLine, InLine
<1> QED BY <1>1, <1>2

\* A secondary with no reason to transfer a zone holds what BIND serves: for
\* any zones, records and numbers of changes a day, with a clock that may be
\* set back (_new_serial, _bump_serial, apply_zone).
THEOREM SecondariesFollow == DnsSpec => []SecondaryFollows
<1>1. DnsInit => DnsInv
  <2> SUFFICES ASSUME DnsInit PROVE DnsInv
    OBVIOUS
  <2>1. DnsTypes
    BY DnsAssumption DEF DnsInit, DnsTypes, ZoneOrNil
  <2>2. TaintType
    BY Zenon DEF DnsInit, TaintType
  <2>3. CopiesInLine
    BY DEF DnsInit, CopiesInLine, InLine, Behind
  <2> QED BY <2>1, <2>2, <2>3 DEF DnsInv
<1>2. DnsInv => SecondaryFollows
  <2> SUFFICES ASSUME DnsInv, NEW z \in Zones, served[z] # Nil, secondary[z] # Nil, ~tainted[z],
                      secondary[z].serial >= served[z].serial
               PROVE  secondary[z] = served[z]
    BY DEF SecondaryFollows
  <2>1. Behind(secondary[z], served[z])
    BY DEF DnsInv, CopiesInLine, InLine
  <2>2. secondary[z] \in ZoneRow /\ served[z] \in ZoneRow
    BY DEF DnsInv, DnsTypes, ZoneOrNil
  <2>3. secondary[z].serial \in Nat /\ served[z].serial \in Nat
    BY <2>2 DEF ZoneRow
  <2> QED BY <2>1, <2>3 DEF Behind
<1>3. DnsInv /\ [DnsNext]_dnsVars => DnsInv'
  BY CreateZoneStep, ChangeRecordsStep, DeleteZoneStep, DnsOutside DEF DnsNext
<1> QED BY <1>1, <1>2, <1>3, PTL DEF DnsSpec

-----------------------------------------------------------------------------
(***************************************************************************)
(* Sites (V1Sites). Two things make the table, the files and nginx agree:  *)
(* the files of a clean site are those its row asks for, and when the last *)
(* handler ran to its end, nginx has loaded the files that pass its test.  *)
(***************************************************************************)
SitesTypes ==
    /\ layout \in {"debian", "rhel"}
    /\ siteRow \in [Domains -> {Nil} \cup SiteRow]
    /\ conf \in [Domains -> {Nil} \cup Vhost] /\ off \in [Domains -> {Nil} \cup Vhost]

FlagTypes ==
    /\ link \in [Domains -> BOOLEAN] /\ cert \in [Domains -> BOOLEAN]
    /\ clean \in [Domains -> BOOLEAN] /\ settled \in BOOLEAN

\* The files that the row of d asks for, in either layout.
FilesRight(d) ==
    siteRow[d] # Nil =>
       LET vhost == RenderVhost(siteRow[d])
       IN /\ layout = "debian" => conf[d] = vhost /\ (link[d] <=> siteRow[d].enabled)
          /\ layout = "rhel" /\ siteRow[d].enabled => conf[d] = vhost /\ off[d] = Nil
          /\ layout = "rhel" /\ ~siteRow[d].enabled => conf[d] = Nil /\ off[d] = vhost

CleanFiles == \A d \in Domains : clean[d] => FilesRight(d)

Loaded == settled /\ NginxTest(Active(conf, link), cert) => serving = Active(conf, link)

SitesInv == SitesTypes /\ FlagTypes /\ NoOrphanVhost /\ CleanFiles /\ Loaded

LEMMA RenderedVhost ==
  ASSUME NEW r \in SiteRow
  PROVE  RenderVhost(r) \in Vhost /\ RenderVhost(r) # Nil
<1>1. RenderVhost(r) \in Vhost
  BY Zenon DEF RenderVhost, Vhost, SiteRow
<1> QED BY <1>1, NilIsNoSite

\* The vhost does not depend on whether the site is enabled.
LEMMA RenderedAnyway ==
  ASSUME NEW r \in SiteRow, NEW e \in BOOLEAN, NEW n, n = [r EXCEPT !.enabled = e]
  PROVE  n \in SiteRow /\ n.enabled = e /\ RenderVhost(n) = RenderVhost(r)
<1>1. n \in SiteRow /\ n.enabled = e /\ n.kind = r.kind /\ n.ssl = r.ssl
  BY Zenon DEF SiteRow
<1> QED BY <1>1, Zenon DEF RenderVhost

LEMMA WithSsl ==
  ASSUME NEW r \in SiteRow, NEW n, n = [r EXCEPT !.ssl = TRUE]
  PROVE  n \in SiteRow /\ n.enabled = r.enabled
  BY Zenon DEF SiteRow

\* The prefix of k steps of _write_and_enable touches the files of d alone.
LEMMA WriteTypes ==
  ASSUME SitesTypes, FlagTypes, NEW d \in Domains, NEW v \in Vhost, NEW e \in BOOLEAN, NEW k \in 0 .. 4,
         WriteAndEnable(d, v, e, k)
  PROVE  /\ conf' \in [Domains -> {Nil} \cup Vhost] /\ off' \in [Domains -> {Nil} \cup Vhost]
         /\ link' \in [Domains -> BOOLEAN]
         /\ \A x \in Domains \ {d} : conf'[x] = conf[x] /\ off'[x] = off[x] /\ link'[x] = link[x]
<1>1. CASE layout = "debian"
  <2>1. /\ conf' = (IF k >= 1 THEN [conf EXCEPT ![d] = v] ELSE conf) /\ off' = off
        /\ link' = (IF k >= 2 THEN [link EXCEPT ![d] = e /\ k >= 3] ELSE link)
    BY <1>1 DEF WriteAndEnable
  <2>2. conf' \in [Domains -> {Nil} \cup Vhost] /\ off' \in [Domains -> {Nil} \cup Vhost]
    BY <2>1 DEF SitesTypes
  <2>3. link' \in [Domains -> BOOLEAN]
    BY <2>1, Zenon DEF FlagTypes
  <2>4. \A x \in Domains \ {d} : conf'[x] = conf[x] /\ off'[x] = off[x] /\ link'[x] = link[x]
    BY <2>1, Zenon DEF SitesTypes, FlagTypes
  <2> QED BY <2>2, <2>3, <2>4
<1>2. CASE layout # "debian"
  <2> DEFINE c == CASE k = 0              -> conf[d]
                    [] k = 1              -> v
                    [] k >= 2 /\ e  -> IF off[d] # Nil THEN off[d] ELSE v
                    [] k >= 2 /\ ~e -> Nil
  <2>1. /\ conf' = [conf EXCEPT ![d] = c] /\ link' = link
        /\ off' = (IF k >= 2 THEN [off EXCEPT ![d] = IF e THEN Nil ELSE v] ELSE off)
    BY <1>2, Zenon DEF WriteAndEnable
  <2>2. c \in {Nil} \cup Vhost
    <3>1. k = 0 \/ k = 1 \/ k >= 2
      OBVIOUS
    <3>2. conf[d] \in {Nil} \cup Vhost /\ off[d] \in {Nil} \cup Vhost
      BY DEF SitesTypes
    <3>3. CASE k = 0
      BY <3>2, <3>3
    <3>4. CASE k = 1
      BY <3>4
    <3>5. CASE k >= 2 /\ e
      BY <3>2, <3>5
    <3>6. CASE k >= 2 /\ ~e
      BY <3>6
    <3> QED BY <3>1, <3>3, <3>4, <3>5, <3>6
  <2> HIDE DEF c
  <2>3. conf' \in [Domains -> {Nil} \cup Vhost] /\ off' \in [Domains -> {Nil} \cup Vhost]
    BY <2>1, <2>2 DEF SitesTypes
  <2>4. \A x \in Domains \ {d} : conf'[x] = conf[x] /\ off'[x] = off[x]
    BY <2>1 DEF SitesTypes
  <2> QED BY <2>1, <2>3, <2>4 DEF FlagTypes
<1> QED BY <1>1, <1>2

\* All of its steps.
LEMMA WriteAll ==
  ASSUME SitesTypes, FlagTypes, NEW d \in Domains, NEW v, NEW e \in BOOLEAN,
         WriteAndEnable(d, v, e, 4)
  PROVE  /\ layout = "debian" => conf'[d] = v /\ (link'[d] <=> e)
         /\ layout = "rhel" /\ e => off'[d] = Nil /\ (IF off[d] # Nil THEN conf'[d] = off[d] ELSE conf'[d] = v)
         /\ layout = "rhel" /\ ~e => conf'[d] = Nil /\ off'[d] = v
<1>1. CASE layout = "debian"
  <2>1. /\ conf' = [conf EXCEPT ![d] = v]
        /\ link' = [link EXCEPT ![d] = e /\ 4 >= 3]
    BY <1>1 DEF WriteAndEnable
  <2>2. conf'[d] = v /\ (link'[d] <=> e /\ 4 >= 3)
    BY <2>1, Zenon DEF SitesTypes, FlagTypes
  <2> QED BY <1>1, <2>2
<1>2. CASE layout = "rhel"
  BY <1>2 DEF WriteAndEnable, SitesTypes
<1> QED BY <1>1, <1>2

\* A handler that gives d the row r and carries out k - 1 steps of
\* _write_and_enable for it. What a .conf.disabled left behind on RHEL does
\* no harm if it is the same vhost.
LEMMA RowAndFiles ==
  ASSUME SitesInv, NEW d \in Domains, NEW r \in SiteRow, NEW k \in 1 .. 5,
         siteRow' = [siteRow EXCEPT ![d] = r], UNCHANGED layout,
         WriteAndEnable(d, RenderVhost(r), r.enabled, k - 1), Cleaned(d, k = 5, r.enabled),
         clean[d] /\ layout = "rhel" /\ r.enabled /\ off[d] # Nil => off[d] = RenderVhost(r)
  PROVE  SitesTypes' /\ link' \in [Domains -> BOOLEAN] /\ clean' \in [Domains -> BOOLEAN]
         /\ NoOrphanVhost' /\ CleanFiles'
<1> DEFINE v == RenderVhost(r)
           e == r.enabled
<1>0. /\ v \in Vhost /\ v # Nil /\ e \in BOOLEAN /\ r # Nil
      /\ SitesTypes /\ FlagTypes /\ k - 1 \in 0 .. 4 /\ (k = 5 => k - 1 = 4)
  BY RenderedVhost, NilIsNoSite DEF SitesInv, SiteRow
<1> HIDE DEF v
<1>1. /\ conf' \in [Domains -> {Nil} \cup Vhost] /\ off' \in [Domains -> {Nil} \cup Vhost]
      /\ link' \in [Domains -> BOOLEAN]
      /\ \A x \in Domains \ {d} : conf'[x] = conf[x] /\ off'[x] = off[x] /\ link'[x] = link[x]
  <2> HIDE DEF e
  <2>1. WriteAndEnable(d, v, e, k - 1)
    BY DEF v, e
  <2> QED BY <1>0, <2>1, WriteTypes
<1>2. siteRow' \in [Domains -> {Nil} \cup SiteRow] /\ siteRow'[d] = r
      /\ \A x \in Domains \ {d} : siteRow'[x] = siteRow[x]
  BY <1>0 DEF SitesTypes
<1>3. /\ clean' \in [Domains -> BOOLEAN]
      /\ \A x \in Domains \ {d} : clean'[x] = clean[x]
      /\ clean'[d] => k = 5 /\ (layout = "debian" \/ ~e \/ off[d] = Nil \/ clean[d])
  BY <1>0, Zenon DEF Cleaned, FlagTypes
<1>4. NoOrphanVhost'
  BY <1>0, <1>1, <1>2 DEF SitesInv, NoOrphanVhost
<1>5. ASSUME NEW x \in Domains, clean'[x] PROVE FilesRight(x)'
  <2>1. CASE x # d
    <3>1. FilesRight(x)
      BY <1>3, <1>5, <2>1 DEF SitesInv, CleanFiles
    <3> QED BY <1>1, <1>2, <2>1, <3>1 DEF FilesRight
  <2>2. CASE x = d
    <3>1. k - 1 = 4 /\ (layout = "debian" \/ ~e \/ off[d] = Nil \/ off[d] = v)
      BY <1>0, <1>3, <1>5, <2>2 DEF v, SitesTypes
    <3>2. /\ layout = "debian" => conf'[d] = v /\ (link'[d] <=> e)
          /\ layout = "rhel" /\ e => off'[d] = Nil /\ (IF off[d] # Nil THEN conf'[d] = off[d] ELSE conf'[d] = v)
          /\ layout = "rhel" /\ ~e => conf'[d] = Nil /\ off'[d] = v
      <4> HIDE DEF e
      <4>1. WriteAndEnable(d, v, e, 4)
        BY <3>1 DEF v, e
      <4> QED BY <1>0, <4>1, WriteAll
    <3>3. siteRow'[x].enabled = e /\ RenderVhost(siteRow'[x]) = v /\ layout' = layout
      BY <1>2, <2>2 DEF v
    <3>4. /\ layout = "debian" => conf'[x] = v /\ (link'[x] <=> e)
          /\ layout = "rhel" /\ e => conf'[x] = v /\ off'[x] = Nil
          /\ layout = "rhel" /\ ~e => conf'[x] = Nil /\ off'[x] = v
      BY <2>2, <3>1, <3>2
    <3> HIDE DEF e
    <3> QED BY <3>3, <3>4, Zenon DEF FilesRight
  <2> QED BY <2>1, <2>2
<1> QED BY <1>0, <1>1, <1>2, <1>3, <1>4, <1>5 DEF SitesTypes, CleanFiles

\* What nginx has loaded after the end of a handler.
LEMMA ReloadLoads ==
  ASSUME NEW done, NEW reloads, TestAndReload(done, reloads), settled' => done /\ reloads, UNCHANGED layout
  PROVE  Loaded'
<1>1. Active(conf, link)' = Active(conf', link')
  BY DEF Active
<1>2. NginxTest(Active(conf, link), cert)' <=> NginxTest(Active(conf', link'), cert')
  BY <1>1 DEF NginxTest
<1> QED BY <1>1, <1>2 DEF TestAndReload, Loaded

LEMMA CreateSiteStep ==
  ASSUME SitesInv, NEW d \in Domains, NEW kind \in Kinds, NEW k \in Steps(5), NEW reloads \in BOOLEAN,
         CreateSite(d, kind, k, reloads)
  PROVE  SitesInv'
<1> DEFINE r == [kind |-> kind, ssl |-> FALSE, enabled |-> TRUE]
<1>0. r \in SiteRow /\ r.enabled = TRUE
  BY Zenon DEF SiteRow
<1>1. k \in 1 .. 5
  BY DEF CreateSite, Steps
<1>2. /\ siteRow[d] = Nil /\ siteRow' = [siteRow EXCEPT ![d] = r]
      /\ WriteAndEnable(d, RenderVhost(r), TRUE, k - 1) /\ Cleaned(d, k = 5, TRUE)
      /\ settled' = (k = 5 /\ reloads) /\ UNCHANGED <<layout, cert>> /\ TestAndReload(k = 5, reloads)
  BY DEF CreateSite
<1> HIDE DEF r
<1>3. WriteAndEnable(d, RenderVhost(r), r.enabled, k - 1) /\ Cleaned(d, k = 5, r.enabled)
  BY <1>0, <1>2
<1>4. off[d] = Nil
  BY <1>2 DEF SitesInv, NoOrphanVhost
<1>5. SitesTypes' /\ link' \in [Domains -> BOOLEAN] /\ clean' \in [Domains -> BOOLEAN]
      /\ NoOrphanVhost' /\ CleanFiles'
  BY <1>0, <1>1, <1>2, <1>3, <1>4, RowAndFiles
<1>6. settled' \in BOOLEAN /\ (settled' => k = 5 /\ reloads)
  BY <1>2, Zenon
<1>7. Loaded'
  BY <1>2, <1>6, ReloadLoads
<1> QED BY <1>2, <1>5, <1>6, <1>7 DEF SitesInv, FlagTypes

LEMMA SetEnabledStep ==
  ASSUME SitesInv, NEW d \in Domains, NEW enabled \in BOOLEAN, NEW k \in Steps(5), NEW reloads \in BOOLEAN,
         SetEnabled(d, enabled, k, reloads)
  PROVE  SitesInv'
<1> DEFINE o == siteRow[d]
           r == [o EXCEPT !.enabled = enabled]
<1>0. o \in SiteRow
  BY DEF SitesInv, SitesTypes, SetEnabled
<1>1. k \in 1 .. 5
  BY DEF SetEnabled, Steps
<1>2. r = [o EXCEPT !.enabled = enabled]
  OBVIOUS
<1>3. /\ siteRow' = [siteRow EXCEPT ![d] = r]
      /\ WriteAndEnable(d, RenderVhost(o), enabled, k - 1) /\ Cleaned(d, k = 5, enabled)
      /\ settled' = (k = 5 /\ reloads) /\ UNCHANGED <<layout, cert>> /\ TestAndReload(k = 5, reloads)
  BY DEF SetEnabled, SitesInv, SitesTypes
<1> HIDE DEF r
<1>4. r \in SiteRow /\ r.enabled = enabled /\ RenderVhost(r) = RenderVhost(o)
  BY <1>0, <1>2, RenderedAnyway
<1>5. WriteAndEnable(d, RenderVhost(r), r.enabled, k - 1) /\ Cleaned(d, k = 5, r.enabled)
  BY <1>3, <1>4
<1>6. clean[d] /\ layout = "rhel" /\ off[d] # Nil => off[d] = RenderVhost(r)
  BY <1>0, <1>4, NilIsNoSite DEF SitesInv, CleanFiles, FilesRight
<1>7. SitesTypes' /\ link' \in [Domains -> BOOLEAN] /\ clean' \in [Domains -> BOOLEAN]
      /\ NoOrphanVhost' /\ CleanFiles'
  BY <1>1, <1>3, <1>4, <1>5, <1>6, RowAndFiles
<1>8. settled' \in BOOLEAN /\ (settled' => k = 5 /\ reloads)
  BY <1>3, Zenon
<1>9. Loaded'
  BY <1>3, <1>8, ReloadLoads
<1> QED BY <1>3, <1>7, <1>8, <1>9 DEF SitesInv, FlagTypes

LEMMA DeleteSiteStep ==
  ASSUME SitesInv, NEW d \in Domains, NEW k \in Steps(5), NEW reloads \in BOOLEAN, DeleteSite(d, k, reloads)
  PROVE  SitesInv'
<1>0. SitesTypes /\ FlagTypes /\ NoOrphanVhost /\ CleanFiles /\ k \in 1 .. 5
  BY DEF SitesInv, DeleteSite, Steps
<1>1. SitesTypes'
  BY <1>0 DEF SitesTypes, DeleteSite
<1>2. FlagTypes'
  BY <1>0, Zenon DEF FlagTypes, DeleteSite
<1>3. \A x \in Domains \ {d} : /\ siteRow'[x] = siteRow[x] /\ conf'[x] = conf[x] /\ off'[x] = off[x]
                               /\ link'[x] = link[x] /\ clean'[x] = clean[x]
  BY <1>0, Zenon DEF SitesTypes, FlagTypes, DeleteSite
<1>4. /\ k = 5 => siteRow'[d] = Nil /\ conf'[d] = Nil /\ off'[d] = Nil /\ ~link'[d]
      /\ k # 5 => siteRow'[d] # Nil
  BY <1>0 DEF SitesTypes, FlagTypes, DeleteSite
<1>5. clean'[d] => k = 5
  BY <1>0, Zenon DEF FlagTypes, DeleteSite
<1>6. NoOrphanVhost'
  BY <1>0, <1>3, <1>4 DEF NoOrphanVhost
<1>7. CleanFiles'
  <2> SUFFICES ASSUME NEW x \in Domains, clean'[x] PROVE FilesRight(x)'
    BY DEF CleanFiles
  <2>1. CASE x = d
    BY <1>4, <1>5, <2>1 DEF FilesRight
  <2>2. CASE x # d
    <3>1. FilesRight(x)
      BY <1>0, <1>3, <2>2 DEF CleanFiles
    <3> QED BY <1>3, <2>2, <3>1 DEF FilesRight, DeleteSite
  <2> QED BY <2>1, <2>2
<1>8. settled' = (k = 5 /\ reloads) /\ TestAndReload(k >= 4, reloads) /\ UNCHANGED layout
  BY DEF DeleteSite
<1>9. settled' => k >= 4 /\ reloads
  <2>1. settled' => k = 5 /\ reloads
    BY <1>8, Zenon
  <2>2. k = 5 => k >= 4
    OBVIOUS
  <2> QED BY <2>1, <2>2, Zenon
<1>10. Loaded'
  BY <1>8, <1>9, ReloadLoads
<1> QED BY <1>1, <1>2, <1>6, <1>7, <1>10 DEF SitesInv

LEMMA IssueStep ==
  ASSUME SitesInv, NEW d \in Domains, NEW installs \in BOOLEAN, NEW k \in Steps(5), NEW reloads \in BOOLEAN,
         IssueCertificate(d, installs, k, reloads)
  PROVE  SitesInv'
<1>0. /\ SitesTypes /\ FlagTypes /\ NoOrphanVhost /\ CleanFiles /\ Loaded
      /\ UNCHANGED layout /\ cert' = [cert EXCEPT ![d] = @ \/ installs]
  BY DEF SitesInv, IssueCertificate, InstallCert
<1>1. cert' \in [Domains -> BOOLEAN] /\ (~installs => cert' = cert)
  <2>1. cert' \in [Domains -> BOOLEAN]
    BY <1>0, Zenon DEF FlagTypes
  <2>2. ASSUME ~installs PROVE cert' = cert
    <3>1. \A x \in Domains : cert'[x] = cert[x]
      BY <1>0, <2>2, Zenon DEF FlagTypes
    <3> QED BY <1>0, <2>1, <3>1 DEF FlagTypes
  <2> QED BY <2>1, <2>2
<1>2. CASE siteRow[d] = Nil \/ k = 0
  <2>1. /\ UNCHANGED <<siteRow, fileVars, clean>> /\ TestAndReload(installs, reloads)
        /\ settled' = (settled /\ (installs => reloads))
    BY <1>2 DEF IssueCertificate
  <2>2. settled' \in BOOLEAN /\ (settled' => settled /\ (installs => reloads))
    BY <2>1, Zenon
  <2>3. SitesTypes' /\ FlagTypes' /\ NoOrphanVhost' /\ CleanFiles'
    BY <1>0, <1>1, <2>1, <2>2 DEF fileVars, SitesTypes, FlagTypes, NoOrphanVhost, CleanFiles, FilesRight
  <2>4. CASE installs
    BY <1>0, <2>1, <2>2, <2>3, <2>4, ReloadLoads DEF SitesInv
  <2>5. CASE ~installs
    <3>1. UNCHANGED <<conf, link, cert, serving>>
      BY <1>1, <2>1, <2>5 DEF TestAndReload, fileVars
    <3>2. Active(conf, link)' = Active(conf, link)
      BY <1>0, <3>1 DEF Active
    <3>3. Loaded'
      BY <1>0, <2>2, <3>1, <3>2 DEF Loaded, NginxTest
    <3> QED BY <2>3, <3>3 DEF SitesInv
  <2> QED BY <2>4, <2>5
<1>3. CASE siteRow[d] # Nil /\ k # 0
  <2> DEFINE o == siteRow[d]
             r == [o EXCEPT !.ssl = TRUE]
  <2>0. o \in SiteRow /\ r = [o EXCEPT !.ssl = TRUE] /\ k \in 1 .. 5
    BY <1>0, <1>3 DEF SitesTypes, Steps
  <2>1. /\ InstallAndEnableSsl(d, k, reloads) /\ settled' = (k = 5 /\ reloads)
    BY <1>3 DEF IssueCertificate
  <2>2. /\ siteRow' = [siteRow EXCEPT ![d] = r]
        /\ WriteAndEnable(d, RenderVhost(r), r.enabled, k - 1) /\ Cleaned(d, k = 5, r.enabled)
        /\ TestAndReload(k = 5, reloads)
    BY <1>0, <2>1 DEF InstallAndEnableSsl, SitesTypes
  <2> HIDE DEF r
  <2>3. r \in SiteRow /\ r.enabled = o.enabled
    BY <2>0, WithSsl
  <2>4. clean[d] /\ layout = "rhel" /\ r.enabled => off[d] = Nil
    BY <1>0, <1>3, <2>3 DEF CleanFiles, FilesRight
  <2>5. SitesTypes' /\ link' \in [Domains -> BOOLEAN] /\ clean' \in [Domains -> BOOLEAN]
        /\ NoOrphanVhost' /\ CleanFiles'
    BY <1>0, <2>0, <2>2, <2>3, <2>4, RowAndFiles
  <2>6. settled' \in BOOLEAN /\ (settled' => k = 5 /\ reloads)
    BY <2>1, Zenon
  <2>7. Loaded'
    BY <1>0, <2>2, <2>6, ReloadLoads
  <2> QED BY <1>1, <2>5, <2>6, <2>7 DEF SitesInv, FlagTypes
<1> QED BY <1>2, <1>3

LEMMA RenewStep ==
  ASSUME SitesInv, NEW reloads \in BOOLEAN, RenewAll(reloads)
  PROVE  SitesInv'
<1>1. settled' \in BOOLEAN /\ (settled' => TRUE /\ reloads)
  BY Zenon DEF RenewAll
<1>2. UNCHANGED <<layout, siteRow, conf, off, link, cert, clean>> /\ TestAndReload(TRUE, reloads)
  BY DEF RenewAll, fileVars
<1>3. Loaded'
  BY <1>1, <1>2, ReloadLoads
<1>4. SitesTypes' /\ FlagTypes' /\ NoOrphanVhost' /\ CleanFiles'
  BY <1>1, <1>2 DEF SitesInv, SitesTypes, FlagTypes, NoOrphanVhost, CleanFiles, FilesRight
<1> QED BY <1>3, <1>4 DEF SitesInv

LEMMA SitesInductive == SitesInv /\ [SitesNext]_sitesVars => SitesInv'
<1> SUFFICES ASSUME SitesInv, [SitesNext]_sitesVars PROVE SitesInv'
  OBVIOUS
<1>1. CASE UNCHANGED sitesVars
  <2>1. UNCHANGED <<layout, siteRow, conf, off, link, cert, serving, clean, settled>>
    BY <1>1 DEF sitesVars, fileVars
  <2>2. Active(conf, link)' = Active(conf, link)
    BY <2>1 DEF Active
  <2> QED BY <2>1, <2>2 DEF SitesInv, SitesTypes, FlagTypes, NoOrphanVhost, CleanFiles, FilesRight, Loaded, NginxTest
<1> QED BY <1>1, CreateSiteStep, SetEnabledStep, DeleteSiteStep, IssueStep, RenewStep DEF SitesNext

LEMMA SitesInitial == SitesInit => SitesInv
<1> SUFFICES ASSUME SitesInit PROVE SitesInv
  OBVIOUS
<1>1. SitesTypes /\ NoOrphanVhost /\ CleanFiles
  BY DEF SitesInit, SitesTypes, NoOrphanVhost, CleanFiles, FilesRight
<1>2. FlagTypes
  BY Zenon DEF SitesInit, FlagTypes
<1>3. Active(conf, link) = serving
  BY DEF SitesInit, Active
<1> QED BY <1>1, <1>2, <1>3 DEF SitesInv, Loaded

\* No vhost is left that the table does not list, whatever step a handler
\* ended at; and after a handler that ran to its end nginx serves what the
\* table says, if the vhosts pass its test: for any domains, in both layouts
\* (sites.py, ssl.py).
THEOREM SitesStayListed == SitesSpec => []SitesAgree
<1>1. SitesInv => SitesAgree
  <2> SUFFICES ASSUME SitesInv, settled, NginxTest(Active(conf, link), cert), NEW d \in Domains, clean[d]
               PROVE  serving[d] = IF siteRow[d] = Nil THEN Nil
                                   ELSE IF siteRow[d].enabled THEN RenderVhost(siteRow[d]) ELSE Nil
    BY DEF SitesAgree, ServesTheTable, SitesInv
  <2>1. serving[d] = Active(conf, link)[d] /\ FilesRight(d) /\ layout \in {"debian", "rhel"}
    BY DEF SitesInv, Loaded, CleanFiles, SitesTypes
  <2>2. siteRow[d] = Nil => conf[d] = Nil /\ ~link[d]
    BY DEF SitesInv, NoOrphanVhost
  <2>3. siteRow[d] # Nil => RenderVhost(siteRow[d]) # Nil
    BY RenderedVhost DEF SitesInv, SitesTypes
  <2>4. serving[d] = IF layout = "rhel" THEN conf[d]
                     ELSE IF ~link[d] THEN Nil
                     ELSE IF conf[d] = Nil THEN Dangling ELSE conf[d]
    BY <2>1 DEF Active
  <2> QED BY <2>1, <2>2, <2>3, <2>4 DEF FilesRight
<1> QED BY <1>1, SitesInitial, SitesInductive, PTL DEF SitesSpec

-----------------------------------------------------------------------------
(***************************************************************************)
(* A backup job (V1Backup). Retention sees only names, and the run whose   *)
(* archive it must spare is not the one remembered in lastGood: what is    *)
(* inductive is that a run by itself has the latest name of all, so that   *)
(* no list of expired names holds its own archive, and that until its      *)
(* archive is whole nothing at all is deleted.                             *)
(***************************************************************************)
BackupTypes ==
    /\ archives \in [1 .. MaxSecond -> {Nil, Part} \cup Nat]
    /\ source \in SourceTypes /\ others \in {0, 1} /\ live \in Nat /\ second \in 1 .. MaxSecond
    /\ jobRow \in {Nil} \cup Int /\ sched \in {Nil} \cup Int
    /\ runs \in [Runners -> {Nil} \cup RunRow1]
    /\ lastGood \in {Nil} \cup LastGood

NamesPast ==
    /\ \A n \in Present : n <= second
    /\ \A r \in Runners : runs[r] # Nil => runs[r].name \in 1 .. second
    /\ lastGood # Nil => lastGood.name <= second

Uploaded(r) == runs[r].step \in {"list", "delete", "done"}

AloneRuns ==
    \A r \in Runners : runs[r] # Nil /\ runs[r].alone =>
        /\ \A o \in Runners \ {r} : runs[o] = Nil
        /\ \A n \in Present : n <= runs[r].name

GoodRuns ==
    \A r \in Runners :
        runs[r] # Nil /\ runs[r].alone /\ runs[r].retention >= 0 /\ others = 0 =>
            /\ Uploaded(r) => archives[runs[r].name] \in Nat
            /\ \A a \in runs[r].old : a < runs[r].name

\* The run that spares the last good archive, and the archive it spares.
Spares(r)  == runs[r].alone /\ runs[r].retention >= 0 /\ runs[r].name >= lastGood.name
Covered(n) ==
    /\ n >= lastGood.name /\ archives[n] # Part
    /\ \A r \in Runners : runs[r] # Nil /\ ~Uploaded(r) => runs[r].name # n

Kept ==
    lastGood # Nil /\ lastGood.alone =>
        /\ others = 0
        /\ \A r \in Runners : runs[r] # Nil => Spares(r)
        /\ \E n \in Present : Covered(n)

BackupInv == BackupTypes /\ NamesPast /\ AloneRuns /\ GoodRuns /\ Kept

\* The slice names[:-keep] of the sorted names does not hold the last one.
LEMMA ExpiredBefore ==
  ASSUME NEW names \in SUBSET Nat, IsFiniteSet(names), NEW m \in names, \A n \in names : n <= m,
         NEW keep \in Nat \ {0}
  PROVE  \A a \in Expired(names, 0, keep) : a \in names /\ a < m
<1> DEFINE c == Cardinality(names)
<1>1. c \in Nat
  BY FS_CardinalityType
<1>2. Cardinality(names \ {m}) = c - 1
  BY FS_RemoveElement
<1>3. {b \in names : b < m} = names \ {m}
  <2>1. m \in Nat /\ \A b \in names : b \in Nat
    OBVIOUS
  <2>2. \A b \in names : b < m <=> b # m
    BY <2>1
  <2> QED BY <2>2
<1>4. m \notin Oldest(c - keep, names)
  <2> HIDE DEF c
  <2> QED BY <1>1, <1>2, <1>3 DEF Oldest
<1>5. Expired(names, 0, keep) \in {{}, Oldest(c - keep, names)}
  BY <1>1 DEF Expired
<1>6. \A a \in Oldest(c - keep, names) : a \in names
  BY DEF Oldest
<1>7. SUFFICES ASSUME NEW a \in Oldest(c - keep, names) PROVE a \in names /\ a < m
  <2> HIDE DEF c
  <2> QED BY <1>5, Zenon
<1>8. a \in names /\ a # m
  BY <1>4, <1>6
<1>9. a \in Nat /\ m \in Nat /\ a <= m
  BY <1>8
<1> QED BY <1>8, <1>9

LEMMA PresentFinite == BackupTypes => Present \in SUBSET (1 .. MaxSecond) /\ IsFiniteSet(Present)
<1> SUFFICES ASSUME BackupTypes PROVE Present \in SUBSET (1 .. MaxSecond) /\ IsFiniteSet(Present)
  OBVIOUS
<1>1. Present \in SUBSET (1 .. MaxSecond)
  BY DEF BackupTypes, Present
<1>2. IsFiniteSet(1 .. MaxSecond)
  BY BackupAssumption, FS_Interval
<1> QED BY <1>1, <1>2, FS_Subset

LEMMA ExpiredNames ==
  ASSUME NEW names, NEW extra \in Nat, NEW keep \in Int
  PROVE  Expired(names, extra, keep) \subseteq names
  BY DEF Expired, Oldest

LEMMA RunStartsStep ==
  ASSUME BackupInv, NEW r \in Runners, NEW retention \in {Nil} \cup Int, RunStarts(r, retention)
  PROVE  BackupInv'
<1> USE DEF BackupInv
<1> DEFINE busy == \E o \in Runners \ {r} : runs[o] # Nil
           row  == [step |-> "upload", name |-> second, version |-> live,
                    retention |-> retention, old |-> {}, alone |-> ~busy]
<1>1. /\ runs[r] = Nil /\ retention \in Int
      /\ runs' = [o \in Runners |-> IF o = r THEN row
                                    ELSE IF runs[o] = Nil THEN Nil ELSE [runs[o] EXCEPT !.alone = FALSE]]
      /\ lastGood' = IF lastGood # Nil /\ (busy \/ archives[second] # Nil \/ retention < 0)
                     THEN [lastGood EXCEPT !.alone = FALSE] ELSE lastGood
      /\ UNCHANGED <<source, jobRow, sched, second, archives, others, live>>
  BY Zenon DEF RunStarts
<1>2. row \in RunRow1 /\ row # Nil /\ row.name = second /\ row.retention = retention
                      /\ row.old = {} /\ row.alone = ~busy /\ row.step = "upload"
  <2>1. second \in Nat /\ live \in Nat
    BY BackupAssumption DEF BackupTypes
  <2>2. row \in RunRow1
    BY <1>1, <2>1, Zenon DEF RunRow1
  <2>3. row.name = second /\ row.retention = retention
        /\ row.old = {} /\ row.step = "upload"
    OBVIOUS
  <2>4. row.alone = ~busy
    BY Zenon
  <2> HIDE DEF row
  <2> QED BY <2>2, <2>3, <2>4, NilIsNoRun1
<1>3. runs'[r] = row
  BY <1>1, Zenon
<1>4. ASSUME NEW o \in Runners, o # r
      PROVE  /\ runs[o] = Nil => runs'[o] = Nil
             /\ runs[o] # Nil => /\ runs'[o] \in RunRow1 /\ runs'[o].alone = FALSE
                                 /\ runs'[o].name = runs[o].name
  <2>1. runs'[o] = IF runs[o] = Nil THEN Nil ELSE [runs[o] EXCEPT !.alone = FALSE]
    BY <1>1, <1>4, Zenon
  <2>2. runs[o] # Nil => runs[o] \in RunRow1
    BY DEF BackupTypes
  <2>3. ASSUME NEW w \in RunRow1
        PROVE  /\ [w EXCEPT !.alone = FALSE] \in RunRow1 /\ [w EXCEPT !.alone = FALSE].alone = FALSE
               /\ [w EXCEPT !.alone = FALSE].name = w.name
    BY Zenon DEF RunRow1
  <2> QED BY <2>1, <2>2, <2>3, Zenon
<1>5. /\ lastGood' \in {Nil} \cup LastGood
      /\ lastGood' # Nil => lastGood # Nil /\ lastGood'.name = lastGood.name
      /\ lastGood' # Nil /\ lastGood'.alone =>
            lastGood' = lastGood /\ ~busy /\ archives[second] = Nil /\ ~(retention < 0)
  <2>1. ASSUME NEW w \in LastGood
        PROVE  /\ [w EXCEPT !.alone = FALSE] \in LastGood /\ [w EXCEPT !.alone = FALSE].alone = FALSE
               /\ [w EXCEPT !.alone = FALSE].name = w.name
    BY Zenon DEF LastGood
  <2>2. lastGood # Nil => lastGood \in LastGood
    BY DEF BackupTypes
  <2> HIDE DEF busy
  <2> QED BY <1>1, <2>1, <2>2, Zenon
<1> HIDE DEF row
<1>6. BackupTypes'
  <2>1. runs' \in [Runners -> {Nil} \cup RunRow1]
    <3>1. \A o \in Runners : runs'[o] \in {Nil} \cup RunRow1
      BY <1>2, <1>3, <1>4, Zenon
    <3>2. \E f : runs' = [o \in Runners |-> f[o]]
      <4> WITNESS runs'
      <4> QED BY <1>1, Zenon
    <3> QED BY <3>1, <3>2, Zenon
  <2> QED BY <1>1, <1>5, <2>1 DEF BackupTypes
<1>7. Present' = Present
  BY <1>1 DEF Present
<1>8. second \in 1 .. second
  BY BackupAssumption DEF BackupTypes
<1>9. NamesPast'
  <2>1. \A o \in Runners : runs'[o] # Nil => runs'[o].name \in 1 .. second
    BY <1>2, <1>3, <1>4, <1>8, Zenon DEF NamesPast
  <2>2. lastGood' # Nil => lastGood'.name <= second
    BY <1>5, Zenon DEF NamesPast
  <2> QED BY <1>1, <1>7, <2>1, <2>2 DEF NamesPast
<1>10. AloneRuns'
  <2> SUFFICES ASSUME NEW q \in Runners, runs'[q] # Nil, runs'[q].alone
               PROVE  (\A o \in Runners \ {q} : runs'[o] = Nil) /\ (\A n \in Present' : n <= runs'[q].name)
    BY DEF AloneRuns
  <2>1. q = r
    BY <1>4, Zenon
  <2>2. ~busy
    BY <1>2, <1>3, <2>1, Zenon
  <2> QED BY <1>2, <1>3, <1>4, <1>7, <2>1, <2>2, Zenon DEF NamesPast
<1>11. GoodRuns'
  <2> SUFFICES ASSUME NEW q \in Runners, runs'[q] # Nil, runs'[q].alone
               PROVE  ~Uploaded(q)' /\ \A a \in runs'[q].old : a < runs'[q].name
    BY Zenon DEF GoodRuns
  <2>1. q = r
    BY <1>4, Zenon
  <2>2. runs'[q].step = "upload" /\ runs'[q].old = {}
    BY <1>2, <1>3, <2>1
  <2> QED BY <2>2 DEF Uploaded
<1>12. Kept'
  <2> SUFFICES ASSUME lastGood' # Nil, lastGood'.alone
               PROVE  /\ others' = 0
                      /\ \A q \in Runners : runs'[q] # Nil => Spares(q)'
                      /\ \E n \in Present' : Covered(n)'
    BY Zenon DEF Kept
  <2>1. lastGood' = lastGood /\ ~busy /\ archives[second] = Nil /\ retention >= 0
    BY <1>1, <1>5
  <2>2. /\ others = 0
        /\ \E n \in Present : Covered(n)
    BY <2>1, Zenon DEF Kept
  <2>3. \A q \in Runners : q # r => runs'[q] = Nil
    BY <1>4, <2>1
  <2>4. Spares(r)'
    <3>1. second >= lastGood.name
      BY <2>1, BackupAssumption DEF NamesPast, BackupTypes, LastGood
    <3>2. runs'[r].alone
      BY <1>2, <1>3, <2>1, Zenon
    <3> QED BY <1>2, <1>3, <2>1, <3>1, <3>2 DEF Spares
  <2>5. PICK n \in Present : Covered(n)
    BY <2>2
  <2>6. n # second
    BY <2>1 DEF Present
  <2>7. \A q \in Runners : runs'[q] # Nil => runs'[q].name # n
    BY <1>2, <1>3, <2>3, <2>6
  <2>8. Covered(n)'
    BY <1>1, <2>1, <2>5, <2>7 DEF Covered
  <2> QED BY <1>1, <1>7, <2>2, <2>3, <2>4, <2>5, <2>8
<1> QED BY <1>6, <1>9, <1>10, <1>11, <1>12

\* What every step of a run keeps, as long as it touches its own archive only
\* until that one is whole, and then only earlier ones.
LEMMA RunGoesOn ==
  ASSUME BackupInv, NEW r \in Runners, runs[r] # Nil,
         NEW w \in RunRow1, w.name = runs[r].name, w.retention = runs[r].retention, w.alone = runs[r].alone,
         runs' = [runs EXCEPT ![r] = w],
         UNCHANGED <<source, jobRow, sched, second, others, live, lastGood>>,
         archives' \in [1 .. MaxSecond -> {Nil, Part} \cup Nat],
         Present' \subseteq Present \cup {w.name},
         w.alone /\ w.retention >= 0 /\ others = 0 =>
            /\ w.step \in {"list", "delete", "done"} => archives'[w.name] \in Nat
            /\ \A a \in w.old : a < w.name,
         w.step \notin {"list", "delete", "done"} =>
            /\ ~Uploaded(r)
            /\ \A n \in (1 .. MaxSecond) \ {w.name} : archives'[n] = archives[n]
  PROVE  BackupInv'
<1> USE DEF BackupInv
<1>1. /\ runs'[r] = w /\ w # Nil
      /\ \A o \in Runners \ {r} : runs'[o] = runs[o]
  BY NilIsNoRun1 DEF BackupTypes
<1>2. BackupTypes'
  <2>1. runs' \in [Runners -> {Nil} \cup RunRow1]
    BY Zenon DEF BackupTypes
  <2> QED BY <2>1 DEF BackupTypes
<1>3. w.name \in 1 .. second
  BY DEF NamesPast
<1>4. NamesPast'
  <2>1. \A o \in Runners : runs'[o] # Nil => runs'[o].name \in 1 .. second
    BY <1>1, <1>3, Zenon DEF NamesPast
  <2>2. \A n \in Present' : n <= second
    BY <1>3 DEF NamesPast
  <2> QED BY <2>1, <2>2 DEF NamesPast
<1>5. AloneRuns'
  <2> SUFFICES ASSUME NEW q \in Runners, runs'[q] # Nil, runs'[q].alone
               PROVE  (\A o \in Runners \ {q} : runs'[o] = Nil) /\ (\A n \in Present' : n <= runs'[q].name)
    BY DEF AloneRuns
  <2>1. q = r
    BY <1>1, Zenon DEF AloneRuns
  <2>2. runs[r].alone
    BY <1>1, <2>1, Zenon
  <2>3. \A o \in Runners \ {q} : runs'[o] = Nil
    BY <1>1, <2>1, <2>2, Zenon DEF AloneRuns
  <2>4. \A n \in Present : n <= w.name
    BY <2>2, Zenon DEF AloneRuns
  <2>5. w.name <= w.name
    BY <1>3, BackupAssumption DEF BackupTypes
  <2> QED BY <1>1, <2>1, <2>3, <2>4, <2>5
<1>6. GoodRuns'
  <2> SUFFICES ASSUME NEW q \in Runners, runs'[q] # Nil, runs'[q].alone, runs'[q].retention >= 0, others = 0
               PROVE  /\ Uploaded(q)' => archives'[runs'[q].name] \in Nat
                      /\ \A a \in runs'[q].old : a < runs'[q].name
    BY Zenon DEF GoodRuns
  <2>1. q = r
    BY <1>1, Zenon DEF AloneRuns
  <2> QED BY <1>1, <2>1, Zenon DEF Uploaded
<1>7. Kept'
  <2> SUFFICES ASSUME lastGood # Nil, lastGood.alone
               PROVE  /\ others = 0
                      /\ \A q \in Runners : runs'[q] # Nil => Spares(q)'
                      /\ \E n \in Present' : Covered(n)'
    BY Zenon DEF Kept
  <2>1. /\ others = 0
        /\ \A q \in Runners : runs[q] # Nil => Spares(q)
        /\ \E n \in Present : Covered(n)
    BY Zenon DEF Kept
  <2>2. Spares(r) /\ w.alone /\ w.retention >= 0 /\ w.name >= lastGood.name
    BY <2>1, Zenon DEF Spares
  <2>3. \A o \in Runners \ {r} : runs'[o] = Nil
    BY <1>1, <2>2, Zenon DEF AloneRuns, Spares
  <2>4. Spares(r)'
    BY <1>1, <2>2, Zenon DEF Spares
  <2>5. w.name \in 1 .. MaxSecond
    BY <1>3, BackupAssumption DEF BackupTypes
  <2>6. CASE w.step \in {"list", "delete", "done"}
    <3>1. archives'[w.name] \in Nat
      BY <2>1, <2>2, <2>6
    <3>2. archives'[w.name] # Nil /\ archives'[w.name] # Part
      BY <3>1, BackupAssumption DEF Part
    <3>3. w.name \in Present'
      BY <2>5, <3>2, <1>2 DEF Present, BackupTypes
    <3>4. Covered(w.name)'
      BY <1>1, <2>2, <2>3, <2>6, <3>2, Zenon DEF Covered, Uploaded
    <3> QED BY <2>1, <2>3, <2>4, <3>3, <3>4, Zenon
  <2>7. CASE w.step \notin {"list", "delete", "done"}
    <3>1. PICK n \in Present : Covered(n)
      BY <2>1
    <3>2. n # w.name
      BY <2>7, <3>1, Zenon DEF Covered
    <3>3. n \in 1 .. MaxSecond /\ archives[n] # Nil
      BY <3>1 DEF Present, BackupTypes
    <3>4. archives'[n] = archives[n]
      BY <2>7, <3>2, <3>3
    <3>5. n \in Present'
      BY <3>3, <3>4, <1>2 DEF Present, BackupTypes
    <3>6. Covered(n)'
      BY <1>1, <2>3, <3>1, <3>2, <3>4, Zenon DEF Covered
    <3> QED BY <2>1, <2>3, <2>4, <3>5, <3>6, Zenon
  <2> QED BY <2>6, <2>7
<1> QED BY <1>2, <1>4, <1>5, <1>6, <1>7

LEMMA UploadSteps ==
  ASSUME BackupInv, NEW r \in Runners, UploadBegins(r) \/ UploadEnds(r)
  PROVE  BackupInv'
<1> USE DEF BackupInv
<1>1. runs[r] # Nil /\ runs[r] \in RunRow1 /\ runs[r].name \in 1 .. MaxSecond /\ runs[r].step \in {"upload", "uploading"}
  BY BackupAssumption DEF UploadBegins, UploadEnds, BackupTypes, NamesPast
<1>2. ~Uploaded(r)
  BY <1>1 DEF Uploaded
<1>3. ASSUME NEW s \in {"uploading", "done", "list"}
      PROVE  LET w == [runs[r] EXCEPT !.step = s]
             IN  /\ w \in RunRow1 /\ w.name = runs[r].name /\ w.retention = runs[r].retention
                 /\ w.alone = runs[r].alone /\ w.step = s /\ w.old = runs[r].old
  <2>1. ASSUME NEW v \in RunRow1
        PROVE  LET w == [v EXCEPT !.step = s]
               IN  /\ w \in RunRow1 /\ w.name = v.name /\ w.retention = v.retention
                   /\ w.alone = v.alone /\ w.step = s /\ w.old = v.old
    BY Zenon DEF RunRow1
  <2> QED BY <1>1, <2>1, Zenon
<1>4. runs[r].alone /\ runs[r].retention >= 0 /\ others = 0 => \A a \in runs[r].old : a < runs[r].name
  BY <1>1, Zenon DEF GoodRuns
<1>5. ASSUME UploadBegins(r) PROVE BackupInv'
  <2> DEFINE w == [runs[r] EXCEPT !.step = "uploading"]
  <2>1. /\ w \in RunRow1 /\ w.name = runs[r].name /\ w.retention = runs[r].retention
        /\ w.alone = runs[r].alone /\ w.step = "uploading" /\ w.old = runs[r].old
    BY <1>3, Zenon
  <2>2. runs' = [runs EXCEPT ![r] = w] /\ UNCHANGED <<source, jobRow, sched, second, others, live, lastGood>>
    BY <1>5, Zenon DEF UploadBegins
  <2>3. archives' = [archives EXCEPT ![w.name] = Part]
    BY <1>5, <2>1, Zenon DEF UploadBegins
  <2> HIDE DEF w
  <2>4. archives' \in [1 .. MaxSecond -> {Nil, Part} \cup Nat] /\ Present' \subseteq Present \cup {w.name}
    BY <1>1, <2>1, <2>3 DEF BackupTypes, Present
  <2>5. \A n \in (1 .. MaxSecond) \ {w.name} : archives'[n] = archives[n]
    BY <2>3 DEF BackupTypes
  <2>6. w.alone /\ w.retention >= 0 /\ others = 0 =>
            /\ w.step \in {"list", "delete", "done"} => archives'[w.name] \in Nat
            /\ \A a \in w.old : a < w.name
    <3>1. w.step \notin {"list", "delete", "done"}
      BY <2>1
    <3> QED BY <1>4, <2>1, <3>1, Zenon
  <2> QED BY <1>1, <1>2, <2>1, <2>2, <2>4, <2>5, <2>6, RunGoesOn, Zenon
<1>6. ASSUME UploadEnds(r) PROVE BackupInv'
  <2> DEFINE s == IF dest = "local" THEN "done" ELSE "list"
             w == [runs[r] EXCEPT !.step = s]
  <2>1. /\ w \in RunRow1 /\ w.name = runs[r].name /\ w.retention = runs[r].retention
        /\ w.alone = runs[r].alone /\ w.step = s /\ w.old = runs[r].old /\ s \in {"done", "list"}
    BY <1>3, Zenon
  <2>2. runs' = [runs EXCEPT ![r] = w] /\ UNCHANGED <<source, jobRow, sched, second, others, live, lastGood>>
    BY <1>6, Zenon DEF UploadEnds
  <2>3. archives' = [archives EXCEPT ![w.name] = runs[r].version] /\ runs[r].version \in Nat
    BY <1>6, <1>1, <2>1, Zenon DEF UploadEnds, RunRow1
  <2> HIDE DEF w, s
  <2>4. archives' \in [1 .. MaxSecond -> {Nil, Part} \cup Nat] /\ Present' \subseteq Present \cup {w.name}
    BY <1>1, <2>1, <2>3 DEF BackupTypes, Present
  <2>5. archives'[w.name] \in Nat
    BY <1>1, <2>1, <2>3 DEF BackupTypes
  <2>6. w.alone /\ w.retention >= 0 /\ others = 0 =>
            /\ w.step \in {"list", "delete", "done"} => archives'[w.name] \in Nat
            /\ \A a \in w.old : a < w.name
    BY <1>4, <2>1, <2>5, Zenon
  <2>7. w.step \in {"list", "delete", "done"}
    BY <2>1
  <2> QED BY <1>1, <2>1, <2>2, <2>4, <2>6, <2>7, RunGoesOn, Zenon
<1> QED BY <1>5, <1>6

LEMMA RunLeaves ==
  ASSUME BackupInv, NEW gone \in SUBSET Runners,
         runs' = [o \in Runners |-> IF o \in gone THEN Nil ELSE runs[o]],
         UNCHANGED <<source, second, others, live, lastGood, archives>>,
         jobRow' \in {Nil} \cup Int, sched' \in {Nil} \cup Int
  PROVE  BackupInv'
<1> USE DEF BackupInv
<1>1. \A o \in Runners : runs'[o] \in {Nil, runs[o]}
  BY Zenon
<1>2. runs' \in [Runners -> {Nil} \cup RunRow1]
  BY Zenon DEF BackupTypes
<1>3. Present' = Present
  BY DEF Present
<1>4. BackupTypes'
  BY <1>2 DEF BackupTypes
<1>5. NamesPast'
  <2>1. \A o \in Runners : runs'[o] # Nil => runs'[o].name \in 1 .. second
    BY <1>1, Zenon DEF NamesPast
  <2> QED BY <1>3, <2>1 DEF NamesPast
<1>6. AloneRuns'
  BY <1>1, <1>3, Zenon DEF AloneRuns
<1>7. GoodRuns'
  BY <1>1, Zenon DEF GoodRuns, Uploaded
<1>8. Kept'
  BY <1>1, <1>3, Zenon DEF Kept, Covered, Spares, Uploaded
<1> QED BY <1>4, <1>5, <1>6, <1>7, <1>8

LEMMA RetentionListsStep ==
  ASSUME BackupInv, NEW r \in Runners, RetentionLists(r)
  PROVE  BackupInv'
<1> USE DEF BackupInv
<1> DEFINE keep == IF runs[r].retention = 0 THEN DefaultKeep ELSE runs[r].retention
           old  == Expired(Present, others, keep)
           w    == [runs[r] EXCEPT !.old = old, !.step = "delete"]
<1>1. /\ runs[r] # Nil /\ runs[r] \in RunRow1 /\ runs[r].name \in 1 .. MaxSecond /\ runs[r].step = "list"
      /\ runs[r].retention \in Int
  BY BackupAssumption DEF RetentionLists, BackupTypes, NamesPast, RunRow1
<1>2. runs' = [runs EXCEPT ![r] = w] /\ UNCHANGED <<source, jobRow, sched, second, others, live, lastGood, archives>>
  BY Zenon DEF RetentionLists
<1>3. keep \in Int /\ (runs[r].retention >= 0 => keep \in Nat \ {0})
  BY <1>1, BackupAssumption
<1>4. Present \in SUBSET (1 .. MaxSecond) /\ IsFiniteSet(Present)
  BY PresentFinite
<1> HIDE DEF keep
<1>5. old \in SUBSET Nat
  <2>1. others \in Nat
    BY DEF BackupTypes
  <2>2. Present \in SUBSET Nat
    BY <1>4, BackupAssumption
  <2> QED BY <1>3, <2>1, <2>2, ExpiredNames
<1>6. runs[r].alone /\ runs[r].retention >= 0 /\ others = 0 =>
         archives[runs[r].name] \in Nat /\ \A a \in old : a < runs[r].name
  <2> SUFFICES ASSUME runs[r].alone, runs[r].retention >= 0, others = 0
               PROVE  archives[runs[r].name] \in Nat /\ \A a \in old : a < runs[r].name
    BY Zenon
  <2>1. archives[runs[r].name] \in Nat
    BY <1>1, Zenon DEF GoodRuns, Uploaded
  <2>2. runs[r].name \in Present
    BY <1>1, <2>1, BackupAssumption DEF Present, BackupTypes
  <2>3. \A n \in Present : n <= runs[r].name
    BY <1>1, Zenon DEF AloneRuns
  <2>4. Present \in SUBSET Nat
    BY <1>4, BackupAssumption
  <2>5. \A a \in Expired(Present, 0, keep) : a < runs[r].name
    BY <1>3, <1>4, <2>2, <2>3, <2>4, ExpiredBefore, Zenon
  <2> QED BY <2>1, <2>5
<1> HIDE DEF old
<1>7. /\ w \in RunRow1 /\ w.name = runs[r].name /\ w.retention = runs[r].retention
      /\ w.alone = runs[r].alone /\ w.step = "delete" /\ w.old = old
  <2>1. ASSUME NEW v \in RunRow1, NEW os \in SUBSET Nat
        PROVE  LET u == [v EXCEPT !.old = os, !.step = "delete"]
               IN  /\ u \in RunRow1 /\ u.name = v.name /\ u.retention = v.retention
                   /\ u.alone = v.alone /\ u.step = "delete" /\ u.old = os
    BY Zenon DEF RunRow1
  <2> QED BY <1>1, <1>5, <2>1, Zenon
<1> HIDE DEF w
<1>8. archives' \in [1 .. MaxSecond -> {Nil, Part} \cup Nat] /\ Present' \subseteq Present \cup {w.name}
  BY <1>2 DEF BackupTypes, Present
<1>9. w.alone /\ w.retention >= 0 /\ others = 0 =>
            /\ w.step \in {"list", "delete", "done"} => archives'[w.name] \in Nat
            /\ \A a \in w.old : a < w.name
  BY <1>2, <1>6, <1>7, Zenon
<1>10. w.step \in {"list", "delete", "done"}
  BY <1>7
<1> QED BY <1>1, <1>2, <1>7, <1>8, <1>9, <1>10, RunGoesOn, Zenon

LEMMA LeastName ==
  ASSUME NEW S \in SUBSET Nat, S # {}
  PROVE  \E x \in S : \A y \in S : x <= y
<1>1. PICK x \in S : \A y \in S : ~(<<y, x>> \in OpToRel(<, Nat))
  <2> HIDE DEF OpToRel
  <2> QED BY NatLessThanWellFounded, WFMin, Zenon
<1>2. \A y \in S : ~(y < x)
  BY <1>1 DEF OpToRel
<1>3. \A y \in S : x <= y
  BY <1>2
<1> QED BY <1>3

LEMMA RetentionDeletesStep ==
  ASSUME BackupInv, NEW r \in Runners, NEW deletes \in BOOLEAN, RetentionDeletes(r, deletes)
  PROVE  BackupInv'
<1> USE DEF BackupInv
<1> DEFINE a == CHOOSE x \in runs[r].old : \A y \in runs[r].old : x <= y
           w == [runs[r] EXCEPT !.old = @ \ {a}]
<1>1. /\ runs[r] # Nil /\ runs[r] \in RunRow1 /\ runs[r].name \in 1 .. MaxSecond /\ runs[r].step = "delete"
      /\ runs[r].old # {} /\ runs[r].old \in SUBSET Nat
  BY BackupAssumption DEF RetentionDeletes, BackupTypes, NamesPast, RunRow1
<1>2. /\ archives' = IF deletes THEN [archives EXCEPT ![a] = Nil] ELSE archives
      /\ runs' = [runs EXCEPT ![r] = w]
      /\ UNCHANGED <<source, jobRow, sched, second, others, live, lastGood>>
  BY Zenon DEF RetentionDeletes
<1>3. a \in runs[r].old
  BY <1>1, LeastName
<1> HIDE DEF a
<1>4. /\ w \in RunRow1 /\ w.name = runs[r].name /\ w.retention = runs[r].retention
      /\ w.alone = runs[r].alone /\ w.step = "delete" /\ w.old = runs[r].old \ {a}
  <2>1. ASSUME NEW v \in RunRow1, NEW os \in SUBSET Nat
        PROVE  LET u == [v EXCEPT !.old = os]
               IN  /\ u \in RunRow1 /\ u.name = v.name /\ u.retention = v.retention
                   /\ u.alone = v.alone /\ u.step = v.step /\ u.old = os
    BY Zenon DEF RunRow1
  <2>2. w = [runs[r] EXCEPT !.old = runs[r].old \ {a}] /\ runs[r].old \ {a} \in SUBSET Nat
    BY <1>1
  <2> HIDE DEF w
  <2> QED BY <1>1, <2>1, <2>2, Zenon
<1> HIDE DEF w
<1>5. archives' \in [1 .. MaxSecond -> {Nil, Part} \cup Nat] /\ Present' \subseteq Present
  <2>1. CASE deletes
    BY <1>2, <2>1 DEF BackupTypes, Present
  <2>2. CASE ~deletes
    BY <1>2, <2>2 DEF BackupTypes, Present
  <2> QED BY <2>1, <2>2
<1>6. w.alone /\ w.retention >= 0 /\ others = 0 => archives'[w.name] \in Nat /\ \A b \in w.old : b < w.name
  <2> SUFFICES ASSUME w.alone, w.retention >= 0, others = 0
               PROVE  archives'[w.name] \in Nat /\ \A b \in w.old : b < w.name
    BY Zenon
  <2>1. archives[w.name] \in Nat /\ \A b \in runs[r].old : b < w.name
    BY <1>1, <1>4, Zenon DEF GoodRuns, Uploaded
  <2>2. a # w.name
    <3>1. a < w.name /\ a \in Nat
      BY <1>1, <1>3, <2>1
    <3> QED BY <3>1
  <2>3. archives'[w.name] = archives[w.name]
    <3>1. w.name \in 1 .. MaxSecond
      BY <1>1, <1>4
    <3> QED BY <1>2, <2>2, <3>1 DEF BackupTypes
  <2> QED BY <1>4, <2>1, <2>3, Zenon
<1>7. w.alone /\ w.retention >= 0 /\ others = 0 =>
            /\ w.step \in {"list", "delete", "done"} => archives'[w.name] \in Nat
            /\ \A b \in w.old : b < w.name
  BY <1>6, Zenon
<1>8. w.step \in {"list", "delete", "done"} /\ Present' \subseteq Present \cup {w.name}
  BY <1>4, <1>5
<1> QED BY <1>1, <1>2, <1>4, <1>5, <1>7, <1>8, RunGoesOn, Zenon

LEMMA RunSucceedsStep ==
  ASSUME BackupInv, NEW r \in Runners, RunSucceeds(r)
  PROVE  BackupInv'
<1> USE DEF BackupInv
<1> DEFINE good == [name |-> runs[r].name, alone |-> runs[r].alone /\ runs[r].retention >= 0 /\ others = 0]
<1>1. /\ runs[r] # Nil /\ runs[r] \in RunRow1 /\ runs[r].name \in 1 .. MaxSecond /\ Uploaded(r)
      /\ runs[r].name \in Nat /\ runs[r].name \in 1 .. second
  BY BackupAssumption DEF RunSucceeds, BackupTypes, NamesPast, RunRow1, Uploaded
<1>2. /\ lastGood' = good /\ runs' = [runs EXCEPT ![r] = Nil]
      /\ UNCHANGED <<source, jobRow, sched, second, archives, others, live>>
  BY Zenon DEF RunSucceeds
<1>3. good \in LastGood /\ good.name = runs[r].name
      /\ (good.alone <=> runs[r].alone /\ runs[r].retention >= 0 /\ others = 0)
  BY <1>1, Zenon DEF LastGood
<1> HIDE DEF good
<1>4. runs' \in [Runners -> {Nil} \cup RunRow1] /\ runs'[r] = Nil /\ \A o \in Runners \ {r} : runs'[o] = runs[o]
  BY <1>2, Zenon DEF BackupTypes
<1>5. BackupTypes'
  BY <1>2, <1>3, <1>4 DEF BackupTypes
<1>6. Present' = Present
  BY <1>2 DEF Present
<1>7. NamesPast'
  <2>1. \A o \in Runners : runs'[o] # Nil => runs'[o].name \in 1 .. second
    BY <1>4, Zenon DEF NamesPast
  <2>2. good.name <= second
    BY <1>1, <1>3, BackupAssumption DEF BackupTypes
  <2> QED BY <1>2, <1>6, <2>1, <2>2 DEF NamesPast
<1>8. AloneRuns'
  BY <1>4, <1>6, Zenon DEF AloneRuns
<1>9. GoodRuns'
  BY <1>2, <1>4, Zenon DEF GoodRuns, Uploaded
<1>10. Kept'
  <2> SUFFICES ASSUME good.alone
               PROVE  /\ others = 0
                      /\ \A q \in Runners : runs'[q] = Nil
                      /\ \E n \in Present : n >= good.name /\ archives[n] # Part
    BY <1>2, <1>6, Zenon DEF Kept, Covered
  <2>1. runs[r].alone /\ runs[r].retention >= 0 /\ others = 0
    BY <1>3, Zenon
  <2>2. archives[good.name] \in Nat
    BY <1>1, <1>3, <2>1, Zenon DEF GoodRuns
  <2>3. \A q \in Runners : runs'[q] = Nil
    BY <1>1, <1>4, <2>1, Zenon DEF AloneRuns
  <2>4. good.name \in Present /\ archives[good.name] # Part /\ good.name >= good.name
    BY <1>1, <1>3, <2>2, BackupAssumption DEF Present, Part, BackupTypes
  <2> QED BY <2>1, <2>3, <2>4
<1> QED BY <1>5, <1>7, <1>8, <1>9, <1>10

\* Steps that leave the runs and the archives alone.
LEMMA BackupOutside ==
  ASSUME BackupInv, UNCHANGED <<source, runs, archives>>,
         jobRow' \in {Nil} \cup Int, sched' \in {Nil} \cup Int, live' \in Nat,
         second' \in 1 .. MaxSecond, second' >= second,
         UNCHANGED <<others, lastGood>> \/ (others = 0 /\ others' = 1 /\ lastGood' = Nil)
  PROVE  BackupInv'
<1> USE DEF BackupInv
<1>1. Present' = Present
  BY DEF Present
<1>2. BackupTypes'
  BY DEF BackupTypes
<1>3. NamesPast'
  <2>1. second \in Nat /\ second' \in Nat
    BY BackupAssumption DEF BackupTypes
  <2>2. \A n \in Present : n <= second'
    BY <2>1, PresentFinite, BackupAssumption DEF NamesPast
  <2>3. \A r \in Runners : runs[r] # Nil => runs[r].name \in 1 .. second'
    BY <2>1 DEF NamesPast
  <2>4. lastGood' # Nil => lastGood'.name <= second'
    BY <2>1 DEF NamesPast, BackupTypes, LastGood
  <2> QED BY <1>1, <2>2, <2>3, <2>4 DEF NamesPast
<1>4. AloneRuns'
  BY <1>1, Zenon DEF AloneRuns
<1>5. GoodRuns'
  <2>1. others' = 0 => others = 0
    OBVIOUS
  <2> QED BY <2>1, Zenon DEF GoodRuns, Uploaded
<1>6. Kept'
  BY <1>1, Zenon DEF Kept, Covered, Spares, Uploaded
<1> QED BY <1>2, <1>3, <1>4, <1>5, <1>6

LEMMA BackupInitial == BackupInit => BackupInv
<1> SUFFICES ASSUME BackupInit PROVE BackupInv
  OBVIOUS
<1>1. BackupTypes
  BY BackupAssumption DEF BackupInit, BackupTypes, Runners
<1>2. Present = {}
  BY DEF BackupInit, Present
<1>3. \A r \in Runners : runs[r] = Nil
  BY DEF BackupInit
<1>4. lastGood = Nil
  BY DEF BackupInit
<1>5. NamesPast
  BY <1>2, <1>3, <1>4 DEF NamesPast
<1>6. AloneRuns /\ GoodRuns
  BY <1>3 DEF AloneRuns, GoodRuns
<1>7. Kept
  BY <1>4, Zenon DEF Kept
<1> QED BY <1>1, <1>5, <1>6, <1>7 DEF BackupInv

LEMMA BackupInductive == BackupInv /\ [BackupNext]_backupVars => BackupInv'
<1> SUFFICES ASSUME BackupInv, [BackupNext]_backupVars
             PROVE  BackupInv'
  OBVIOUS
<1>1. /\ jobRow \in {Nil} \cup Int /\ sched \in {Nil} \cup Int /\ live \in Nat
      /\ second \in 1 .. MaxSecond /\ second \in Nat /\ runs \in [Runners -> {Nil} \cup RunRow1]
  BY BackupAssumption DEF BackupInv, BackupTypes
<1>2. ASSUME NEW retention \in Retentions, CreateJob(retention)
      PROVE  BackupInv'
  <2>1. retention \in Int
    BY BackupAssumption
  <2> QED BY <1>1, <1>2, <2>1, BackupOutside DEF CreateJob, runVars1
<1>3. CASE DeleteJob
  BY <1>1, <1>3, BackupOutside DEF DeleteJob, runVars1
<1>4. CASE ManualRun
  BY <1>1, <1>4, RunStartsStep, Zenon DEF ManualRun, Runners, RunStarts
<1>5. CASE ScheduledRun
  BY <1>1, <1>5, RunStartsStep, Zenon DEF ScheduledRun, Runners, RunStarts
<1>6. ASSUME NEW r \in Runners,
             \/ UploadBegins(r) \/ UploadEnds(r) \/ UploadFails(r) \/ RetentionLists(r) \/ RunSucceeds(r)
             \/ \E deletes \in BOOLEAN : RetentionDeletes(r, deletes)
      PROVE  BackupInv'
  <2>1. CASE UploadFails(r)
    <3>1. runs' = [o \in Runners |-> IF o \in {r} THEN Nil ELSE runs[o]]
      BY <1>1, <2>1, Zenon DEF UploadFails
    <3>2. UNCHANGED <<source, second, others, live, lastGood, archives, jobRow, sched>>
      BY <2>1 DEF UploadFails
    <3> QED BY <1>1, <3>1, <3>2, RunLeaves
  <2> QED BY <1>6, <2>1, UploadSteps, RetentionListsStep, RunSucceedsStep, RetentionDeletesStep
<1>7. ASSUME NEW n \in DOMAIN archives, NEW completes \in BOOLEAN, RestoreJob(n, completes)
      PROVE  BackupInv'
  <2>1. archives[n] \in Nat /\ source \in {"site", "database"}
    BY <1>7, BackupAssumption DEF RestoreJob, BackupInv, BackupTypes
  <2>2. live' \in Nat
    <3>1. CASE source = "site"
      BY <1>1, <1>7, <3>1 DEF RestoreJob
    <3>2. CASE source = "database"
      BY <1>7, <2>1, <3>2 DEF RestoreJob, Mixed
    <3> QED BY <2>1, <3>1, <3>2
  <2> QED BY <1>1, <1>7, <2>2, BackupOutside DEF RestoreJob, runVars1
<1>8. CASE PanelRestarts
  <2>1. /\ runs' = [o \in Runners |-> IF o \in Runners THEN Nil ELSE runs[o]]
        /\ UNCHANGED <<source, second, others, live, lastGood, archives>>
        /\ jobRow' \in {Nil} \cup Int /\ sched' \in {Nil} \cup Int
    BY <1>1, <1>8 DEF PanelRestarts
  <2> QED BY <2>1, RunLeaves
<1>9. CASE SourceChanges
  BY <1>1, <1>9, BackupOutside DEF SourceChanges, runVars1
<1>10. CASE OtherArchive
  BY <1>1, <1>10, BackupOutside DEF OtherArchive
<1>11. CASE SecondPasses
  <2>1. second' \in 1 .. MaxSecond /\ second' >= second
    BY <1>1, <1>11, BackupAssumption DEF SecondPasses
  <2> QED BY <1>1, <1>11, <2>1, BackupOutside DEF SecondPasses
<1>12. CASE UNCHANGED backupVars
  BY <1>1, <1>12, BackupOutside DEF backupVars, runVars1
<1> QED BY <1>2, <1>3, <1>4, <1>5, <1>6, <1>7, <1>8, <1>9, <1>10, <1>11, <1>12 DEF BackupNext

\* The destination has a whole archive at least as recent as the last run that
\* succeeded: for any number of seconds and versions, and any retention.
THEOREM LastArchiveStays == BackupSpec => []LastArchiveKept
<1>1. BackupInv => LastArchiveKept
  BY Zenon DEF BackupInv, Kept, Covered, LastArchiveKept
<1> QED BY <1>1, BackupInitial, BackupInductive, PTL DEF BackupSpec

-----------------------------------------------------------------------------
(***************************************************************************)
(* Python apps (V1Apps). A deploy is right at its end only because of what *)
(* holds in its middle: as long as nothing was cut short, packages that    *)
(* are not those of the commit are about to be installed by somebody, and  *)
(* a service that does not run what is checked out is about to be          *)
(* restarted by somebody, whoever's thread that is; and as long as no pull *)
(* fell into an installation, every pip at work installs for the commit    *)
(* that is there. The wiring rests on what the one handler at work has     *)
(* done so far, and on a free name having neither unit nor a proxy site of *)
(* an earlier app.                                                         *)
(***************************************************************************)
AppsTypes ==
    /\ head \in Nat /\ appId \in Nat
    /\ appRow \in [AppNames -> {Nil} \cup AppRecord]
    /\ dir \in [AppNames -> {Nil} \cup Checkout] /\ running \in [AppNames -> {Nil} \cup Checkout]
    /\ unit \in [AppNames -> {Nil} \cup Nat] /\ site \in [AppNames -> {Nil} \cup Nat]
    /\ task \in [Tasks -> {Nil} \cup AppTask]

AppFlags ==
    /\ cut \in [AppNames -> BOOLEAN] /\ raced \in [AppNames -> BOOLEAN]
    /\ dying \in [AppNames -> BOOLEAN] /\ stale \in [AppNames -> BOOLEAN]

\* The site of the domain is none of an app's, or was left by delete_app.
Foreign(n) == site[n] \in {Nil, 0} \/ stale[n]

\* What the handler that creates or deletes n has done so far.
HandlerAt(n) ==
    /\ task[0].id = 0 =>
          /\ task[0].op \in {"deps", "pip", "unit", "site", "row"}
          /\ appRow[n] = Nil /\ dir[n] # Nil /\ task[0].port \in Ports
          /\ \A m \in AppNames : appRow[m] # Nil => appRow[m].port # task[0].port
    /\ task[0].id = 0 /\ task[0].op \in {"deps", "pip"} => unit[n] = Nil /\ Foreign(n)
    /\ task[0].op \in {"unit", "site", "row"} => task[0].id = 0
    /\ task[0].op \in {"unit", "site", "unrow"} => Foreign(n)
    /\ task[0].op \in {"site", "row"} => unit[n] = task[0].port
    /\ task[0].op = "row" => site[n] \in {Nil, 0, task[0].port} \/ stale[n]
    /\ task[0].op \in {"rm", "unsite", "unrow"} => dying[n] /\ appRow[n] # Nil
    /\ task[0].op \in {"unsite", "unrow"} => unit[n] = Nil

HandlerRight == task[0] # Nil => HandlerAt(task[0].app)

\* Only the handler creates an app.
ThreadsDeploy == \A t \in Tasks \ {0} : task[t] # Nil => task[t].id # 0

FreeNames == \A n \in AppNames : dir[n] = Nil => unit[n] = Nil /\ Foreign(n)

\* The task t is at one of these steps of the app n.
Busy(t, n, ops)  == task[t] # Nil /\ task[t].app = n /\ task[t].op \in ops
Deploying        == {"deps", "pip", "restart"}
InFlight(n, ops) == \E t \in Tasks : Busy(t, n, ops)

\* The handler is creating n and has not installed its packages.
Making(n) == Busy(0, n, {"deps", "pip"}) /\ task[0].id = 0

Installed(n) ==
    dir[n] # Nil /\ ~cut[n] => dir[n].deps = dir[n].src \/ raced[n] \/ InFlight(n, {"deps", "pip"})
Started(n) ==
    dir[n] # Nil /\ running[n] # Nil /\ ~cut[n] => running[n] = dir[n] \/ InFlight(n, Deploying)
\* Unless a pull fell into it, a pip is at work for the commit that is there.
Fresh(n) ==
    dir[n] # Nil /\ ~raced[n] => \A t \in Tasks : Busy(t, n, {"pip"}) => task[t].read = dir[n].src
\* A service that still runs under the name of a new app is some thread's.
Apart(n) ==
    Making(n) /\ running[n] # Nil /\ ~cut[n] => \E t \in Tasks \ {0} : Busy(t, n, Deploying)

DeployAt(n)  == Installed(n) /\ Started(n) /\ Fresh(n) /\ Apart(n)
DeploysRight == \A n \in AppNames : DeployAt(n)

WiringInv == AppsWired /\ HandlerRight /\ ThreadsDeploy /\ FreeNames
AppsInv   == AppsTypes /\ AppFlags /\ WiringInv /\ DeploysRight

LEMMA ZeroTask == 0 \in Tasks
  BY DEF Tasks

LEMMA TaskIsRow == ASSUME AppsTypes, NEW t \in Tasks, task[t] # Nil PROVE task[t] \in AppTask
  BY DEF AppsTypes

\* A handler or thread goes to its next step, or ends.
LEMMA TaskGoes ==
  ASSUME AppsTypes, NEW t \in Tasks, task[t] # Nil, NEW what \in AppOps, Goes(t, what)
  PROVE  /\ task' \in [Tasks -> {Nil} \cup AppTask]
         /\ task'[t] # Nil /\ task'[t].op = what /\ task'[t].app = task[t].app /\ task'[t].port = task[t].port
         /\ task'[t].id = task[t].id
         /\ \A o \in Tasks \ {t} : task'[o] = task[o]
<1>1. task[t] \in AppTask
  BY TaskIsRow
<1> DEFINE w == [task[t] EXCEPT !.op = what]
<1>2. task' = [task EXCEPT ![t] = w]
  BY DEF Goes
<1>3. w \in AppTask /\ w.op = what /\ w.app = task[t].app /\ w.port = task[t].port /\ w.id = task[t].id
  BY <1>1 DEF AppTask
<1>4. w # Nil
  BY <1>3, AppsAssumption
<1> HIDE DEF w
<1> QED BY <1>2, <1>3, <1>4 DEF AppsTypes

\* A pip starts.
LEMMA TaskReads ==
  ASSUME AppsTypes, NEW t \in Tasks, task[t] # Nil, NEW commit \in Nat,
         task' = [task EXCEPT ![t].op = "pip", ![t].read = commit]
  PROVE  /\ task' \in [Tasks -> {Nil} \cup AppTask]
         /\ task'[t] # Nil /\ task'[t].op = "pip" /\ task'[t].app = task[t].app /\ task'[t].port = task[t].port
         /\ task'[t].id = task[t].id /\ task'[t].read = commit
         /\ \A o \in Tasks \ {t} : task'[o] = task[o]
<1>1. task[t] \in AppTask
  BY TaskIsRow
<1> DEFINE w == [task[t] EXCEPT !.op = "pip", !.read = commit]
<1>2. task' = [task EXCEPT ![t] = w]
  BY DEF AppsTypes
<1>3. /\ w \in AppTask /\ w.op = "pip" /\ w.app = task[t].app /\ w.port = task[t].port /\ w.id = task[t].id
      /\ w.read = commit
  BY <1>1 DEF AppTask, AppOps
<1>4. w # Nil
  BY <1>3, AppsAssumption
<1> HIDE DEF w
<1> QED BY <1>2, <1>3, <1>4 DEF AppsTypes

LEMMA TaskEnds ==
  ASSUME AppsTypes, NEW t \in Tasks, Ends(t)
  PROVE  /\ task' \in [Tasks -> {Nil} \cup AppTask]
         /\ task'[t] = Nil
         /\ \A o \in Tasks \ {t} : task'[o] = task[o]
  BY DEF Ends, AppsTypes

\* Steps that change nothing of the wiring but the handler's.
LEMMA WiringFrame ==
  ASSUME WiringInv, UNCHANGED <<appRow, unit, site, stale, dying>>,
         \A n \in AppNames : dir'[n] = Nil <=> dir[n] = Nil,
         \A t \in Tasks \ {0} : task'[t] # Nil => (task[t] # Nil /\ task'[t].id = task[t].id) \/ task'[t].id # 0,
         task[0] # Nil => task[0].app \in AppNames,
         \/ task'[0] = task[0]
         \/ task'[0] = Nil
         \/ task'[0].id # 0 /\ task'[0].op \in {"get", "pull", "deps", "pip", "restart"}
         \/ /\ task[0] # Nil /\ task[0].id = 0 /\ task[0].op \in {"deps", "pip"}
            /\ task'[0].id = 0 /\ task'[0].app = task[0].app /\ task'[0].port = task[0].port
            /\ task'[0].op \in {"pip", "unit"}
  PROVE  WiringInv'
<1> USE DEF WiringInv
<1>1. AppsWired'
  BY Zenon DEF AppsWired
<1>2. FreeNames'
  BY Zenon DEF FreeNames, Foreign
<1>3. HandlerRight'
  <2>1. CASE task'[0] = task[0]
    <3> SUFFICES ASSUME task[0] # Nil PROVE HandlerAt(task[0].app)'
      BY <2>1, Zenon DEF HandlerRight, HandlerAt, Foreign
    <3>1. HandlerAt(task[0].app) /\ task[0].app \in AppNames
      BY Zenon DEF HandlerRight
    <3> QED BY <2>1, <3>1, Zenon DEF HandlerAt, Foreign
  <2>2. CASE task'[0] = Nil
    BY <2>2, Zenon DEF HandlerRight
  <2>3. CASE task'[0].id # 0 /\ task'[0].op \in {"get", "pull", "deps", "pip", "restart"}
    <3>1. /\ task'[0].op \notin {"unit", "site", "row", "unrow", "rm", "unsite"} /\ task'[0].op # "row"
          /\ task'[0].id # 0
      BY <2>3
    <3>2. \A n : HandlerAt(n)'
      BY <3>1 DEF HandlerAt
    <3> QED BY <3>1, Zenon DEF HandlerRight, HandlerAt
  <2>4. CASE /\ task[0] # Nil /\ task[0].id = 0 /\ task[0].op \in {"deps", "pip"}
             /\ task'[0].id = 0 /\ task'[0].app = task[0].app /\ task'[0].port = task[0].port
             /\ task'[0].op \in {"pip", "unit"}
    <3>1. PICK n \in AppNames : n = task[0].app
      BY <2>4
    <3>2. HandlerAt(n)
      BY <2>4, <3>1 DEF HandlerRight
    <3>3. /\ appRow[n] = Nil /\ dir[n] # Nil /\ task[0].port \in Ports /\ unit[n] = Nil /\ Foreign(n)
          /\ \A m \in AppNames : appRow[m] # Nil => appRow[m].port # task[0].port
      BY <2>4, <3>2 DEF HandlerAt
    <3>4. Foreign(n)' /\ dir'[n] # Nil
      BY <3>3 DEF Foreign
    <3>5. HandlerAt(n)'
      BY <2>4, <3>3, <3>4 DEF HandlerAt
    <3> QED BY <2>4, <3>1, <3>5 DEF HandlerRight, HandlerAt, Foreign
  <2> QED BY <2>1, <2>2, <2>3, <2>4
<1>4. ThreadsDeploy'
  BY DEF ThreadsDeploy
<1> QED BY <1>1, <1>2, <1>3, <1>4

\* Steps that disturb no deploy of n.
LEMMA DeployFrame ==
  ASSUME NEW n \in AppNames, DeployAt(n),
         dir'[n] \in {dir[n], Nil}, cut'[n] = cut[n], raced'[n] = raced[n],
         running'[n] \in {running[n], Nil, dir[n]}, running[n] # Nil \/ running'[n] = Nil \/ ~Making(n),
         \A t \in Tasks : Busy(t, n, Deploying) => task'[t] = task[t],
         \A t \in Tasks : Busy(t, n, {"deps", "pip"})' => task'[t] = task[t]
  PROVE  DeployAt(n)'
<1> USE DEF DeployAt
<1>1. ASSUME NEW t \in Tasks, NEW ops \in SUBSET Deploying, Busy(t, n, ops) PROVE Busy(t, n, ops)'
  BY <1>1 DEF Busy, Deploying
<1>2. InFlight(n, {"deps", "pip"}) => InFlight(n, {"deps", "pip"})'
  BY <1>1 DEF InFlight, Deploying
<1>3. InFlight(n, Deploying) => InFlight(n, Deploying)'
  BY <1>1 DEF InFlight
<1>4. Installed(n)'
  <2> HIDE DEF InFlight
  <2> QED BY <1>2, Zenon DEF Installed
<1>5. Started(n)'
  <2> HIDE DEF InFlight
  <2> QED BY <1>3, Zenon DEF Started
<1>6. Fresh(n)'
  <2> SUFFICES ASSUME dir'[n] # Nil, ~raced'[n], NEW t \in Tasks, Busy(t, n, {"pip"})'
               PROVE  task'[t].read = dir'[n].src
    BY DEF Fresh
  <2>1. task'[t] = task[t]
    BY DEF Busy
  <2>2. Busy(t, n, {"pip"})
    BY <2>1 DEF Busy
  <2> QED BY <2>1, <2>2 DEF Fresh
<1>7. Apart(n)'
  <2> SUFFICES ASSUME Making(n)', running'[n] # Nil, ~cut'[n]
               PROVE  \E t \in Tasks \ {0} : Busy(t, n, Deploying)'
    BY DEF Apart
  <2>1. task'[0] = task[0]
    BY ZeroTask DEF Making
  <2>2. Making(n)
    BY <2>1 DEF Making, Busy
  <2>3. PICK t \in Tasks \ {0} : Busy(t, n, Deploying)
    BY <2>2 DEF Apart
  <2> QED BY <1>1, <2>3
<1> QED BY <1>4, <1>5, <1>6, <1>7

LEMMA NewDirStep ==
  ASSUME AppsInv, NEW n \in AppNames, NEW src \in Nat, NewDir(n, src)
  PROVE  AppsInv'
<1> USE DEF AppsInv, WiringInv
<1> DEFINE d == [src |-> src, deps |-> Nil]
           w == [op |-> "deps", app |-> n, id |-> 0, port |-> PickPort, read |-> 0]
<1>1. /\ task[0] = Nil /\ appRow[n] = Nil /\ dir[n] = Nil /\ FreePorts # {}
      /\ dir' = [dir EXCEPT ![n] = d]
      /\ task' = [task EXCEPT ![0] = w]
      /\ cut' = [cut EXCEPT ![n] = running[n] # Nil]
      /\ raced' = [raced EXCEPT ![n] = Overlaps(n, src)]
      /\ UNCHANGED <<head, appRow, appId, unit, running, site, dying, stale>>
  BY Zenon DEF NewDir, Idle
<1>2. PickPort \in FreePorts
  <2>1. FreePorts \in SUBSET Nat
    BY AppsAssumption DEF FreePorts
  <2> QED BY <1>1, <2>1, LeastName DEF PickPort
<1>3. PickPort \in Nat /\ PickPort \in Ports /\ \A m \in AppNames : appRow[m] # Nil => appRow[m].port # PickPort
  BY <1>2, AppsAssumption DEF FreePorts
<1>4. d \in Checkout /\ d # Nil /\ d.src = src
  <2>1. d \in Checkout /\ d.src = src
    BY DEF Checkout
  <2> HIDE DEF d
  <2> QED BY <2>1, AppsAssumption
<1>5. w \in AppTask /\ w # Nil /\ w.op = "deps" /\ w.app = n /\ w.port = PickPort /\ w.id = 0
  <2>1. w \in AppTask
    BY <1>3 DEF AppTask, AppOps
  <2>2. w.op = "deps" /\ w.app = n /\ w.port = PickPort /\ w.id = 0
    OBVIOUS
  <2> HIDE DEF w
  <2> QED BY <2>1, <2>2, AppsAssumption
<1> HIDE DEF d, w
<1>6. /\ task' \in [Tasks -> {Nil} \cup AppTask] /\ task'[0] = w
      /\ \A t \in Tasks \ {0} : task'[t] = task[t]
  BY <1>1, <1>5, ZeroTask DEF AppsTypes
<1>7. dir' \in [AppNames -> {Nil} \cup Checkout] /\ dir'[n] = d /\ \A m \in AppNames \ {n} : dir'[m] = dir[m]
  BY <1>1, <1>4 DEF AppsTypes
<1>8. AppsTypes'
  BY <1>1, <1>6, <1>7 DEF AppsTypes
<1>9. AppFlags' /\ \A m \in AppNames \ {n} : cut'[m] = cut[m] /\ raced'[m] = raced[m]
  <2>1. Overlaps(n, src) \in BOOLEAN
    BY DEF Overlaps
  <2> HIDE DEF Overlaps
  <2> QED BY <1>1, <2>1, Zenon DEF AppFlags
<1>10. AppsWired'
  BY <1>1, Zenon DEF AppsWired
<1>11. FreeNames'
  BY <1>1, <1>4, <1>7, Zenon DEF FreeNames, Foreign
<1>12. HandlerRight' /\ ThreadsDeploy'
  <2>1. Foreign(n)' /\ unit'[n] = Nil
    BY <1>1, Zenon DEF FreeNames, Foreign
  <2>2. HandlerAt(n)'
    <3>1. task'[0].op = "deps" /\ task'[0].port = PickPort /\ task'[0].id = 0
      BY <1>5, <1>6
    <3>2. appRow'[n] = Nil /\ dir'[n] # Nil /\ PickPort \in Ports
      BY <1>1, <1>3, <1>4, <1>7
    <3>3. \A m \in AppNames : appRow'[m] # Nil => appRow'[m].port # PickPort
      BY <1>1, <1>3
    <3> QED BY <2>1, <3>1, <3>2, <3>3 DEF HandlerAt
  <2>3. task'[0].app = n
    BY <1>5, <1>6
  <2>4. ThreadsDeploy'
    BY <1>6 DEF ThreadsDeploy
  <2> QED BY <2>2, <2>3, <2>4 DEF HandlerRight, HandlerAt, Foreign
<1>13. DeploysRight'
  <2> SUFFICES ASSUME NEW m \in AppNames PROVE DeployAt(m)'
    BY DEF DeploysRight
  <2>1. CASE m = n
    <3>1. Busy(0, n, {"deps", "pip"})' /\ Busy(0, n, Deploying)'
      BY <1>5, <1>6 DEF Busy, Deploying
    <3>2. InFlight(n, {"deps", "pip"})' /\ InFlight(n, Deploying)'
      BY <3>1, ZeroTask DEF InFlight
    <3>3. Installed(n)' /\ Started(n)'
      BY <3>2, Zenon DEF Installed, Started
    <3>4. running'[n] # Nil => cut'[n]
      BY <1>1, Zenon DEF AppFlags
    <3>5. Apart(n)'
      BY <3>4, Zenon DEF Apart
    <3>6. Fresh(n)'
      <4> SUFFICES ASSUME ~raced'[n], NEW t \in Tasks, Busy(t, n, {"pip"})'
                   PROVE  task'[t].read = dir'[n].src
        BY DEF Fresh
      <4>1. t # 0
        BY <1>5, <1>6 DEF Busy
      <4>2. task'[t] = task[t] /\ AtStep(t, "pip") /\ task[t].app = n
        BY <1>6, <4>1 DEF Busy, AtStep, Idle
      <4>3. ~Overlaps(n, src)
        BY <1>1, Zenon DEF AppFlags
      <4>4. task[t].read = src
        BY <4>2, <4>3 DEF Overlaps
      <4> QED BY <1>4, <1>7, <4>2, <4>4
    <3> QED BY <2>1, <3>3, <3>5, <3>6 DEF DeployAt
  <2>2. CASE m # n
    <3>1. /\ dir'[m] = dir[m] /\ cut'[m] = cut[m] /\ raced'[m] = raced[m] /\ running'[m] = running[m]
          /\ DeployAt(m)
      BY <1>1, <1>7, <1>9, <2>2 DEF DeploysRight
    <3>2. \A t \in Tasks : Busy(t, m, Deploying) => task'[t] = task[t]
      BY <1>1, <1>6 DEF Busy
    <3>3. \A t \in Tasks : Busy(t, m, {"deps", "pip"})' => task'[t] = task[t]
      BY <1>5, <1>6, <2>2 DEF Busy
    <3> QED BY <3>1, <3>2, <3>3, DeployFrame
  <2> QED BY <2>1, <2>2
<1> QED BY <1>8, <1>9, <1>10, <1>11, <1>12, <1>13

\* The steps of create_app and create_from_template after the directory.
LEMMA CreateUnitStep ==
  ASSUME AppsInv, NEW starts \in BOOLEAN, CreateUnit(starts)
  PROVE  AppsInv'
<1> USE DEF AppsInv, WiringInv
<1>1. task[0] # Nil /\ task[0].op = "unit" /\ task[0].app \in AppNames /\ task[0].port \in Nat /\ 0 \in Tasks
  BY TaskIsRow, ZeroTask DEF CreateUnit, AtStep, Idle, AppTask
<1>a. PICK n \in AppNames, p \in Nat : n = task[0].app /\ p = task[0].port
  BY <1>1
<1>2. /\ unit' = [unit EXCEPT ![n] = p]
      /\ running' = IF starts /\ running[n] = Nil THEN [running EXCEPT ![n] = dir[n]] ELSE running
      /\ Goes(0, "site")
      /\ UNCHANGED <<head, appRow, appId, dir, site, cut, raced, dying, stale>>
  BY <1>a DEF CreateUnit
<1>3. /\ task' \in [Tasks -> {Nil} \cup AppTask]
      /\ task'[0] # Nil /\ task'[0].op = "site" /\ task'[0].app = n /\ task'[0].port = p /\ task'[0].id = task[0].id
      /\ \A o \in Tasks \ {0} : task'[o] = task[o]
  BY <1>1, <1>a, <1>2, TaskGoes DEF AppOps
<1>4. HandlerAt(n) /\ task[0].id = 0 /\ appRow[n] = Nil /\ dir[n] # Nil /\ p \in Ports /\ Foreign(n)
      /\ (\A m \in AppNames : appRow[m] # Nil => appRow[m].port # p)
  BY <1>1, <1>a, Zenon DEF HandlerRight, HandlerAt
<1>5. /\ running' \in [AppNames -> {Nil} \cup Checkout]
      /\ \A m \in AppNames : running'[m] \in {running[m], dir[m]}
  BY <1>1, <1>2 DEF AppsTypes
<1>6. unit'[n] = p /\ (\A m \in AppNames \ {n} : unit'[m] = unit[m]) /\ unit' \in [AppNames -> {Nil} \cup Nat]
  BY <1>1, <1>2 DEF AppsTypes
<1>7. AppsTypes'
  BY <1>2, <1>3, <1>5, <1>6 DEF AppsTypes
<1>8. AppFlags'
  BY <1>2, Zenon DEF AppFlags
<1>9. AppsWired'
  BY <1>2, <1>4, <1>6, Zenon DEF AppsWired
<1>10. FreeNames'
  BY <1>2, <1>4, <1>6, Zenon DEF FreeNames, Foreign
<1>t. ThreadsDeploy'
  BY <1>3 DEF ThreadsDeploy
<1>11. HandlerRight'
  <2>1. Foreign(n)'
    BY <1>2, <1>4, Zenon DEF Foreign
  <2>2. HandlerAt(n)'
    BY <1>2, <1>3, <1>4, <1>6, <2>1 DEF HandlerAt
  <2> QED BY <1>3, <2>2 DEF HandlerRight, HandlerAt, Foreign
<1>12. DeploysRight'
  <2> SUFFICES ASSUME NEW m \in AppNames PROVE DeployAt(m)'
    BY DEF DeploysRight
  <2>1. DeployAt(m) /\ dir'[m] = dir[m] /\ cut'[m] = cut[m] /\ raced'[m] = raced[m]
    BY <1>2, Zenon DEF DeploysRight
  <2>2. \A t \in Tasks : Busy(t, m, {"deps", "pip"})' => task'[t] = task[t]
    BY <1>1, <1>3 DEF Busy
  <2>3. \A t \in Tasks : Busy(t, m, Deploying) => task'[t] = task[t]
    BY <1>1, <1>3 DEF Busy, Deploying
  <2>4. ~Making(m)
    BY <1>1 DEF Making, Busy
  <2> QED BY <1>5, <2>1, <2>2, <2>3, <2>4, DeployFrame
<1> QED BY <1>t, <1>7, <1>8, <1>9, <1>10, <1>11, <1>12

LEMMA HandlerTask ==
  ASSUME AppsTypes, NEW t \in Tasks, NEW what, AtStep(t, what)
  PROVE  task[t] # Nil /\ task[t].op = what /\ task[t].app \in AppNames /\ task[t].port \in Nat
  BY TaskIsRow DEF AtStep, Idle, AppTask

LEMMA CreateProxyStep ==
  ASSUME AppsInv, CreateProxy
  PROVE  AppsInv'
<1> USE DEF AppsInv, WiringInv
<1>1. task[0] # Nil /\ task[0].op = "site" /\ 0 \in Tasks
  BY HandlerTask, ZeroTask DEF CreateProxy
<1>2. PICK n \in AppNames, p \in Nat : n = task[0].app /\ p = task[0].port
  BY HandlerTask, ZeroTask DEF CreateProxy
<1>3. /\ site' = IF site[n] = Nil THEN [site EXCEPT ![n] = p] ELSE site
      /\ Goes(0, "row")
      /\ UNCHANGED <<head, appRow, appId, dir, unit, running, cut, raced, dying, stale>>
  BY <1>2 DEF CreateProxy
<1>4. /\ task' \in [Tasks -> {Nil} \cup AppTask]
      /\ task'[0] # Nil /\ task'[0].op = "row" /\ task'[0].app = n /\ task'[0].port = p /\ task'[0].id = task[0].id
      /\ \A o \in Tasks \ {0} : task'[o] = task[o]
  BY <1>1, <1>2, <1>3, TaskGoes DEF AppOps
<1>5. /\ task[0].id = 0 /\ appRow[n] = Nil /\ dir[n] # Nil /\ p \in Ports /\ Foreign(n) /\ unit[n] = p
      /\ (\A m \in AppNames : appRow[m] # Nil => appRow[m].port # p)
  BY <1>1, <1>2, Zenon DEF HandlerRight, HandlerAt
<1>6. /\ site' \in [AppNames -> {Nil} \cup Nat] /\ (\A m \in AppNames \ {n} : site'[m] = site[m])
      /\ site'[n] = IF site[n] = Nil THEN p ELSE site[n]
  BY <1>3 DEF AppsTypes
<1>7. AppsTypes'
  BY <1>3, <1>4, <1>6 DEF AppsTypes
<1>8. AppFlags'
  BY <1>3, Zenon DEF AppFlags
<1>9. AppsWired'
  BY <1>3, <1>5, <1>6, Zenon DEF AppsWired
<1>10. FreeNames'
  BY <1>3, <1>5, <1>6, Zenon DEF FreeNames, Foreign
<1>t. ThreadsDeploy'
  BY <1>4 DEF ThreadsDeploy
<1>11. HandlerRight'
  <2>1. site'[n] \in {Nil, 0, p} \/ stale'[n]
    BY <1>3, <1>5, <1>6, Zenon DEF Foreign
  <2>2. HandlerAt(n)'
    BY <1>3, <1>4, <1>5, <2>1 DEF HandlerAt
  <2> QED BY <1>4, <2>2 DEF HandlerRight, HandlerAt, Foreign
<1>12. DeploysRight'
  <2> SUFFICES ASSUME NEW m \in AppNames PROVE DeployAt(m)'
    BY DEF DeploysRight
  <2>1. DeployAt(m) /\ dir'[m] = dir[m] /\ cut'[m] = cut[m] /\ raced'[m] = raced[m] /\ running'[m] = running[m]
    BY <1>3, Zenon DEF DeploysRight
  <2>2. \A t \in Tasks : Busy(t, m, {"deps", "pip"})' => task'[t] = task[t]
    BY <1>1, <1>4 DEF Busy
  <2>3. \A t \in Tasks : Busy(t, m, Deploying) => task'[t] = task[t]
    BY <1>1, <1>4 DEF Busy, Deploying
  <2> QED BY <2>1, <2>2, <2>3, DeployFrame
<1> QED BY <1>t, <1>7, <1>8, <1>9, <1>10, <1>11, <1>12

LEMMA InsertAppStep ==
  ASSUME AppsInv, InsertApp
  PROVE  AppsInv'
<1> USE DEF AppsInv, WiringInv
<1>1. task[0] # Nil /\ task[0].op = "row" /\ 0 \in Tasks
  BY HandlerTask, ZeroTask DEF InsertApp
<1>2. PICK n \in AppNames, p \in Nat : n = task[0].app /\ p = task[0].port
  BY HandlerTask, ZeroTask DEF InsertApp
<1> DEFINE w == [id |-> appId + 1, port |-> p]
<1>3. /\ appId' = appId + 1 /\ appRow' = [appRow EXCEPT ![n] = w]
      /\ Ends(0)
      /\ UNCHANGED <<head, dir, unit, running, site, cut, raced, dying, stale>>
  BY <1>2 DEF InsertApp
<1>4. /\ task' \in [Tasks -> {Nil} \cup AppTask]
      /\ task'[0] = Nil
      /\ \A o \in Tasks \ {0} : task'[o] = task[o]
  BY <1>1, <1>3, TaskEnds
<1>5. /\ appRow[n] = Nil /\ dir[n] # Nil /\ p \in Ports /\ unit[n] = p
      /\ site[n] \in {Nil, 0, p} \/ stale[n]
      /\ \A m \in AppNames : appRow[m] # Nil => appRow[m].port # p
  BY <1>1, <1>2, Zenon DEF HandlerRight, HandlerAt
<1>6. w \in AppRecord /\ w.port = p /\ w # Nil
  <2>1. w \in AppRecord /\ w.port = p
    BY <1>5 DEF AppsTypes, AppRecord
  <2> HIDE DEF w
  <2> QED BY <2>1, AppsAssumption
<1> HIDE DEF w
<1>7. appRow' \in [AppNames -> {Nil} \cup AppRecord] /\ appRow'[n] = w /\ \A m \in AppNames \ {n} : appRow'[m] = appRow[m]
  BY <1>3, <1>6 DEF AppsTypes
<1>8. AppsTypes'
  BY <1>3, <1>4, <1>7 DEF AppsTypes
<1>9. AppFlags'
  BY <1>3, Zenon DEF AppFlags
<1>10. AppsWired'
  <2> SUFFICES ASSUME NEW k \in AppNames, appRow'[k] # Nil, ~dying'[k]
               PROVE  /\ unit'[k] = appRow'[k].port
                      /\ site'[k] \in {Nil, 0, appRow'[k].port} \/ stale'[k]
                      /\ \A m \in AppNames \ {k} : appRow'[m] # Nil => appRow'[m].port # appRow'[k].port
    BY Zenon DEF AppsWired
  <2>1. CASE k = n
    BY <1>3, <1>5, <1>6, <1>7, <2>1, Zenon
  <2>2. CASE k # n
    BY <1>3, <1>5, <1>6, <1>7, <2>2, Zenon DEF AppsWired
  <2> QED BY <2>1, <2>2
<1>11. FreeNames'
  BY <1>3, Zenon DEF FreeNames, Foreign
<1>t. ThreadsDeploy'
  BY <1>4 DEF ThreadsDeploy
<1>12. HandlerRight'
  BY <1>4, Zenon DEF HandlerRight
<1>13. DeploysRight'
  <2> SUFFICES ASSUME NEW m \in AppNames PROVE DeployAt(m)'
    BY DEF DeploysRight
  <2>1. DeployAt(m) /\ dir'[m] = dir[m] /\ cut'[m] = cut[m] /\ raced'[m] = raced[m] /\ running'[m] = running[m]
    BY <1>3, Zenon DEF DeploysRight
  <2>2. \A t \in Tasks : Busy(t, m, {"deps", "pip"})' => task'[t] = task[t]
    BY <1>1, <1>4 DEF Busy
  <2>3. \A t \in Tasks : Busy(t, m, Deploying) => task'[t] = task[t]
    BY <1>1, <1>4 DEF Busy, Deploying
  <2> QED BY <2>1, <2>2, <2>3, DeployFrame
<1> QED BY <1>t, <1>8, <1>9, <1>10, <1>11, <1>12, <1>13

LEMMA DeleteAppStep ==
  ASSUME AppsInv, NEW n \in AppNames, DeleteApp(n)
  PROVE  AppsInv'
<1> USE DEF AppsInv, WiringInv
<1> DEFINE w == [op |-> "rm", app |-> n, id |-> appRow[n].id, port |-> 0, read |-> 0]
<1>1. /\ task[0] = Nil /\ appRow[n] # Nil
      /\ task' = [task EXCEPT ![0] = w]
      /\ dying' = [dying EXCEPT ![n] = TRUE]
      /\ running' = [running EXCEPT ![n] = Nil]
      /\ UNCHANGED <<head, appRow, appId, dir, unit, site, cut, raced, stale>>
  BY DEF DeleteApp, Idle
<1>2. w \in AppTask /\ w # Nil /\ w.op = "rm" /\ w.app = n /\ w.id # 0
  <2>1. appRow[n].id \in Nat \ {0}
    BY <1>1 DEF AppsTypes, AppRecord
  <2>2. w \in AppTask /\ w.op = "rm" /\ w.app = n /\ w.id # 0
    BY <2>1 DEF AppTask, AppOps
  <2> HIDE DEF w
  <2> QED BY <2>2, AppsAssumption
<1> HIDE DEF w
<1>3. /\ task' \in [Tasks -> {Nil} \cup AppTask] /\ task'[0] = w /\ \A o \in Tasks \ {0} : task'[o] = task[o]
  BY <1>1, <1>2, ZeroTask DEF AppsTypes
<1>4. running' \in [AppNames -> {Nil} \cup Checkout] /\ \A m \in AppNames : running'[m] \in {running[m], Nil}
  BY <1>1 DEF AppsTypes
<1>5. dying' \in [AppNames -> BOOLEAN] /\ dying'[n] /\ \A m \in AppNames : dying[m] => dying'[m]
  BY <1>1, Zenon DEF AppFlags
<1>6. AppsTypes'
  BY <1>1, <1>3, <1>4 DEF AppsTypes
<1>7. AppFlags'
  BY <1>1, <1>5, Zenon DEF AppFlags
<1>8. AppsWired'
  BY <1>1, <1>5, Zenon DEF AppsWired
<1>9. FreeNames'
  BY <1>1, Zenon DEF FreeNames, Foreign
<1>t. ThreadsDeploy'
  BY <1>3 DEF ThreadsDeploy
<1>10. HandlerRight'
  <2>1. HandlerAt(n)'
    BY <1>1, <1>2, <1>3, <1>5 DEF HandlerAt
  <2> QED BY <1>2, <1>3, <2>1 DEF HandlerRight, HandlerAt, Foreign
<1>11. DeploysRight'
  <2> SUFFICES ASSUME NEW m \in AppNames PROVE DeployAt(m)'
    BY DEF DeploysRight
  <2>1. DeployAt(m) /\ dir'[m] = dir[m] /\ cut'[m] = cut[m] /\ raced'[m] = raced[m]
    BY <1>1, Zenon DEF DeploysRight
  <2>2. \A t \in Tasks : Busy(t, m, {"deps", "pip"})' => task'[t] = task[t]
    BY <1>1, <1>2, <1>3 DEF Busy
  <2>3. \A t \in Tasks : Busy(t, m, Deploying) => task'[t] = task[t]
    BY <1>1, <1>3 DEF Busy, Deploying
  <2> QED BY <1>4, <2>1, <2>2, <2>3, DeployFrame
<1> QED BY <1>t, <1>6, <1>7, <1>8, <1>9, <1>10, <1>11

LEMMA DeleteUnitStep ==
  ASSUME AppsInv, DeleteUnit
  PROVE  AppsInv'
<1> USE DEF AppsInv, WiringInv
<1>1. task[0] # Nil /\ task[0].op = "rm" /\ 0 \in Tasks
  BY HandlerTask, ZeroTask DEF DeleteUnit
<1>2. PICK n \in AppNames : n = task[0].app
  BY HandlerTask, ZeroTask DEF DeleteUnit
<1>3. /\ unit' = [unit EXCEPT ![n] = Nil]
      /\ Goes(0, "unsite")
      /\ UNCHANGED <<head, appRow, appId, dir, running, site, cut, raced, dying, stale>>
  BY <1>2 DEF DeleteUnit
<1>4. /\ task' \in [Tasks -> {Nil} \cup AppTask]
      /\ task'[0] # Nil /\ task'[0].op = "unsite" /\ task'[0].app = n /\ task'[0].id = task[0].id
      /\ \A o \in Tasks \ {0} : task'[o] = task[o]
  BY <1>1, <1>2, <1>3, TaskGoes DEF AppOps
<1>5. task[0].id # 0 /\ dying[n] /\ appRow[n] # Nil
  BY <1>1, <1>2, Zenon DEF HandlerRight, HandlerAt
<1>6. unit' \in [AppNames -> {Nil} \cup Nat] /\ unit'[n] = Nil /\ \A m \in AppNames \ {n} : unit'[m] = unit[m]
  BY <1>3 DEF AppsTypes
<1>7. AppsTypes'
  BY <1>3, <1>4, <1>6 DEF AppsTypes
<1>8. AppFlags'
  BY <1>3, Zenon DEF AppFlags
<1>9. AppsWired'
  BY <1>3, <1>5, <1>6, Zenon DEF AppsWired
<1>10. FreeNames'
  BY <1>3, <1>6, Zenon DEF FreeNames, Foreign
<1>t. ThreadsDeploy'
  BY <1>4 DEF ThreadsDeploy
<1>11. HandlerRight'
  <2>1. HandlerAt(n)'
    BY <1>3, <1>4, <1>5, <1>6 DEF HandlerAt
  <2> QED BY <1>4, <2>1 DEF HandlerRight, HandlerAt, Foreign
<1>12. DeploysRight'
  <2> SUFFICES ASSUME NEW m \in AppNames PROVE DeployAt(m)'
    BY DEF DeploysRight
  <2>1. DeployAt(m) /\ dir'[m] = dir[m] /\ cut'[m] = cut[m] /\ raced'[m] = raced[m] /\ running'[m] = running[m]
    BY <1>3, Zenon DEF DeploysRight
  <2>2. \A t \in Tasks : Busy(t, m, {"deps", "pip"})' => task'[t] = task[t]
    BY <1>1, <1>4 DEF Busy
  <2>3. \A t \in Tasks : Busy(t, m, Deploying) => task'[t] = task[t]
    BY <1>1, <1>4 DEF Busy, Deploying
  <2> QED BY <2>1, <2>2, <2>3, DeployFrame
<1> QED BY <1>t, <1>7, <1>8, <1>9, <1>10, <1>11, <1>12

LEMMA DeleteProxyStep ==
  ASSUME AppsInv, NEW deleted \in BOOLEAN, DeleteProxy(deleted)
  PROVE  AppsInv'
<1> USE DEF AppsInv, WiringInv
<1>1. task[0] # Nil /\ task[0].op = "unsite" /\ 0 \in Tasks
  BY HandlerTask, ZeroTask DEF DeleteProxy
<1>2. PICK n \in AppNames : n = task[0].app
  BY HandlerTask, ZeroTask DEF DeleteProxy
<1>3. /\ site' = IF deleted THEN [site EXCEPT ![n] = Nil] ELSE site
      /\ stale' = [stale EXCEPT ![n] = ~deleted]
      /\ Goes(0, "unrow")
      /\ UNCHANGED <<head, appRow, appId, dir, unit, running, cut, raced, dying>>
  BY <1>2, Zenon DEF DeleteProxy
<1>4. /\ task' \in [Tasks -> {Nil} \cup AppTask]
      /\ task'[0] # Nil /\ task'[0].op = "unrow" /\ task'[0].app = n /\ task'[0].id = task[0].id
      /\ \A o \in Tasks \ {0} : task'[o] = task[o]
  BY <1>1, <1>2, <1>3, TaskGoes DEF AppOps
<1>5. task[0].id # 0 /\ dying[n] /\ appRow[n] # Nil /\ unit[n] = Nil
  BY <1>1, <1>2, Zenon DEF HandlerRight, HandlerAt
<1>6. /\ site' \in [AppNames -> {Nil} \cup Nat] /\ (\A m \in AppNames \ {n} : site'[m] = site[m])
      /\ deleted => site'[n] = Nil
  BY <1>3 DEF AppsTypes
<1>7. /\ stale' \in [AppNames -> BOOLEAN] /\ (\A m \in AppNames \ {n} : stale'[m] = stale[m])
      /\ ~deleted => stale'[n]
  BY <1>3, Zenon DEF AppFlags
<1>8. AppsTypes'
  BY <1>3, <1>4, <1>6 DEF AppsTypes
<1>9. AppFlags'
  BY <1>3, <1>7, Zenon DEF AppFlags
<1>10. AppsWired'
  BY <1>3, <1>5, <1>6, <1>7, Zenon DEF AppsWired
<1>11. Foreign(n)'
  BY <1>6, <1>7, Zenon DEF Foreign
<1>12. FreeNames'
  <2> SUFFICES ASSUME NEW m \in AppNames, dir[m] = Nil PROVE unit[m] = Nil /\ Foreign(m)'
    BY <1>3, Zenon DEF FreeNames
  <2> QED BY <1>6, <1>7, <1>11, Zenon DEF FreeNames, Foreign
<1>t. ThreadsDeploy'
  BY <1>4 DEF ThreadsDeploy
<1>13. HandlerRight'
  <2>1. HandlerAt(n)'
    BY <1>3, <1>4, <1>5, <1>11 DEF HandlerAt
  <2> QED BY <1>4, <2>1 DEF HandlerRight, HandlerAt, Foreign
<1>14. DeploysRight'
  <2> SUFFICES ASSUME NEW m \in AppNames PROVE DeployAt(m)'
    BY DEF DeploysRight
  <2>1. DeployAt(m) /\ dir'[m] = dir[m] /\ cut'[m] = cut[m] /\ raced'[m] = raced[m] /\ running'[m] = running[m]
    BY <1>3, Zenon DEF DeploysRight
  <2>2. \A t \in Tasks : Busy(t, m, {"deps", "pip"})' => task'[t] = task[t]
    BY <1>1, <1>4 DEF Busy
  <2>3. \A t \in Tasks : Busy(t, m, Deploying) => task'[t] = task[t]
    BY <1>1, <1>4 DEF Busy, Deploying
  <2> QED BY <2>1, <2>2, <2>3, DeployFrame
<1> QED BY <1>t, <1>8, <1>9, <1>10, <1>12, <1>13, <1>14

LEMMA DeleteRowStep ==
  ASSUME AppsInv, NEW files \in BOOLEAN, DeleteRow(files)
  PROVE  AppsInv'
<1> USE DEF AppsInv, WiringInv
<1>1. task[0] # Nil /\ task[0].op = "unrow" /\ 0 \in Tasks
  BY HandlerTask, ZeroTask DEF DeleteRow
<1>2. PICK n \in AppNames : n = task[0].app
  BY HandlerTask, ZeroTask DEF DeleteRow
<1>3. /\ dir' = IF files THEN [dir EXCEPT ![n] = Nil] ELSE dir
      /\ appRow' = [appRow EXCEPT ![n] = Nil]
      /\ dying' = [dying EXCEPT ![n] = FALSE]
      /\ Ends(0)
      /\ UNCHANGED <<head, appId, unit, running, site, cut, raced, stale>>
  BY <1>2, Zenon DEF DeleteRow
<1>4. /\ task' \in [Tasks -> {Nil} \cup AppTask]
      /\ task'[0] = Nil
      /\ \A o \in Tasks \ {0} : task'[o] = task[o]
  BY <1>1, <1>3, TaskEnds
<1>5. Foreign(n) /\ unit[n] = Nil
  BY <1>1, <1>2, Zenon DEF HandlerRight, HandlerAt
<1>6. /\ dir' \in [AppNames -> {Nil} \cup Checkout]
      /\ \A m \in AppNames : dir'[m] \in {dir[m], Nil} /\ (m # n => dir'[m] = dir[m])
  BY <1>3 DEF AppsTypes
<1>7. /\ appRow' \in [AppNames -> {Nil} \cup AppRecord] /\ appRow'[n] = Nil
      /\ \A m \in AppNames \ {n} : appRow'[m] = appRow[m]
  BY <1>3 DEF AppsTypes
<1>8. /\ dying' \in [AppNames -> BOOLEAN] /\ \A m \in AppNames \ {n} : dying'[m] = dying[m]
  BY <1>3, Zenon DEF AppFlags
<1>9. AppsTypes'
  BY <1>3, <1>4, <1>6, <1>7 DEF AppsTypes
<1>10. AppFlags'
  BY <1>3, <1>8, Zenon DEF AppFlags
<1>11. AppsWired'
  BY <1>3, <1>7, <1>8, Zenon DEF AppsWired
<1>12. FreeNames'
  <2> SUFFICES ASSUME NEW m \in AppNames, dir'[m] = Nil PROVE unit[m] = Nil /\ Foreign(m)'
    BY <1>3, Zenon DEF FreeNames
  <2> QED BY <1>3, <1>5, <1>6, Zenon DEF FreeNames, Foreign
<1>t. ThreadsDeploy'
  BY <1>4 DEF ThreadsDeploy
<1>13. HandlerRight'
  BY <1>4, Zenon DEF HandlerRight
<1>14. DeploysRight'
  <2> SUFFICES ASSUME NEW m \in AppNames PROVE DeployAt(m)'
    BY DEF DeploysRight
  <2>1. DeployAt(m) /\ cut'[m] = cut[m] /\ raced'[m] = raced[m] /\ running'[m] = running[m]
    BY <1>3, Zenon DEF DeploysRight
  <2>2. \A t \in Tasks : Busy(t, m, {"deps", "pip"})' => task'[t] = task[t]
    BY <1>1, <1>4 DEF Busy
  <2>3. \A t \in Tasks : Busy(t, m, Deploying) => task'[t] = task[t]
    BY <1>1, <1>4 DEF Busy, Deploying
  <2> QED BY <1>6, <2>1, <2>2, <2>3, DeployFrame
<1> QED BY <1>t, <1>9, <1>10, <1>11, <1>12, <1>13, <1>14

LEMMA SiteByHandStep ==
  ASSUME AppsInv, NEW n \in AppNames, SiteByHand(n)
  PROVE  AppsInv'
<1> USE DEF AppsInv, WiringInv
<1>1. /\ task[0] = Nil
      /\ site' = [site EXCEPT ![n] = IF site[n] = Nil THEN 0 ELSE Nil]
      /\ stale' = [stale EXCEPT ![n] = FALSE]
      /\ UNCHANGED <<head, appRow, appId, dir, unit, running, task, cut, raced, dying>>
  BY DEF SiteByHand, Idle
<1>2. /\ site' \in [AppNames -> {Nil} \cup Nat] /\ (\A m \in AppNames \ {n} : site'[m] = site[m])
      /\ site'[n] \in {Nil, 0}
  BY <1>1 DEF AppsTypes
<1>3. stale' \in [AppNames -> BOOLEAN] /\ \A m \in AppNames \ {n} : stale'[m] = stale[m]
  BY <1>1, Zenon DEF AppFlags
<1>4. AppsTypes'
  BY <1>1, <1>2 DEF AppsTypes
<1>5. AppFlags'
  BY <1>1, <1>3, Zenon DEF AppFlags
<1>6. AppsWired'
  BY <1>1, <1>2, <1>3, Zenon DEF AppsWired
<1>7. FreeNames'
  BY <1>1, <1>2, <1>3, Zenon DEF FreeNames, Foreign
<1>t. ThreadsDeploy'
  BY <1>1 DEF ThreadsDeploy
<1>8. HandlerRight'
  BY <1>1, Zenon DEF HandlerRight
<1>9. DeploysRight'
  BY <1>1, Zenon DEF DeploysRight, DeployAt, Installed, Started, Fresh, Apart, Making, InFlight, Busy
<1> QED BY <1>t, <1>4, <1>5, <1>6, <1>7, <1>8, <1>9

\* Steps that leave files, rows and flags alone, and no deploy at work.
LEMMA AppsQuiet ==
  ASSUME AppsInv, UNCHANGED <<appRow, appId, dir, unit, site, cut, raced, dying, stale>>, head' \in Nat,
         running' \in [AppNames -> {Nil} \cup Checkout],
         \A n \in AppNames : /\ running'[n] \in {running[n], Nil, dir[n]}
                             /\ running[n] # Nil \/ running'[n] = Nil \/ task[0] = Nil,
         task' \in [Tasks -> {Nil} \cup AppTask],
         \A t \in Tasks : \/ task'[t] = task[t]
                          \/ /\ task[t] # Nil => task[t].op \notin Deploying
                             /\ task'[t] = Nil \/ (task'[t].id # 0 /\ task'[t].op \in {"get", "pull"})
  PROVE  AppsInv'
<1> USE DEF AppsInv
<1>1. AppsTypes'
  BY DEF AppsTypes
<1>2. AppFlags'
  BY Zenon DEF AppFlags
<1>3. WiringInv'
  <2>1. task[0] # Nil => task[0].app \in AppNames
    BY TaskIsRow, ZeroTask DEF AppTask
  <2>2. \/ task'[0] = task[0]
        \/ task'[0] = Nil
        \/ task'[0].id # 0 /\ task'[0].op \in {"get", "pull", "deps", "pip", "restart"}
    BY ZeroTask
  <2>3. \A t \in Tasks \ {0} : task'[t] # Nil => (task[t] # Nil /\ task'[t].id = task[t].id) \/ task'[t].id # 0
    OBVIOUS
  <2> QED BY <2>1, <2>2, <2>3, WiringFrame
<1>4. DeploysRight'
  <2> SUFFICES ASSUME NEW m \in AppNames PROVE DeployAt(m)'
    BY DEF DeploysRight
  <2>1. DeployAt(m) /\ dir'[m] = dir[m] /\ cut'[m] = cut[m] /\ raced'[m] = raced[m]
    BY Zenon DEF DeploysRight
  <2>2. \A t \in Tasks : Busy(t, m, {"deps", "pip"})' => task'[t] = task[t]
    BY DEF Busy
  <2>3. \A t \in Tasks : Busy(t, m, Deploying) => task'[t] = task[t]
    BY DEF Busy
  <2>4. Making(m) => task[0] # Nil
    BY DEF Making, Busy
  <2> QED BY <2>1, <2>2, <2>3, <2>4, DeployFrame
<1> QED BY <1>1, <1>2, <1>3, <1>4

\* A task that deploys has read the id of a row.
LEMMA DeployerId ==
  ASSUME AppsInv, NEW t \in Tasks, task[t] # Nil, task[t].op \in {"get", "pull", "restart"}
  PROVE  task[t].id # 0
<1>1. CASE t = 0
  BY <1>1 DEF AppsInv, WiringInv, HandlerRight, HandlerAt
<1>2. CASE t # 0
  BY <1>2 DEF AppsInv, WiringInv, ThreadsDeploy
<1> QED BY <1>1, <1>2

LEMMA AppsQuietSteps ==
  ASSUME AppsInv,
         \/ \E t \in Tasks, n \in AppNames : StartDeploy(t, n)
         \/ \E t \in Tasks : DeployGet(t) \/ DeployPull(t, FALSE)
         \/ \E n \in AppNames, action \in {"start", "stop", "restart"} : Control(n, action)
         \/ \E n \in AppNames : Respawn(n)
         \/ Push \/ UNCHANGED appsVars
  PROVE  AppsInv'
<1> USE DEF AppsInv
<1>1. /\ head \in Nat /\ task \in [Tasks -> {Nil} \cup AppTask] /\ running \in [AppNames -> {Nil} \cup Checkout]
      /\ dir \in [AppNames -> {Nil} \cup Checkout]
  BY DEF AppsTypes
<1>2. ASSUME NEW t \in Tasks, NEW n \in AppNames, StartDeploy(t, n) PROVE AppsInv'
  <2> DEFINE w == [op |-> "get", app |-> n, id |-> appRow[n].id, port |-> 0, read |-> 0]
  <2>1. /\ task[t] = Nil /\ task' = [task EXCEPT ![t] = w] /\ appRow[n] # Nil
        /\ UNCHANGED <<head, appRow, appId, dir, unit, running, site, cut, raced, dying, stale>>
    BY <1>2 DEF StartDeploy, Idle
  <2>2. appRow[n].id \in Nat \ {0}
    BY <2>1 DEF AppsTypes, AppRecord
  <2>3. w \in AppTask /\ w.op = "get" /\ w.id # 0
    BY <2>2 DEF AppTask, AppOps
  <2> HIDE DEF w
  <2>4. task' \in [Tasks -> {Nil} \cup AppTask] /\ task'[t] = w /\ \A o \in Tasks \ {t} : task'[o] = task[o]
    BY <1>1, <2>1, <2>3
  <2>5. \A o \in Tasks : \/ task'[o] = task[o]
                         \/ /\ task[o] # Nil => task[o].op \notin Deploying
                            /\ task'[o] = Nil \/ (task'[o].id # 0 /\ task'[o].op \in {"get", "pull"})
    BY <2>1, <2>3, <2>4
  <2> QED BY <1>1, <2>1, <2>4, <2>5, AppsQuiet
<1>3. ASSUME NEW t \in Tasks, DeployGet(t) \/ DeployPull(t, FALSE) PROVE AppsInv'
  <2>0. task[t] # Nil /\ task[t].op \in {"get", "pull"} /\ task[t].app \in AppNames
    BY <1>3, HandlerTask DEF DeployGet, DeployPull
  <2>1. task[t] # Nil /\ task[t].op \in {"get", "pull"} /\ task[t].app \in AppNames /\ task[t].id # 0
    BY <2>0, DeployerId
  <2>2. Goes(t, "pull") \/ Ends(t)
    BY <1>3 DEF DeployGet, DeployPull
  <2>3. /\ task' \in [Tasks -> {Nil} \cup AppTask] /\ (\A o \in Tasks \ {t} : task'[o] = task[o])
        /\ task'[t] = Nil \/ (task'[t].id # 0 /\ task'[t].op = "pull")
    BY <2>1, <2>2, TaskGoes, TaskEnds DEF AppOps
  <2>4. UNCHANGED <<head, appRow, appId, dir, unit, running, site, dying, stale>>
    BY <1>3 DEF DeployGet, DeployPull
  <2>5. cut' = cut /\ raced' = raced
    <3>1. CASE DeployGet(t)
      BY <3>1 DEF DeployGet
    <3>2. CASE DeployPull(t, FALSE)
      <4>1. cut' = [cut EXCEPT ![task[t].app] = cut[task[t].app] /\ ~FALSE]
        BY <3>2, Zenon DEF DeployPull
      <4>2. cut[task[t].app] \in BOOLEAN
        BY <2>1, Zenon DEF AppFlags
      <4>3. (cut[task[t].app] /\ ~FALSE) = cut[task[t].app]
        BY <4>2
      <4>4. cut' = [cut EXCEPT ![task[t].app] = cut[task[t].app]]
        BY <4>1, <4>3, Zenon
      <4>5. raced' = raced
        BY <3>2 DEF DeployPull
      <4> QED BY <2>1, <4>4, <4>5 DEF AppFlags
    <3> QED BY <1>3, <3>1, <3>2
  <2>6. \A o \in Tasks : \/ task'[o] = task[o]
                         \/ /\ task[o] # Nil => task[o].op \notin Deploying
                            /\ task'[o] = Nil \/ (task'[o].id # 0 /\ task'[o].op \in {"get", "pull"})
    BY <2>1, <2>3 DEF Deploying
  <2> QED BY <1>1, <2>3, <2>4, <2>5, <2>6, AppsQuiet
<1>4. ASSUME NEW n \in AppNames, NEW action \in {"start", "stop", "restart"}, Control(n, action) PROVE AppsInv'
  <2>1. \E x \in {running[n], Nil, dir[n]} : running' = [running EXCEPT ![n] = x]
    <3>1. CASE action = "stop"
      BY <1>4, <3>1 DEF Control
    <3>2. CASE action = "start" /\ running[n] # Nil
      BY <1>4, <3>2 DEF Control
    <3>3. CASE action = "start" /\ running[n] = Nil
      BY <1>4, <3>3 DEF Control
    <3>4. CASE action = "restart"
      BY <1>4, <3>4 DEF Control
    <3> QED BY <3>1, <3>2, <3>3, <3>4
  <2>2. /\ running' \in [AppNames -> {Nil} \cup Checkout]
        /\ \A m \in AppNames : running'[m] \in {running[m], Nil, dir[m]}
        /\ task[0] = Nil
    BY <1>1, <1>4, <2>1 DEF Control, Idle
  <2>3. UNCHANGED <<head, appRow, appId, dir, unit, site, task, cut, raced, dying, stale>>
    BY <1>4 DEF Control
  <2> QED BY <1>1, <2>2, <2>3, AppsQuiet
<1>5. ASSUME NEW n \in AppNames, Respawn(n) PROVE AppsInv'
  <2>1. /\ running' \in [AppNames -> {Nil} \cup Checkout]
        /\ \A m \in AppNames : running'[m] \in {running[m], Nil, dir[m]} /\ (running[m] # Nil \/ running'[m] = Nil)
    BY <1>1, <1>5 DEF Respawn
  <2>2. UNCHANGED <<head, appRow, appId, dir, unit, site, task, cut, raced, dying, stale>>
    BY <1>5 DEF Respawn
  <2> QED BY <1>1, <2>1, <2>2, AppsQuiet
<1>6. CASE Push
  BY <1>1, <1>6, AppsQuiet DEF Push
<1>7. CASE UNCHANGED appsVars
  BY <1>1, <1>7, AppsQuiet DEF appsVars
<1> QED BY <1>2, <1>3, <1>4, <1>5, <1>6, <1>7

\* What the steps of a deploy share.
LEMMA DeployWiring ==
  ASSUME AppsInv, NEW t \in Tasks, task[t] # Nil,
         UNCHANGED <<appRow, unit, site, stale, dying>>,
         \A n \in AppNames : dir'[n] = Nil <=> dir[n] = Nil,
         \A o \in Tasks \ {t} : task'[o] = task[o],
         \/ task'[t] = Nil
         \/ /\ task'[t].id = task[t].id /\ task'[t].app = task[t].app /\ task'[t].port = task[t].port
            /\ \/ task[t].id # 0 /\ task'[t].op \in Deploying
               \/ task[t].id = 0 /\ task[t].op \in {"deps", "pip"} /\ task'[t].op \in {"pip", "unit"}
  PROVE  WiringInv'
<1> USE DEF AppsInv
<1>1. task[0] # Nil => task[0].app \in AppNames
  BY TaskIsRow, ZeroTask DEF AppTask
<1>2. \A o \in Tasks \ {0} : task'[o] # Nil => (task[o] # Nil /\ task'[o].id = task[o].id) \/ task'[o].id # 0
  <2> SUFFICES ASSUME NEW o \in Tasks \ {0}, task'[o] # Nil PROVE task[o] # Nil /\ task'[o].id = task[o].id
    OBVIOUS
  <2>1. CASE o = t
    BY <2>1
  <2>2. CASE o # t
    BY <2>2
  <2> QED BY <2>1, <2>2
<1>3. CASE t = 0
  <2>1. \/ task'[0] = Nil
        \/ task'[0].id # 0 /\ task'[0].op \in {"get", "pull", "deps", "pip", "restart"}
        \/ /\ task[0] # Nil /\ task[0].id = 0 /\ task[0].op \in {"deps", "pip"}
           /\ task'[0].id = 0 /\ task'[0].app = task[0].app /\ task'[0].port = task[0].port
           /\ task'[0].op \in {"pip", "unit"}
    BY <1>3 DEF Deploying
  <2> QED BY <1>1, <1>2, <2>1, WiringFrame
<1>4. CASE t # 0
  <2>1. task'[0] = task[0]
    BY <1>4, ZeroTask
  <2> QED BY <1>1, <1>2, <2>1, WiringFrame
<1> QED BY <1>3, <1>4

\* The deploys of the other apps.
LEMMA OtherDeploys ==
  ASSUME AppsInv, NEW t \in Tasks, task[t] # Nil, NEW m \in AppNames, m # task[t].app,
         dir'[m] = dir[m], cut'[m] = cut[m], raced'[m] = raced[m], running'[m] = running[m],
         task'[t] = Nil \/ task'[t].app = task[t].app,
         \A o \in Tasks \ {t} : task'[o] = task[o]
  PROVE  DeployAt(m)'
<1>1. DeployAt(m)
  BY DEF AppsInv, DeploysRight
<1>2. \A o \in Tasks : Busy(o, m, Deploying) => task'[o] = task[o]
  BY DEF Busy
<1>3. \A o \in Tasks : Busy(o, m, {"deps", "pip"})' => task'[o] = task[o]
  BY DEF Busy
<1> QED BY <1>1, <1>2, <1>3, DeployFrame

LEMMA DeployPullStep ==
  ASSUME AppsInv, NEW t \in Tasks, DeployPull(t, TRUE)
  PROVE  AppsInv'
<1> USE DEF AppsInv
<1>1. task[t] # Nil /\ task[t].op = "pull"
  BY HandlerTask DEF DeployPull
<1>2. PICK n \in AppNames : n = task[t].app
  BY HandlerTask DEF DeployPull
<1> DEFINE d == [dir[n] EXCEPT !.src = head]
<1>3. /\ dir[n] # Nil /\ dir' = [dir EXCEPT ![n] = d]
      /\ cut' = [cut EXCEPT ![n] = cut[n] /\ ~TRUE]
      /\ raced' = [raced EXCEPT ![n] = Overlaps(n, head)]
      /\ Goes(t, "deps")
      /\ UNCHANGED <<head, appRow, appId, unit, running, site, dying, stale>>
  BY <1>2, Zenon DEF DeployPull
<1>4. d \in Checkout /\ d # Nil /\ d.src = head
  <2>1. d \in Checkout /\ d.src = head
    BY <1>3 DEF AppsTypes, Checkout
  <2> HIDE DEF d
  <2> QED BY <2>1, AppsAssumption
<1> HIDE DEF d
<1>5. dir' \in [AppNames -> {Nil} \cup Checkout] /\ dir'[n] = d /\ \A m \in AppNames \ {n} : dir'[m] = dir[m]
  BY <1>3, <1>4 DEF AppsTypes
<1>6. /\ cut' \in [AppNames -> BOOLEAN] /\ raced' \in [AppNames -> BOOLEAN] /\ raced'[n] = Overlaps(n, head)
      /\ \A m \in AppNames \ {n} : cut'[m] = cut[m] /\ raced'[m] = raced[m]
  <2>1. Overlaps(n, head) \in BOOLEAN
    BY DEF Overlaps
  <2> HIDE DEF Overlaps
  <2> QED BY <1>3, <2>1, Zenon DEF AppFlags
<1>7. \A m \in AppNames : dir'[m] = Nil <=> dir[m] = Nil
  BY <1>3, <1>4, <1>5
<1>8. /\ task' \in [Tasks -> {Nil} \cup AppTask] /\ (\A o \in Tasks \ {t} : task'[o] = task[o])
      /\ task'[t] # Nil /\ task'[t].app = n /\ task'[t].op = "deps" /\ task'[t].id = task[t].id
      /\ task'[t].port = task[t].port /\ task[t].id # 0
  BY <1>1, <1>2, <1>3, TaskGoes, DeployerId DEF AppOps
<1>9. WiringInv'
  BY <1>1, <1>2, <1>3, <1>7, <1>8, DeployWiring DEF Deploying
<1>10. AppsTypes'
  BY <1>3, <1>5, <1>8 DEF AppsTypes
<1>11. AppFlags'
  BY <1>3, <1>6, Zenon DEF AppFlags
<1>12. DeploysRight'
  <2> SUFFICES ASSUME NEW m \in AppNames PROVE DeployAt(m)'
    BY DEF DeploysRight
  <2>1. CASE m = n
    <3>1. Busy(t, n, {"deps", "pip"})' /\ Busy(t, n, Deploying)'
      BY <1>8 DEF Busy, Deploying
    <3>2. InFlight(n, {"deps", "pip"})' /\ InFlight(n, Deploying)'
      BY <3>1 DEF InFlight
    <3>3. Installed(n)' /\ Started(n)'
      BY <3>2, Zenon DEF Installed, Started
    <3>4. Apart(n)'
      <4>1. Making(n)' => t # 0
        BY <1>8 DEF Making
      <4> QED BY <3>1, <4>1 DEF Apart
    <3>5. Fresh(n)'
      <4> SUFFICES ASSUME ~raced'[n], NEW o \in Tasks, Busy(o, n, {"pip"})'
                   PROVE  task'[o].read = dir'[n].src
        BY DEF Fresh
      <4>1. o # t
        BY <1>8 DEF Busy
      <4>2. task'[o] = task[o] /\ AtStep(o, "pip") /\ task[o].app = n
        BY <1>8, <4>1 DEF Busy, AtStep, Idle
      <4>3. task[o].read = head
        BY <1>6, <4>2 DEF Overlaps
      <4> QED BY <1>4, <1>5, <4>2, <4>3
    <3> QED BY <2>1, <3>3, <3>4, <3>5 DEF DeployAt
  <2>2. CASE m # n
    BY <1>1, <1>2, <1>3, <1>5, <1>6, <1>8, <2>2, OtherDeploys
  <2> QED BY <2>1, <2>2
<1> QED BY <1>9, <1>10, <1>11, <1>12

LEMMA PipBeginsStep ==
  ASSUME AppsInv, NEW t \in Tasks, PipBegins(t)
  PROVE  AppsInv'
<1> USE DEF AppsInv
<1>1. task[t] # Nil /\ task[t].op = "deps"
  BY HandlerTask DEF PipBegins
<1>2. PICK n \in AppNames : n = task[t].app
  BY HandlerTask DEF PipBegins
<1>3. UNCHANGED <<head, appRow, appId, dir, unit, running, site, cut, raced, dying, stale>>
  BY DEF PipBegins
<1>4. task[t].id = 0 => t = 0 /\ dir[n] # Nil
  <2>1. CASE t = 0
    BY <1>1, <1>2, <2>1 DEF WiringInv, HandlerRight, HandlerAt
  <2>2. CASE t # 0
    BY <1>1, <2>2 DEF WiringInv, ThreadsDeploy
  <2> QED BY <2>1, <2>2
<1>5. /\ task' \in [Tasks -> {Nil} \cup AppTask] /\ (\A o \in Tasks \ {t} : task'[o] = task[o])
      /\ task'[t] # Nil /\ task'[t].app = n /\ task'[t].id = task[t].id /\ task'[t].port = task[t].port
      /\ dir[n] = Nil => task'[t].op = "restart"
      /\ dir[n] # Nil => task'[t].op = "pip" /\ task'[t].read = dir[n].src
  <2>1. CASE dir[n] = Nil
    <3>1. Goes(t, "restart")
      BY <1>2, <2>1 DEF PipBegins, Goes
    <3> QED BY <1>1, <1>2, <2>1, <3>1, TaskGoes DEF AppOps
  <2>2. CASE dir[n] # Nil
    <3>1. dir[n].src \in Nat
      BY <2>2 DEF AppsTypes, Checkout
    <3>2. task' = [task EXCEPT ![t].op = "pip", ![t].read = dir[n].src]
      BY <1>2, <2>2 DEF PipBegins
    <3> QED BY <1>1, <1>2, <2>2, <3>1, <3>2, TaskReads
  <2> QED BY <2>1, <2>2
<1>6. WiringInv'
  BY <1>1, <1>2, <1>3, <1>4, <1>5, DeployWiring DEF Deploying
<1>7. AppsTypes'
  BY <1>3, <1>5 DEF AppsTypes
<1>8. AppFlags'
  BY <1>3, Zenon DEF AppFlags
<1>9. DeploysRight'
  <2> SUFFICES ASSUME NEW m \in AppNames PROVE DeployAt(m)'
    BY DEF DeploysRight
  <2>1. CASE m = n
    <3>1. DeployAt(n)
      BY DEF DeploysRight
    <3>2. \A o \in Tasks : Busy(o, n, Deploying) => Busy(o, n, Deploying)'
      BY <1>5 DEF Busy, Deploying
    <3>3. InFlight(n, Deploying) => InFlight(n, Deploying)'
      BY <3>2 DEF InFlight
    <3>4. dir[n] # Nil => InFlight(n, {"deps", "pip"})'
      BY <1>5 DEF InFlight, Busy
    <3>5. Installed(n)' /\ Started(n)'
      <4> HIDE DEF InFlight
      <4> QED BY <1>3, <3>1, <3>3, <3>4, Zenon DEF DeployAt, Installed, Started
    <3>6. Fresh(n)'
      <4> SUFFICES ASSUME dir[n] # Nil, ~raced[n], NEW o \in Tasks, Busy(o, n, {"pip"})'
                   PROVE  task'[o].read = dir[n].src
        BY <1>3 DEF Fresh
      <4>1. CASE o = t
        BY <1>5, <4>1
      <4>2. CASE o # t
        BY <1>5, <3>1, <4>2 DEF DeployAt, Fresh, Busy
      <4> QED BY <4>1, <4>2
    <3>7. Apart(n)'
      <4> SUFFICES ASSUME Making(n)', running[n] # Nil, ~cut[n]
                   PROVE  \E o \in Tasks \ {0} : Busy(o, n, Deploying)'
        BY <1>3 DEF Apart
      <4>1. Making(n)
        BY <1>1, <1>2, <1>5, ZeroTask DEF Making, Busy
      <4> QED BY <3>1, <3>2, <4>1 DEF DeployAt, Apart
    <3> QED BY <2>1, <3>5, <3>6, <3>7 DEF DeployAt
  <2>2. CASE m # n
    BY <1>1, <1>2, <1>3, <1>5, <2>2, OtherDeploys
  <2> QED BY <2>1, <2>2
<1> QED BY <1>6, <1>7, <1>8, <1>9

LEMMA PipEndsStep ==
  ASSUME AppsInv, NEW t \in Tasks, NEW builds \in BOOLEAN, PipEnds(t, builds)
  PROVE  AppsInv'
<1> USE DEF AppsInv
<1>1. task[t] # Nil /\ task[t].op = "pip"
  BY HandlerTask DEF PipEnds
<1>2. PICK n \in AppNames : n = task[t].app
  BY HandlerTask DEF PipEnds
<1> DEFINE d == [dir[n] EXCEPT !.deps = task[t].read]
<1>3. /\ dir' = IF builds /\ dir[n] # Nil THEN [dir EXCEPT ![n] = d] ELSE dir
      /\ cut' = [cut EXCEPT ![n] = cut[n] \/ ~builds]
      /\ IF builds THEN Goes(t, AfterPip(t)) ELSE Ends(t)
      /\ UNCHANGED <<head, appRow, appId, unit, running, site, raced, dying, stale>>
  BY <1>2, Zenon DEF PipEnds
<1>4. dir[n] # Nil => d \in Checkout /\ d # Nil /\ d.deps = task[t].read /\ d.src = dir[n].src
  <2> SUFFICES ASSUME dir[n] # Nil
               PROVE  d \in Checkout /\ d # Nil /\ d.deps = task[t].read /\ d.src = dir[n].src
    OBVIOUS
  <2>0. task[t].read \in Nat
    BY <1>1, TaskIsRow DEF AppTask
  <2>1. d \in Checkout /\ d.deps = task[t].read /\ d.src = dir[n].src
    BY <2>0 DEF AppsTypes, Checkout
  <2> HIDE DEF d
  <2> QED BY <2>1, AppsAssumption
<1> HIDE DEF d
<1>5. /\ dir' \in [AppNames -> {Nil} \cup Checkout] /\ (\A m \in AppNames \ {n} : dir'[m] = dir[m])
      /\ builds /\ dir[n] # Nil => dir'[n] = d
      /\ dir[n] = Nil => dir'[n] = Nil
      /\ ~builds => dir'[n] = dir[n]
  BY <1>3, <1>4 DEF AppsTypes
<1>6. /\ cut' \in [AppNames -> BOOLEAN] /\ (\A m \in AppNames \ {n} : cut'[m] = cut[m]) /\ (~builds => cut'[n])
      /\ builds => cut'[n] = cut[n]
  BY <1>3, Zenon DEF AppFlags
<1>7. /\ \A m \in AppNames : dir'[m] = Nil <=> dir[m] = Nil
      /\ dir[n] # Nil => dir'[n].src = dir[n].src
  BY <1>4, <1>5
<1>8. /\ task' \in [Tasks -> {Nil} \cup AppTask] /\ (\A o \in Tasks \ {t} : task'[o] = task[o])
      /\ ~builds => task'[t] = Nil
      /\ builds => /\ task'[t] # Nil /\ task'[t].app = n /\ task'[t].id = task[t].id /\ task'[t].port = task[t].port
                   /\ task'[t].op = AfterPip(t)
  <2>1. AfterPip(t) \in AppOps
    BY DEF AfterPip, AppOps
  <2>2. CASE builds
    BY <1>1, <1>2, <1>3, <2>1, <2>2, TaskGoes
  <2>3. CASE ~builds
    BY <1>3, <2>3, TaskEnds
  <2> QED BY <2>2, <2>3
<1>9. WiringInv'
  <2>1. CASE builds
    BY <1>1, <1>2, <1>3, <1>7, <1>8, <2>1, DeployWiring DEF Deploying, AfterPip
  <2>2. CASE ~builds
    BY <1>1, <1>3, <1>7, <1>8, <2>2, DeployWiring
  <2> QED BY <2>1, <2>2
<1>10. AppsTypes'
  BY <1>3, <1>5, <1>8 DEF AppsTypes
<1>11. AppFlags'
  BY <1>3, <1>6, Zenon DEF AppFlags
<1>12. DeploysRight'
  <2> SUFFICES ASSUME NEW m \in AppNames PROVE DeployAt(m)'
    BY DEF DeploysRight
  <2>1. CASE m = n
    <3>1. DeployAt(n)
      BY DEF DeploysRight
    <3>2. Fresh(n)'
      <4> SUFFICES ASSUME dir[n] # Nil, ~raced[n], NEW o \in Tasks, Busy(o, n, {"pip"})'
                   PROVE  task'[o].read = dir[n].src
        BY <1>3, <1>7 DEF Fresh
      <4>1. o # t
        BY <1>8 DEF Busy, AfterPip
      <4> QED BY <1>8, <3>1, <4>1 DEF DeployAt, Fresh, Busy
    <3>3. CASE ~builds
      BY <1>6, <2>1, <3>2, <3>3, Zenon DEF DeployAt, Installed, Started, Apart
    <3>4. CASE builds
      <4>1. Installed(n)'
        <5> SUFFICES ASSUME dir[n] # Nil, ~raced[n] PROVE dir'[n].deps = dir'[n].src
          BY <1>3, <1>7, Zenon DEF Installed
        <5>1. task[t].read = dir[n].src
          BY <1>1, <1>2, <3>1 DEF DeployAt, Fresh, Busy
        <5> QED BY <1>4, <1>5, <3>4, <5>1
      <4>2. \A o \in Tasks \ {0} : Busy(o, n, Deploying) => Busy(o, n, Deploying)'
        <5> SUFFICES ASSUME NEW o \in Tasks \ {0}, Busy(o, n, Deploying) PROVE Busy(o, n, Deploying)'
          OBVIOUS
        <5>1. CASE o = t
          <6>1. AfterPip(t) = "restart"
            BY <1>1, <5>1 DEF AfterPip, WiringInv, ThreadsDeploy
          <6> QED BY <1>8, <3>4, <5>1, <6>1 DEF Busy, Deploying
        <5>2. CASE o # t
          BY <1>8, <5>2 DEF Busy
        <5> QED BY <5>1, <5>2
      <4>3. Apart(n)'
        <5> SUFFICES ASSUME Making(n)', running[n] # Nil, ~cut[n]
                     PROVE  \E o \in Tasks \ {0} : Busy(o, n, Deploying)'
          BY <1>3, <1>6, <3>4 DEF Apart
        <5>1. t # 0
          BY <1>8, <3>4 DEF Making, Busy, AfterPip
        <5>2. Making(n)
          BY <1>8, <5>1, ZeroTask DEF Making, Busy
        <5> QED BY <3>1, <4>2, <5>2 DEF DeployAt, Apart
      <4>4. Started(n)'
        <5> SUFFICES ASSUME running[n] # Nil, ~cut[n] PROVE InFlight(n, Deploying)'
          BY <1>3, <1>6, <3>4, Zenon DEF Started
        <5>1. CASE task[t].id # 0
          <6>1. Busy(t, n, Deploying)'
            BY <1>8, <3>4, <5>1 DEF Busy, Deploying, AfterPip
          <6> QED BY <6>1 DEF InFlight
        <5>2. CASE task[t].id = 0
          <6>1. t = 0
            BY <1>1, <5>2 DEF WiringInv, ThreadsDeploy
          <6>2. Making(n)
            BY <1>1, <1>2, <5>2, <6>1 DEF Making, Busy
          <6> QED BY <3>1, <4>2, <6>2 DEF DeployAt, Apart, InFlight
        <5> QED BY <5>1, <5>2
      <4> QED BY <2>1, <3>2, <4>1, <4>3, <4>4 DEF DeployAt
    <3> QED BY <3>3, <3>4
  <2>2. CASE m # n
    BY <1>1, <1>2, <1>3, <1>5, <1>6, <1>8, <2>2, OtherDeploys
  <2> QED BY <2>1, <2>2
<1> QED BY <1>9, <1>10, <1>11, <1>12

LEMMA DeployRestartStep ==
  ASSUME AppsInv, NEW t \in Tasks, NEW restarts \in BOOLEAN, DeployRestart(t, restarts)
  PROVE  AppsInv'
<1> USE DEF AppsInv
<1>1. task[t] # Nil /\ task[t].op = "restart"
  BY HandlerTask DEF DeployRestart
<1>2. PICK n \in AppNames : n = task[t].app
  BY HandlerTask DEF DeployRestart
<1>3. /\ running' = IF restarts THEN [running EXCEPT ![n] = dir[n]] ELSE running
      /\ cut' = [cut EXCEPT ![n] = cut[n] \/ ~restarts]
      /\ restarts => unit[n] # Nil
      /\ Ends(t)
      /\ UNCHANGED <<head, appRow, appId, dir, unit, site, raced, dying, stale>>
  BY <1>2, Zenon DEF DeployRestart
<1>4. /\ running' \in [AppNames -> {Nil} \cup Checkout] /\ (\A m \in AppNames \ {n} : running'[m] = running[m])
      /\ restarts => running'[n] = dir[n]
  BY <1>3 DEF AppsTypes
<1>5. /\ cut' \in [AppNames -> BOOLEAN] /\ (\A m \in AppNames \ {n} : cut'[m] = cut[m])
      /\ ~restarts => cut'[n]
      /\ cut[n] => cut'[n]
  BY <1>3, Zenon DEF AppFlags
<1>6. /\ task' \in [Tasks -> {Nil} \cup AppTask] /\ (\A o \in Tasks \ {t} : task'[o] = task[o])
      /\ task'[t] = Nil
  BY <1>3, TaskEnds
<1>7. WiringInv'
  BY <1>1, <1>3, <1>6, DeployWiring
<1>8. AppsTypes'
  BY <1>3, <1>4, <1>6 DEF AppsTypes
<1>9. AppFlags'
  BY <1>3, <1>5, Zenon DEF AppFlags
<1>10. DeploysRight'
  <2> SUFFICES ASSUME NEW m \in AppNames PROVE DeployAt(m)'
    BY DEF DeploysRight
  <2>1. CASE m = n
    <3>1. DeployAt(n)
      BY DEF DeploysRight
    <3>2. Fresh(n)'
      <4> SUFFICES ASSUME dir[n] # Nil, ~raced[n], NEW o \in Tasks, Busy(o, n, {"pip"})'
                   PROVE  task'[o].read = dir[n].src
        BY <1>3 DEF Fresh
      <4>1. o # t
        BY <1>6 DEF Busy
      <4> QED BY <1>6, <3>1, <4>1 DEF DeployAt, Fresh, Busy
    <3>3. CASE ~restarts
      BY <1>5, <2>1, <3>2, <3>3, Zenon DEF DeployAt, Installed, Started, Apart
    <3>4. CASE restarts
      <4>1. Started(n)'
        BY <1>3, <1>4, <3>4, Zenon DEF Started
      <4>2. InFlight(n, {"deps", "pip"}) => InFlight(n, {"deps", "pip"})'
        <5> SUFFICES ASSUME NEW o \in Tasks, Busy(o, n, {"deps", "pip"}) PROVE Busy(o, n, {"deps", "pip"})'
          BY DEF InFlight
        <5>1. o # t
          BY <1>1 DEF Busy
        <5> QED BY <1>6, <5>1 DEF Busy
      <4>3. Installed(n)'
        <5> HIDE DEF InFlight
        <5> QED BY <1>3, <1>5, <3>1, <4>2, Zenon DEF DeployAt, Installed
      <4>4. ~Making(n)'
        <5> SUFFICES ASSUME Making(n)' PROVE FALSE
          OBVIOUS
        <5>1. t # 0
          BY <1>6 DEF Making, Busy
        <5>2. task[0] # Nil /\ task[0].app = n /\ task[0].id = 0 /\ task[0].op \in {"deps", "pip"}
          BY <1>6, <5>1, ZeroTask DEF Making, Busy
        <5>3. HandlerAt(n)
          BY <5>2 DEF WiringInv, HandlerRight
        <5>4. unit[n] = Nil
          BY <5>2, <5>3 DEF HandlerAt
        <5> QED BY <1>3, <3>4, <5>4
      <4>5. Apart(n)'
        BY <4>4, Zenon DEF Apart
      <4> QED BY <2>1, <3>2, <4>1, <4>3, <4>5 DEF DeployAt
    <3> QED BY <3>3, <3>4
  <2>2. CASE m # n
    BY <1>1, <1>2, <1>3, <1>4, <1>5, <1>6, <2>2, OtherDeploys
  <2> QED BY <2>1, <2>2
<1> QED BY <1>7, <1>8, <1>9, <1>10

LEMMA PanelStopsStep ==
  ASSUME AppsInv, PanelStops
  PROVE  AppsInv'
<1> USE DEF AppsInv
<1>1. /\ task' = [t \in Tasks |-> Nil]
      /\ cut' = [n \in AppNames |-> \/ cut[n]
                                    \/ \E t \in Tasks : /\ task[t] # Nil /\ task[t].app = n
                                                        /\ task[t].op \in {"deps", "pip", "restart"}]
      /\ UNCHANGED <<head, appRow, appId, dir, unit, running, site, raced, dying, stale>>
  BY DEF PanelStops, Idle
<1>2. \A t \in Tasks : task'[t] = Nil
  BY <1>1
<1>3. AppsTypes'
  <2>1. task' \in [Tasks -> {Nil} \cup AppTask]
    BY <1>1
  <2> QED BY <1>1, <2>1 DEF AppsTypes
<1>4. /\ cut' \in [AppNames -> BOOLEAN]
      /\ \A n \in AppNames : cut[n] \/ InFlight(n, Deploying) => cut'[n]
  BY <1>1, Zenon DEF AppFlags, InFlight, Busy, Deploying
<1>5. AppFlags'
  BY <1>1, <1>4, Zenon DEF AppFlags
<1>6. WiringInv'
  <2>1. task[0] # Nil => task[0].app \in AppNames
    BY TaskIsRow, ZeroTask DEF AppTask
  <2> QED BY <1>1, <1>2, <2>1, ZeroTask, WiringFrame
<1>7. DeploysRight'
  <2> SUFFICES ASSUME NEW m \in AppNames PROVE DeployAt(m)'
    BY DEF DeploysRight
  <2>1. Installed(m) /\ Started(m)
    BY DEF DeploysRight, DeployAt
  <2>2. InFlight(m, {"deps", "pip"}) => InFlight(m, Deploying)
    BY DEF InFlight, Busy, Deploying
  <2>3. \A t \in Tasks : \A ops : ~Busy(t, m, ops)'
    BY <1>2 DEF Busy
  <2>4. Fresh(m)' /\ Apart(m)'
    BY <2>3, ZeroTask DEF Fresh, Apart, Making
  <2>5. Installed(m)' /\ Started(m)'
    <3> HIDE DEF InFlight
    <3> QED BY <1>1, <1>4, <2>1, <2>2, Zenon DEF Installed, Started
  <2> QED BY <2>4, <2>5 DEF DeployAt
<1> QED BY <1>3, <1>5, <1>6, <1>7

LEMMA AppsInitial == AppsInit => AppsInv
<1> SUFFICES ASSUME AppsInit PROVE AppsInv
  OBVIOUS
<1>1. /\ appRow = [n \in AppNames |-> Nil] /\ dir = [n \in AppNames |-> Nil] /\ unit = [n \in AppNames |-> Nil]
      /\ running = [n \in AppNames |-> Nil] /\ site = [n \in AppNames |-> Nil] /\ task = [t \in Tasks |-> Nil]
      /\ head = 1 /\ appId = 0
  BY DEF AppsInit
<1>2. AppsTypes
  BY <1>1 DEF AppsTypes
<1>3. AppFlags
  BY Zenon DEF AppsInit, AppFlags
<1>4. WiringInv
  <2>1. AppsWired /\ FreeNames
    BY <1>1 DEF AppsWired, FreeNames, Foreign
  <2>2. task[0] = Nil
    BY <1>1, ZeroTask
  <2>3. HandlerRight
    BY <2>2, Zenon DEF HandlerRight
  <2>4. ThreadsDeploy
    BY <1>1 DEF ThreadsDeploy
  <2> QED BY <2>1, <2>3, <2>4 DEF WiringInv
<1>5. DeploysRight
  BY <1>1 DEF DeploysRight, DeployAt, Installed, Started, Fresh, Apart
<1> QED BY <1>2, <1>3, <1>4, <1>5 DEF AppsInv

LEMMA AppsInductive == AppsInv /\ [AppsNext]_appsVars => AppsInv'
<1> SUFFICES ASSUME AppsInv, [AppsNext]_appsVars PROVE AppsInv'
  OBVIOUS
<1>1. head \in Nat /\ 0 \in Nat
  BY DEF AppsInv, AppsTypes
<1>2. ASSUME NEW n \in AppNames, CreateApp(n) \/ CreateFromTemplate(n) PROVE AppsInv'
  BY <1>1, <1>2, NewDirStep DEF CreateApp, CreateFromTemplate
<1>3. ASSUME NEW t \in Tasks, NEW ok \in BOOLEAN, DeployPull(t, ok) \/ PipEnds(t, ok) \/ DeployRestart(t, ok)
      PROVE  AppsInv'
  <2>1. CASE DeployPull(t, ok)
    <3>1. CASE ok = TRUE
      BY <2>1, <3>1, DeployPullStep
    <3>2. CASE ok = FALSE
      BY <2>1, <3>2, AppsQuietSteps
    <3> QED BY <3>1, <3>2
  <2> QED BY <1>3, <2>1, PipEndsStep, DeployRestartStep
<1>8. ASSUME NEW t \in Tasks, PipBegins(t) PROVE AppsInv'
  BY <1>8, PipBeginsStep
<1>4. CASE \/ \E t \in Tasks, n \in AppNames : StartDeploy(t, n)
           \/ \E t \in Tasks : DeployGet(t)
           \/ \E n \in AppNames, action \in {"start", "stop", "restart"} : Control(n, action)
           \/ \E n \in AppNames : Respawn(n)
           \/ Push \/ UNCHANGED appsVars
  BY <1>4, AppsQuietSteps, Zenon
<1>5. ASSUME NEW n \in AppNames, DeleteApp(n) \/ SiteByHand(n) PROVE AppsInv'
  BY <1>5, DeleteAppStep, SiteByHandStep
<1>6. ASSUME NEW b \in BOOLEAN, DeleteProxy(b) \/ DeleteRow(b) \/ CreateUnit(b) PROVE AppsInv'
  BY <1>6, DeleteProxyStep, DeleteRowStep, CreateUnitStep
<1>7. CASE CreateProxy \/ InsertApp \/ DeleteUnit \/ PanelStops
  BY <1>7, CreateProxyStep, InsertAppStep, DeleteUnitStep, PanelStopsStep
<1> QED BY <1>2, <1>3, <1>4, <1>5, <1>6, <1>7, <1>8, Zenon DEF AppsNext

\* Every listed app is wired to a port of its own and, when no deploy of it is
\* at work or was cut short, runs what is checked out and installed, which are
\* the packages of the commit unless the last pull fell into an installation
\* for another one: for any number of apps, ports, webhook threads and commits.
THEOREM AppsStayWhole == AppsSpec => []AppsWhole
<1>1. AppsInv => AppsWhole
  <2> SUFFICES ASSUME AppsInv PROVE AppsWhole
    OBVIOUS
  <2>1. AppsWired
    BY DEF AppsInv, WiringInv
  <2>2. RunsWhatWasPulled
    <3> SUFFICES ASSUME NEW n \in AppNames, Settled(n)
                 PROVE  running[n] = dir[n] /\ (raced[n] \/ dir[n].deps = dir[n].src)
      BY Zenon DEF RunsWhatWasPulled
    <3>1. ~InFlight(n, {"deps", "pip"}) /\ ~InFlight(n, Deploying)
      BY DEF InFlight, Busy, Deploying, Settled
    <3>2. Installed(n) /\ Started(n)
      BY Zenon DEF AppsInv, DeploysRight, DeployAt
    <3> HIDE DEF InFlight
    <3> QED BY <3>1, <3>2, Zenon DEF Installed, Started, Settled
  <2> QED BY <2>1, <2>2 DEF AppsWhole
<1> QED BY <1>1, AppsInitial, AppsInductive, PTL DEF AppsSpec

(***************************************************************************)
(* Cron jobs (V1Cron). A crontab is described line by line (HasBlock): the *)
(* user's lines with the block after the k-th of them. On such a crontab   *)
(* the loop of _strip_managed has one solution, AfterLines, whatever its   *)
(* length, and that gives back the user's lines (StripGivesOwn); the block *)
(* is then written at the end, and moves with the lines users add.         *)
(***************************************************************************)
\* Every non-empty set of naturals has a smallest element: an induction on
\* the lines looks for the smallest counterexample.
LEMMA LeastOfNaturals ==
  ASSUME NEW S \in SUBSET Nat, S # {}
  PROVE  \E x \in S : \A y \in S : x <= y
<1>1. PICK x \in S : \A y \in S : ~(<<y, x>> \in OpToRel(<, Nat))
  <2> HIDE DEF OpToRel
  <2> QED BY NatLessThanWellFounded, WFMin, Zenon
<1>2. \A y \in S : ~(y < x)
  BY <1>1 DEF OpToRel
<1>3. \A y \in S : x <= y
  BY <1>2
<1> QED BY <1>3

\* The lines a user may write.
OwnLine == {Own(n) : n \in Nat}

\* A crontab with the block of the jobs s after the k-th of the user's lines,
\* line by line.
HasBlock(raw, own, k, s) ==
    /\ k \in 0 .. Len(own)
    /\ Len(raw) = Len(own) + 3
    /\ \A i \in 1 .. k : raw[i] = own[i]
    /\ raw[k + 1] = BEGIN /\ raw[k + 2] = Lines(s) /\ raw[k + 3] = END
    /\ \A i \in k + 4 .. Len(own) + 3 : raw[i] = own[i - 3]

Line == OwnLine \cup {BEGIN, END} \cup {Lines(s) : s \in SUBSET CronJobs}

LEMMA LinesDiffer ==
  /\ \A line \in OwnLine : line # BEGIN /\ line # END /\ line.jobs = {}
  /\ BEGIN # END /\ BEGIN.jobs = {} /\ END.jobs = {}
  /\ \A s : Lines(s) # BEGIN /\ Lines(s) # END /\ Lines(s).jobs = s
  BY DEF OwnLine, Own, BEGIN, END, Lines

\* What a line does to the loop.
At(out, skipping) == [out |-> out, skipping |-> skipping]

LEMMA StripBegin == ASSUME NEW o, NEW b PROVE StripLine(At(o, b), BEGIN) = At(o, TRUE)
  BY DEF StripLine, At

LEMMA StripEnd == ASSUME NEW o, NEW b PROVE StripLine(At(o, b), END) = At(o, FALSE)
  BY LinesDiffer DEF StripLine, At

LEMMA StripOther ==
  ASSUME NEW o, NEW line, line # BEGIN, line # END
  PROVE  /\ StripLine(At(o, TRUE), line) = At(o, TRUE)
         /\ StripLine(At(o, FALSE), line) = At(Append(o, line), FALSE)
  BY DEF StripLine, At

\* After i lines the loop has these of the user's own.
KeptLines(k, i) == IF i <= k THEN i ELSE IF i <= k + 3 THEN k ELSE i - 3

LEMMA AppendNext ==
  ASSUME NEW S, NEW own \in Seq(S), NEW i \in 0 .. Len(own) - 1
  PROVE  Append(SubSeq(own, 1, i), own[i + 1]) = SubSeq(own, 1, i + 1)
  OBVIOUS

LEMMA SubSeqWhole == ASSUME NEW S, NEW own \in Seq(S) PROVE SubSeq(own, 1, Len(own)) = own
  OBVIOUS

LEMMA SubSeqNone == ASSUME NEW S, NEW own \in Seq(S) PROVE SubSeq(own, 1, 0) = <<>>
  OBVIOUS

\* What the loop has after i lines, in one expression, ...
AfterLines(own, k) ==
    [i \in 0 .. Len(own) + 3 |->
        At(SubSeq(own, 1, KeptLines(k, i)), i \in {k + 1, k + 2})]

LEMMA AfterStep ==
  ASSUME NEW own \in Seq(OwnLine), NEW raw, NEW k, NEW s, HasBlock(raw, own, k, s),
         NEW i \in 1 .. Len(own) + 3
  PROVE  AfterLines(own, k)[i] = StripLine(AfterLines(own, k)[i - 1], raw[i])
<1> DEFINE A == AfterLines(own, k)
<1>1. k \in 0 .. Len(own) /\ Len(own) \in Nat /\ k \in Nat
  BY DEF HasBlock
<1>2. /\ A[i] = At(SubSeq(own, 1, KeptLines(k, i)), i \in {k + 1, k + 2})
      /\ A[i - 1] = At(SubSeq(own, 1, KeptLines(k, i - 1)), i - 1 \in {k + 1, k + 2})
  BY <1>1 DEF AfterLines
<1> HIDE DEF A
<1>3. CASE i <= k
  <2>1. raw[i] = own[i] /\ own[i] \in OwnLine
    BY <1>1, <1>3 DEF HasBlock
  <2>2. KeptLines(k, i) = i /\ KeptLines(k, i - 1) = i - 1 /\ i - 1 \in 0 .. Len(own) - 1 /\ (i - 1) + 1 = i
    BY <1>1, <1>3 DEF KeptLines
  <2>3. (i \in {k + 1, k + 2}) = FALSE /\ (i - 1 \in {k + 1, k + 2}) = FALSE
    BY <1>1, <1>3
  <2>4. Append(SubSeq(own, 1, i - 1), own[i]) = SubSeq(own, 1, i)
    BY <2>2, AppendNext
  <2>5. A[i] = At(SubSeq(own, 1, i), FALSE) /\ A[i - 1] = At(SubSeq(own, 1, i - 1), FALSE)
    BY <1>2, <2>2, <2>3
  <2>6. raw[i] # BEGIN /\ raw[i] # END
    BY <2>1, LinesDiffer
  <2>7. StripLine(At(SubSeq(own, 1, i - 1), FALSE), raw[i]) = At(Append(SubSeq(own, 1, i - 1), raw[i]), FALSE)
    BY <2>6, StripOther
  <2> QED BY <2>1, <2>4, <2>5, <2>7 DEF A
<1>4. CASE i = k + 1
  <2>1. raw[i] = BEGIN /\ KeptLines(k, i) = k /\ KeptLines(k, i - 1) = k
    BY <1>1, <1>4 DEF HasBlock, KeptLines
  <2>2. (i \in {k + 1, k + 2}) = TRUE
    BY <1>4
  <2>3. A[i] = At(SubSeq(own, 1, k), TRUE)
    BY <1>2, <2>1, <2>2
  <2> QED BY <1>2, <2>1, <2>3, StripBegin DEF A
<1>5. CASE i = k + 2
  <2>1. raw[i] = Lines(s) /\ KeptLines(k, i) = k /\ KeptLines(k, i - 1) = k
    BY <1>1, <1>5 DEF HasBlock, KeptLines
  <2>2. (i \in {k + 1, k + 2}) = TRUE /\ (i - 1 \in {k + 1, k + 2}) = TRUE
    BY <1>1, <1>5
  <2>3. A[i] = At(SubSeq(own, 1, k), TRUE) /\ A[i - 1] = At(SubSeq(own, 1, k), TRUE)
    BY <1>2, <2>1, <2>2
  <2> QED BY <2>1, <2>3, LinesDiffer, StripOther DEF A
<1>6. CASE i = k + 3
  <2>1. raw[i] = END /\ KeptLines(k, i) = k /\ KeptLines(k, i - 1) = k
    BY <1>1, <1>6 DEF HasBlock, KeptLines
  <2>2. (i \in {k + 1, k + 2}) = FALSE
    BY <1>1, <1>6
  <2>3. A[i] = At(SubSeq(own, 1, k), FALSE)
    BY <1>2, <2>1, <2>2
  <2> QED BY <1>2, <2>1, <2>3, StripEnd DEF A
<1>7. CASE i >= k + 4
  <2>1. raw[i] = own[i - 3] /\ own[i - 3] \in OwnLine
    BY <1>1, <1>7 DEF HasBlock
  <2>2. KeptLines(k, i) = i - 3 /\ KeptLines(k, i - 1) = i - 4 /\ i - 4 \in 0 .. Len(own) - 1 /\ (i - 4) + 1 = i - 3
    BY <1>1, <1>7 DEF KeptLines
  <2>3. (i \in {k + 1, k + 2}) = FALSE /\ (i - 1 \in {k + 1, k + 2}) = FALSE
    BY <1>1, <1>7
  <2>4. Append(SubSeq(own, 1, i - 4), own[i - 3]) = SubSeq(own, 1, i - 3)
    BY <2>2, AppendNext
  <2>5. A[i] = At(SubSeq(own, 1, i - 3), FALSE) /\ A[i - 1] = At(SubSeq(own, 1, i - 4), FALSE)
    BY <1>2, <2>2, <2>3
  <2>6. raw[i] # BEGIN /\ raw[i] # END
    BY <2>1, LinesDiffer
  <2>7. StripLine(At(SubSeq(own, 1, i - 4), FALSE), raw[i]) = At(Append(SubSeq(own, 1, i - 4), raw[i]), FALSE)
    BY <2>6, StripOther
  <2> QED BY <2>1, <2>4, <2>5, <2>7 DEF A
<1>8. i <= k \/ i = k + 1 \/ i = k + 2 \/ i = k + 3 \/ i >= k + 4
  BY <1>1
<1> QED BY <1>3, <1>4, <1>5, <1>6, <1>7, <1>8

\* ... which satisfies the equation of the loop ...
LoopOf(f, raw) ==
    f = [i \in 0 .. Len(raw) |->
            IF i = 0 THEN At(<<>>, FALSE) ELSE StripLine(f[i - 1], raw[i])]

LEMMA AfterIsLoop ==
  ASSUME NEW own \in Seq(OwnLine), NEW raw, NEW k, NEW s, HasBlock(raw, own, k, s)
  PROVE  LoopOf(AfterLines(own, k), raw)
<1> DEFINE A == AfterLines(own, k)
<1>1. k \in 0 .. Len(own) /\ Len(own) \in Nat /\ Len(raw) = Len(own) + 3
  BY DEF HasBlock
<1>2. A = [i \in 0 .. Len(raw) |-> A[i]]
  BY <1>1 DEF AfterLines
<1>3. A[0] = At(<<>>, FALSE)
  <2>1. A[0] = At(SubSeq(own, 1, KeptLines(k, 0)), 0 \in {k + 1, k + 2})
    BY <1>1 DEF AfterLines
  <2>2. KeptLines(k, 0) = 0 /\ (0 \in {k + 1, k + 2}) = FALSE
    BY <1>1 DEF KeptLines
  <2> HIDE DEF A
  <2> QED BY <2>1, <2>2, SubSeqNone
<1>4. \A i \in 1 .. Len(raw) : A[i] = StripLine(A[i - 1], raw[i])
  BY <1>1, AfterStep
<1> HIDE DEF A
<1>5. \A i \in 0 .. Len(raw) :
        A[i] = IF i = 0 THEN At(<<>>, FALSE) ELSE StripLine(A[i - 1], raw[i])
  <2> SUFFICES ASSUME NEW i \in 0 .. Len(raw)
               PROVE  A[i] = IF i = 0 THEN At(<<>>, FALSE) ELSE StripLine(A[i - 1], raw[i])
    OBVIOUS
  <2>1. i = 0 \/ i \in 1 .. Len(raw)
    BY <1>1
  <2>2. CASE i = 0
    BY <1>3, <2>2
  <2>3. CASE i # 0
    BY <1>4, <2>1, <2>3
  <2> QED BY <2>2, <2>3
<1>6. A = [i \in 0 .. Len(raw) |->
            IF i = 0 THEN At(<<>>, FALSE) ELSE StripLine(A[i - 1], raw[i])]
  BY <1>2, <1>5
<1> QED BY <1>6 DEF LoopOf, A

\* ... and is the only function that does.
LEMMA LoopUnique ==
  ASSUME NEW raw, Len(raw) \in Nat, NEW f, NEW g, LoopOf(f, raw), LoopOf(g, raw)
  PROVE  f[Len(raw)] = g[Len(raw)]
<1> DEFINE Bad == {i \in 0 .. Len(raw) : f[i] # g[i]}
<1>1. \A i \in 0 .. Len(raw) :
        f[i] = IF i = 0 THEN At(<<>>, FALSE) ELSE StripLine(f[i - 1], raw[i])
  BY DEF LoopOf
<1>2. \A i \in 0 .. Len(raw) :
        g[i] = IF i = 0 THEN At(<<>>, FALSE) ELSE StripLine(g[i - 1], raw[i])
  BY DEF LoopOf
<1>3. Bad = {}
  <2> SUFFICES ASSUME Bad # {} PROVE FALSE
    OBVIOUS
  <2>1. PICK n \in Bad : \A m \in Bad : n <= m
    <3>1. Bad \in SUBSET Nat
      OBVIOUS
    <3> HIDE DEF Bad
    <3> QED BY <3>1, LeastOfNaturals
  <2>2. n \in 0 .. Len(raw) /\ f[n] # g[n]
    OBVIOUS
  <2>3. n # 0
    BY <1>1, <1>2, <2>2
  <2>4. n - 1 \in 0 .. Len(raw) /\ n - 1 < n
    BY <2>2, <2>3
  <2>5. f[n - 1] = g[n - 1]
    BY <2>1, <2>4
  <2>6. f[n] = StripLine(f[n - 1], raw[n]) /\ g[n] = StripLine(g[n - 1], raw[n])
    BY <1>1, <1>2, <2>2, <2>3
  <2> QED BY <2>2, <2>5, <2>6
<1> QED BY <1>3

\* _strip_managed gives back the user's own lines.
LEMMA StripGivesOwn ==
  ASSUME NEW own \in Seq(OwnLine), NEW raw \in Seq(Line), NEW k, NEW s, HasBlock(raw, own, k, s)
  PROVE  StripManaged(raw) = own
<1> DEFINE L == CHOOSE f : f = [i \in 0 .. Len(raw) |->
                    IF i = 0 THEN [out |-> <<>>, skipping |-> FALSE] ELSE StripLine(f[i - 1], raw[i])]
<1>1. k \in 0 .. Len(own) /\ Len(own) \in Nat /\ Len(raw) = Len(own) + 3 /\ raw[k + 1] = BEGIN
  BY DEF HasBlock
<1>2. k + 1 \in DOMAIN raw
  BY <1>1
<1>3. StripManaged(raw) = L[Len(raw)].out
  BY <1>1, <1>2 DEF StripManaged
<1>4. LoopOf(L, raw)
  <2>1. \E f : LoopOf(f, raw)
    BY AfterIsLoop
  <2>2. \E f : f = [i \in 0 .. Len(raw) |->
                    IF i = 0 THEN [out |-> <<>>, skipping |-> FALSE] ELSE StripLine(f[i - 1], raw[i])]
    BY <2>1 DEF LoopOf, At
  <2>3. L = [i \in 0 .. Len(raw) |->
                    IF i = 0 THEN [out |-> <<>>, skipping |-> FALSE] ELSE StripLine(L[i - 1], raw[i])]
    BY <2>2, Zenon
  <2> HIDE DEF L
  <2> QED BY <2>3 DEF LoopOf, At
<1> HIDE DEF L
<1>5. L[Len(raw)] = AfterLines(own, k)[Len(raw)]
  <2>1. LoopOf(AfterLines(own, k), raw) /\ Len(raw) \in Nat
    BY <1>1, AfterIsLoop
  <2> QED BY <1>4, <2>1, LoopUnique
<1>6. AfterLines(own, k)[Len(raw)] = At(SubSeq(own, 1, KeptLines(k, Len(raw))), Len(raw) \in {k + 1, k + 2})
  BY <1>1 DEF AfterLines
<1>7. KeptLines(k, Len(raw)) = Len(own)
  BY <1>1 DEF KeptLines
<1>8. L[Len(raw)].out = SubSeq(own, 1, Len(own))
  BY <1>5, <1>6, <1>7 DEF At
<1> QED BY <1>3, <1>8, SubSeqWhole

LEMMA StripKeepsOwn ==
  ASSUME NEW own \in Seq(OwnLine)
  PROVE  StripManaged(own) = own
<1>1. \A i \in DOMAIN own : own[i] # BEGIN
  BY LinesDiffer
<1> QED BY <1>1 DEF StripManaged

LEMMA LineSets == OwnLine \subseteq Line /\ \A s \in SUBSET CronJobs : Managed(s) \in Seq(Line) /\ Len(Managed(s)) = 3
<1>1. OwnLine \subseteq Line
  BY DEF Line
<1>2. ASSUME NEW s \in SUBSET CronJobs PROVE Managed(s) \in Seq(Line) /\ Len(Managed(s)) = 3
  <2>1. BEGIN \in Line /\ END \in Line /\ Lines(s) \in Line
    BY DEF Line
  <2> QED BY <2>1 DEF Managed
<1> QED BY <1>1, <1>2

LEMMA ThreeMore ==
  ASSUME NEW S, NEW a \in Seq(S), NEW m \in Seq(S), Len(m) = 3
  PROVE  /\ a \o m \in Seq(S) /\ Len(a \o m) = Len(a) + 3
         /\ \A i \in 1 .. Len(a) : (a \o m)[i] = a[i]
         /\ (a \o m)[Len(a) + 1] = m[1] /\ (a \o m)[Len(a) + 2] = m[2] /\ (a \o m)[Len(a) + 3] = m[3]
<1> DEFINE t == a \o m
<1>0. Len(a) \in Nat
  OBVIOUS
<1>1. /\ t \in Seq(S) /\ Len(t) = Len(a) + Len(m)
      /\ \A i \in 1 .. Len(a) + Len(m) : t[i] = IF i <= Len(a) THEN a[i] ELSE m[i - Len(a)]
  <2> SUFFICES ASSUME NEW b \in Seq(S)
               PROVE  /\ a \o b \in Seq(S) /\ Len(a \o b) = Len(a) + Len(b)
                      /\ \A i \in 1 .. Len(a) + Len(b) :
                            (a \o b)[i] = IF i <= Len(a) THEN a[i] ELSE b[i - Len(a)]
    BY Zenon
  <2>1. a \o b \in Seq(S)
    OBVIOUS
  <2>2. Len(a \o b) = Len(a) + Len(b)
    OBVIOUS
  <2>3. \A i \in 1 .. Len(a) + Len(b) : (a \o b)[i] = IF i <= Len(a) THEN a[i] ELSE b[i - Len(a)]
    OBVIOUS
  <2> QED BY <2>1, <2>2, <2>3
<1> HIDE DEF t
<1>2. t \in Seq(S) /\ Len(t) = Len(a) + 3 /\ \A i \in 1 .. Len(a) : t[i] = a[i]
  BY <1>0, <1>1
<1>3. t[Len(a) + 1] = m[1] /\ t[Len(a) + 2] = m[2] /\ t[Len(a) + 3] = m[3]
  <2> DEFINE n == Len(a)
  <2>1. n \in Nat /\ \A i \in 1 .. n + 3 : t[i] = IF i <= n THEN a[i] ELSE m[i - n]
    BY <1>0, <1>1
  <2> HIDE DEF n
  <2>2. \A d \in 1 .. 3 : n + d \in 1 .. n + 3 /\ ~(n + d <= n) /\ (n + d) - n = d
    BY <2>1
  <2>3. \A d \in 1 .. 3 : t[n + d] = m[d]
    BY <2>1, <2>2
  <2> QED BY <2>3 DEF n
<1> QED BY <1>2, <1>3 DEF t

\* Where the block goes when it is written, and when the user adds a line
\* before it or after it.
LEMMA BlockAtEnd ==
  ASSUME NEW own \in Seq(OwnLine), NEW s \in SUBSET CronJobs
  PROVE  own \o Managed(s) \in Seq(Line) /\ HasBlock(own \o Managed(s), own, Len(own), s)
<1>1. own \in Seq(Line) /\ Managed(s) \in Seq(Line) /\ Len(Managed(s)) = 3
  BY LineSets
<1>2. Managed(s)[1] = BEGIN /\ Managed(s)[2] = Lines(s) /\ Managed(s)[3] = END
  BY DEF Managed
<1> DEFINE m == Managed(s)
<1> HIDE DEF m
<1>3. /\ own \o m \in Seq(Line) /\ Len(own \o m) = Len(own) + 3
      /\ \A i \in 1 .. Len(own) : (own \o m)[i] = own[i]
      /\ (own \o m)[Len(own) + 1] = m[1] /\ (own \o m)[Len(own) + 2] = m[2]
      /\ (own \o m)[Len(own) + 3] = m[3]
  BY <1>1, ThreeMore DEF m
<1>4. Len(own) \in 0 .. Len(own) /\ \A i \in Len(own) + 4 .. Len(own) + 3 : FALSE
  OBVIOUS
<1> QED BY <1>2, <1>3, <1>4 DEF HasBlock, m

LEMMA BlockMoves ==
  ASSUME NEW own \in Seq(OwnLine), NEW raw \in Seq(Line), NEW k, NEW s, HasBlock(raw, own, k, s),
         NEW line \in OwnLine
  PROVE  HasBlock(<<line>> \o raw, <<line>> \o own, k + 1, s)
<1> DEFINE r == <<line>> \o raw
           o == <<line>> \o own
<1>1. k \in 0 .. Len(own) /\ Len(own) \in Nat /\ Len(raw) = Len(own) + 3
  BY DEF HasBlock
<1>2. /\ Len(r) = Len(raw) + 1 /\ r[1] = line /\ \A i \in 2 .. Len(raw) + 1 : r[i] = raw[i - 1]
      /\ Len(o) = Len(own) + 1 /\ o[1] = line /\ \A i \in 2 .. Len(own) + 1 : o[i] = own[i - 1]
  BY LineSets
<1> HIDE DEF r, o
<1>3. \A i \in 1 .. k + 1 : r[i] = o[i]
  <2> SUFFICES ASSUME NEW i \in 1 .. k + 1 PROVE r[i] = o[i]
    OBVIOUS
  <2>1. CASE i = 1
    BY <1>2, <2>1
  <2>2. CASE i # 1
    <3>1. i \in 2 .. Len(raw) + 1 /\ i \in 2 .. Len(own) + 1 /\ i - 1 \in 1 .. k
      BY <1>1, <2>2
    <3>2. raw[i - 1] = own[i - 1]
      BY <3>1 DEF HasBlock
    <3> QED BY <1>2, <3>1, <3>2
  <2> QED BY <2>1, <2>2
<1>4. r[k + 2] = raw[k + 1] /\ r[k + 3] = raw[k + 2] /\ r[k + 4] = raw[k + 3]
  BY <1>1, <1>2
<1>5. \A i \in k + 5 .. Len(o) + 3 : r[i] = o[i - 3]
  <2> SUFFICES ASSUME NEW i \in k + 5 .. Len(o) + 3 PROVE r[i] = o[i - 3]
    OBVIOUS
  <2>1. /\ i \in 2 .. Len(raw) + 1 /\ i - 3 \in 2 .. Len(own) + 1 /\ i - 1 \in k + 4 .. Len(own) + 3
        /\ (i - 1) - 3 = (i - 3) - 1
    BY <1>1, <1>2
  <2>2. raw[i - 1] = own[(i - 1) - 3]
    BY <2>1 DEF HasBlock
  <2> QED BY <1>2, <2>1, <2>2
<1>6. HasBlock(r, o, k + 1, s)
  <2>1. k + 1 \in 0 .. Len(o) /\ Len(r) = Len(o) + 3
    BY <1>1, <1>2
  <2>2. (k + 1) + 1 = k + 2 /\ (k + 1) + 2 = k + 3 /\ (k + 1) + 3 = k + 4 /\ (k + 1) + 4 = k + 5
    BY <1>1
  <2>3. raw[k + 1] = BEGIN /\ raw[k + 2] = Lines(s) /\ raw[k + 3] = END
    BY DEF HasBlock
  <2> QED BY <1>3, <1>4, <1>5, <2>1, <2>2, <2>3 DEF HasBlock
<1> QED BY <1>6 DEF r, o

LEMMA BlockStays ==
  ASSUME NEW own \in Seq(OwnLine), NEW raw \in Seq(Line), NEW k, NEW s, HasBlock(raw, own, k, s),
         NEW line \in OwnLine
  PROVE  HasBlock(raw \o <<line>>, own \o <<line>>, k, s)
<1> DEFINE r == raw \o <<line>>
           o == own \o <<line>>
<1>1. k \in 0 .. Len(own) /\ Len(own) \in Nat /\ Len(raw) = Len(own) + 3
  BY DEF HasBlock
<1>2. /\ Len(r) = Len(raw) + 1 /\ r[Len(raw) + 1] = line /\ \A i \in 1 .. Len(raw) : r[i] = raw[i]
      /\ Len(o) = Len(own) + 1 /\ o[Len(own) + 1] = line /\ \A i \in 1 .. Len(own) : o[i] = own[i]
  BY LineSets
<1> HIDE DEF r, o
<1>3. \A i \in 1 .. k : r[i] = o[i]
  <2> SUFFICES ASSUME NEW i \in 1 .. k PROVE r[i] = o[i]
    OBVIOUS
  <2>1. i \in 1 .. Len(raw) /\ i \in 1 .. Len(own) /\ raw[i] = own[i]
    BY <1>1 DEF HasBlock
  <2> QED BY <1>2, <2>1
<1>4. r[k + 1] = raw[k + 1] /\ r[k + 2] = raw[k + 2] /\ r[k + 3] = raw[k + 3]
  BY <1>1, <1>2
<1>5. \A i \in k + 4 .. Len(o) + 3 : r[i] = o[i - 3]
  <2> SUFFICES ASSUME NEW i \in k + 4 .. Len(o) + 3 PROVE r[i] = o[i - 3]
    OBVIOUS
  <2>1. CASE i = Len(raw) + 1
    BY <1>1, <1>2, <2>1
  <2>2. CASE i # Len(raw) + 1
    <3>1. i \in 1 .. Len(raw) /\ i - 3 \in 1 .. Len(own) /\ i \in k + 4 .. Len(own) + 3
      BY <1>1, <1>2, <2>2
    <3>2. raw[i] = own[i - 3]
      BY <3>1 DEF HasBlock
    <3> QED BY <1>2, <3>1, <3>2
  <2> QED BY <2>1, <2>2
<1>6. HasBlock(r, o, k, s)
  <2>1. k \in 0 .. Len(o) /\ Len(r) = Len(o) + 3
    BY <1>1, <1>2
  <2>2. raw[k + 1] = BEGIN /\ raw[k + 2] = Lines(s) /\ raw[k + 3] = END
    BY DEF HasBlock
  <2> QED BY <1>3, <1>4, <1>5, <2>1, <2>2 DEF HasBlock
<1> QED BY <1>6 DEF r, o

\* What a crontab runs.
LEMMA OwnRunsNothing == ASSUME NEW own \in Seq(OwnLine), NEW j PROVE ~RunsIn(own, j)
  BY LinesDiffer DEF RunsIn

LEMMA BlockRuns ==
  ASSUME NEW own \in Seq(OwnLine), NEW raw \in Seq(Line), NEW k, NEW s, HasBlock(raw, own, k, s), NEW j
  PROVE  RunsIn(raw, j) <=> j \in s
<1>1. k \in 0 .. Len(own) /\ Len(own) \in Nat /\ Len(raw) = Len(own) + 3 /\ DOMAIN raw = 1 .. Len(raw)
  BY DEF HasBlock
<1>2. ASSUME j \in s PROVE RunsIn(raw, j)
  <2>1. k + 2 \in DOMAIN raw /\ raw[k + 2] = Lines(s)
    BY <1>1 DEF HasBlock
  <2>2. j \in raw[k + 2].jobs
    BY <1>2, <2>1, LinesDiffer
  <2> QED BY <2>1, <2>2 DEF RunsIn
<1>3. ASSUME NEW i \in DOMAIN raw, j \in raw[i].jobs PROVE j \in s
  <2>1. i \in 1 .. k \/ i = k + 1 \/ i = k + 2 \/ i = k + 3 \/ i \in k + 4 .. Len(own) + 3
    BY <1>1
  <2>2. CASE i \in 1 .. k
    <3>1. raw[i] \in OwnLine
      BY <1>1, <2>2 DEF HasBlock
    <3> QED BY <1>3, <3>1, LinesDiffer
  <2>3. CASE i = k + 1 \/ i = k + 3
    <3>1. raw[i] \in {BEGIN, END}
      BY <2>3 DEF HasBlock
    <3> QED BY <1>3, <3>1, LinesDiffer
  <2>4. CASE i = k + 2
    <3>1. raw[i] = Lines(s)
      BY <2>4 DEF HasBlock
    <3> QED BY <1>3, <3>1, LinesDiffer
  <2>5. CASE i \in k + 4 .. Len(own) + 3
    <3>1. raw[i] = own[i - 3] /\ i - 3 \in 1 .. Len(own)
      BY <1>1, <2>5 DEF HasBlock
    <3>2. raw[i] \in OwnLine
      BY <3>1
    <3> QED BY <1>3, <3>2, LinesDiffer
  <2> QED BY <2>1, <2>2, <2>3, <2>4, <2>5
<1> QED BY <1>2, <1>3 DEF RunsIn

\* Line by line, or in pieces.
LEMMA BlockPieces ==
  ASSUME NEW own \in Seq(OwnLine), NEW raw \in Seq(Line), NEW k, NEW s \in SUBSET CronJobs,
         HasBlock(raw, own, k, s)
  PROVE  raw = SubSeq(own, 1, k) \o Managed(s) \o SubSeq(own, k + 1, Len(own))
<1> DEFINE a == SubSeq(own, 1, k)
           c == SubSeq(own, k + 1, Len(own))
           m == Managed(s)
<1>1. k \in 0 .. Len(own) /\ Len(own) \in Nat /\ Len(raw) = Len(own) + 3 /\ k \in Nat
  BY DEF HasBlock
<1>2. a \in Seq(Line) /\ Len(a) = k /\ \A i \in 1 .. k : a[i] = own[i]
  BY <1>1, LineSets
<1>3. c \in Seq(Line) /\ Len(c) = Len(own) - k /\ \A i \in 1 .. Len(own) - k : c[i] = own[k + i]
  BY <1>1, LineSets
<1>4. m \in Seq(Line) /\ Len(m) = 3 /\ m[1] = BEGIN /\ m[2] = Lines(s) /\ m[3] = END
  BY LineSets DEF Managed
<1> HIDE DEF a, c, m
<1> DEFINE am == a \o m
           amc == am \o c
<1>5. /\ am \in Seq(Line) /\ Len(am) = k + 3
      /\ \A i \in 1 .. k : am[i] = a[i]
      /\ am[k + 1] = m[1] /\ am[k + 2] = m[2] /\ am[k + 3] = m[3]
  <2>1. /\ a \o m \in Seq(Line) /\ Len(a \o m) = Len(a) + 3
        /\ \A i \in 1 .. Len(a) : (a \o m)[i] = a[i]
        /\ (a \o m)[Len(a) + 1] = m[1] /\ (a \o m)[Len(a) + 2] = m[2] /\ (a \o m)[Len(a) + 3] = m[3]
    BY <1>2, <1>4, ThreeMore
  <2> QED BY <1>2, <2>1
<1> HIDE DEF am
<1>6. /\ amc \in Seq(Line) /\ Len(amc) = Len(own) + 3
      /\ \A i \in 1 .. k + 3 : amc[i] = am[i]
      /\ \A i \in k + 4 .. Len(own) + 3 : amc[i] = c[i - (k + 3)]
  BY <1>1, <1>3, <1>5
<1> HIDE DEF amc
<1>7. \A i \in 1 .. Len(own) + 3 : amc[i] = raw[i]
  <2> SUFFICES ASSUME NEW i \in 1 .. Len(own) + 3 PROVE amc[i] = raw[i]
    OBVIOUS
  <2>1. i \in 1 .. k \/ i = k + 1 \/ i = k + 2 \/ i = k + 3 \/ i \in k + 4 .. Len(own) + 3
    BY <1>1
  <2>2. CASE i \in 1 .. k
    <3>1. raw[i] = own[i]
      BY <2>2 DEF HasBlock
    <3>2. i \in 1 .. k + 3
      BY <1>1, <2>2
    <3> QED BY <1>2, <1>5, <1>6, <2>2, <3>1, <3>2
  <2>3. CASE i = k + 1 \/ i = k + 2 \/ i = k + 3
    <3>1. i \in 1 .. k + 3
      BY <1>1, <2>3
    <3>2. raw[k + 1] = BEGIN /\ raw[k + 2] = Lines(s) /\ raw[k + 3] = END
      BY DEF HasBlock
    <3> QED BY <1>4, <1>5, <1>6, <2>3, <3>1, <3>2
  <2>4. CASE i \in k + 4 .. Len(own) + 3
    <3>1. i - (k + 3) \in 1 .. Len(own) - k /\ k + (i - (k + 3)) = i - 3
      BY <1>1, <2>4
    <3>2. raw[i] = own[i - 3]
      BY <2>4 DEF HasBlock
    <3> QED BY <1>3, <1>6, <2>4, <3>1, <3>2
  <2> QED BY <2>1, <2>2, <2>3, <2>4
<1>8. amc = raw
  BY <1>1, <1>6, <1>7
<1> QED BY <1>8 DEF amc, am, a, c, m

CronTypes ==
    /\ cronRow \in [CronJobs -> CronRow \cup {Nil}] /\ owner \in [CronJobs -> CronUsers \cup {Nil}]
    /\ crontab \in [CronUsers -> Seq(Line)] /\ kept \in [CronUsers -> Seq(OwnLine)]
    /\ ownLines \in [CronUsers -> Seq(OwnLine)] /\ behind \in [CronUsers -> BOOLEAN]

\* A row keeps its user.
RowsOwned == \A j \in CronJobs : cronRow[j] # Nil => cronRow[j].user = owner[j]

LinesKept ==
    \A u \in CronUsers :
        \/ crontab[u] = kept[u]
        \/ \E k, s : s \in SUBSET CronJobs /\ HasBlock(crontab[u], kept[u], k, s)

\* Lines are lost only in the rewrite of a crontab that was not read.
Unlost == \A u \in CronUsers : u \in unread \/ kept[u] = ownLines[u]

JobsRun ==
    \A u \in CronUsers : ~behind[u] => \A j \in CronJobs : owner[j] = u =>
        (RunsIn(crontab[u], j) <=> cronRow[j] # Nil /\ cronRow[j].enabled)

CronInv == CronTypes /\ RowsOwned /\ LinesKept /\ Unlost /\ JobsRun

LEMMA CronInvGives == CronInv => CrontabWhole
<1> SUFFICES ASSUME CronInv, NEW u \in CronUsers
             PROVE  /\ u \in unread \/ kept[u] = ownLines[u]
                    /\ \/ crontab[u] = kept[u]
                       \/ \E k \in 0 .. Len(kept[u]), s \in SUBSET CronJobs :
                             crontab[u] = SubSeq(kept[u], 1, k) \o Managed(s)
                                          \o SubSeq(kept[u], k + 1, Len(kept[u]))
                    /\ ~behind[u] => \A j \in CronJobs : owner[j] = u =>
                          (RunsIn(crontab[u], j) <=> cronRow[j] # Nil /\ cronRow[j].enabled)
  BY DEF CrontabWhole, SwitchedOn
<1>1. ASSUME NEW k, NEW s \in SUBSET CronJobs, HasBlock(crontab[u], kept[u], k, s)
      PROVE  /\ k \in 0 .. Len(kept[u])
             /\ crontab[u] = SubSeq(kept[u], 1, k) \o Managed(s)
                             \o SubSeq(kept[u], k + 1, Len(kept[u]))
  <2>1. kept[u] \in Seq(OwnLine) /\ crontab[u] \in Seq(Line)
    BY DEF CronInv, CronTypes
  <2>2. k \in 0 .. Len(kept[u])
    BY <1>1 DEF HasBlock
  <2> QED BY <1>1, <2>1, <2>2, BlockPieces
<1>2. \/ crontab[u] = kept[u]
      \/ \E k \in 0 .. Len(kept[u]), s \in SUBSET CronJobs :
            crontab[u] = SubSeq(kept[u], 1, k) \o Managed(s)
                         \o SubSeq(kept[u], k + 1, Len(kept[u]))
  BY <1>1 DEF CronInv, LinesKept
<1> QED BY <1>2 DEF CronInv, JobsRun, Unlost

LEMMA CronInvInit == CronInit => CronInv
<1> SUFFICES ASSUME CronInit PROVE CronInv
  OBVIOUS
<1>1. CronTypes
  BY DEF CronInit, CronTypes
<1>2. RowsOwned /\ LinesKept /\ Unlost
  BY DEF CronInit, RowsOwned, LinesKept, Unlost
<1>3. JobsRun
  BY DEF CronInit, JobsRun, RunsIn
<1> QED BY <1>1, <1>2, <1>3 DEF CronInv

\* The rewrite of a crontab.
LEMMA ApplyStep ==
  ASSUME CronTypes, LinesKept, Unlost, NEW u \in CronUsers, NEW reads \in BOOLEAN, NEW writes \in BOOLEAN,
         ApplyCrontab(u, reads, writes)
  PROVE  /\ crontab' \in [CronUsers -> Seq(Line)] /\ kept' \in [CronUsers -> Seq(OwnLine)]
         /\ behind' \in [CronUsers -> BOOLEAN]
         /\ LinesKept' /\ Unlost' /\ ownLines' = ownLines
         /\ \A w \in CronUsers \ {u} : crontab'[w] = crontab[w] /\ behind'[w] = behind[w]
         /\ ~behind'[u] => \A j \in CronJobs :
               RunsIn(crontab'[u], j) <=> cronRow'[j] # Nil /\ cronRow'[j].enabled
<1> DEFINE on == {j \in CronJobs : cronRow'[j] # Nil /\ cronRow'[j].enabled}
           read == IF reads THEN crontab[u] ELSE <<>>
<1>1. /\ behind' = [behind EXCEPT ![u] = ~writes]
      /\ crontab' = IF writes THEN [crontab EXCEPT ![u] = StripManaged(read) \o Managed(on)] ELSE crontab
      /\ kept' = IF writes /\ ~reads THEN [kept EXCEPT ![u] = <<>>] ELSE kept
      /\ unread' = IF writes /\ ~reads /\ crontab[u] # <<>> THEN unread \cup {u} ELSE unread
      /\ ownLines' = ownLines
  BY DEF ApplyCrontab, RenderManaged
<1>2. behind' \in [CronUsers -> BOOLEAN] /\ behind'[u] = ~writes
      /\ \A w \in CronUsers \ {u} : behind'[w] = behind[w]
  BY <1>1 DEF CronTypes
<1>3. CASE ~writes
  <2>1. crontab' = crontab /\ kept' = kept /\ unread' = unread
    BY <1>1, <1>3
  <2> QED BY <1>1, <1>2, <1>3, <2>1 DEF CronTypes, LinesKept, Unlost
<1>4. CASE writes
  <2>1. kept' \in [CronUsers -> Seq(OwnLine)] /\ StripManaged(read) = kept'[u]
        /\ \A w \in CronUsers \ {u} : kept'[w] = kept[w]
    <3>1. CASE reads
      <4>1. kept' = kept /\ read = crontab[u]
        BY <1>1, <3>1
      <4>2. kept[u] \in Seq(OwnLine) /\ crontab[u] \in Seq(Line)
        BY DEF CronTypes
      <4>3. StripManaged(crontab[u]) = kept[u]
        BY <4>2, StripGivesOwn, StripKeepsOwn DEF LinesKept
      <4> QED BY <4>1, <4>3 DEF CronTypes
    <3>2. CASE ~reads
      <4>1. kept' = [kept EXCEPT ![u] = <<>>] /\ read = <<>>
        BY <1>1, <1>4, <3>2
      <4>2. <<>> \in Seq(OwnLine)
        OBVIOUS
      <4>3. StripManaged(<<>>) = <<>>
        BY <4>2, StripKeepsOwn
      <4> QED BY <4>1, <4>2, <4>3 DEF CronTypes
    <3> QED BY <3>1, <3>2
  <2> DEFINE own == kept'[u]
  <2>2. own \in Seq(OwnLine) /\ on \in SUBSET CronJobs
    BY <2>1
  <2> HIDE DEF on, own, read
  <2>3. own \o Managed(on) \in Seq(Line) /\ HasBlock(own \o Managed(on), own, Len(own), on)
    BY <2>2, BlockAtEnd
  <2>4. crontab' = [crontab EXCEPT ![u] = own \o Managed(on)]
    BY <1>1, <1>4, <2>1 DEF own
  <2>5. crontab' \in [CronUsers -> Seq(Line)] /\ crontab'[u] = own \o Managed(on)
        /\ \A w \in CronUsers \ {u} : crontab'[w] = crontab[w]
    <3> DEFINE raw == own \o Managed(on)
    <3>1. raw \in Seq(Line) /\ crontab' = [crontab EXCEPT ![u] = raw]
      BY <2>3, <2>4
    <3> HIDE DEF raw
    <3>2. crontab' \in [CronUsers -> Seq(Line)] /\ crontab'[u] = raw
          /\ \A w \in CronUsers \ {u} : crontab'[w] = crontab[w]
      BY <3>1 DEF CronTypes
    <3> QED BY <3>2 DEF raw
  <2>6. HasBlock(crontab'[u], kept'[u], Len(own), on)
    BY <2>3, <2>5 DEF own
  <2>7. LinesKept'
    <3> SUFFICES ASSUME NEW w \in CronUsers
                 PROVE  \/ crontab'[w] = kept'[w]
                        \/ \E k, s : s \in SUBSET CronJobs /\ HasBlock(crontab'[w], kept'[w], k, s)
      BY DEF LinesKept
    <3>1. CASE w = u
      BY <2>2, <2>6, <3>1
    <3>2. CASE w # u
      <4>1. crontab'[w] = crontab[w] /\ kept'[w] = kept[w]
        BY <2>1, <2>5, <3>2
      <4> QED BY <4>1 DEF LinesKept
    <3> QED BY <3>1, <3>2
  <2>8. Unlost'
    <3> SUFFICES ASSUME NEW w \in CronUsers, w \notin unread' PROVE kept'[w] = ownLines[w]
      BY <1>1 DEF Unlost
    <3>1. w \notin unread /\ kept[w] = ownLines[w]
      BY <1>1 DEF Unlost
    <3>2. CASE reads \/ w # u
      BY <1>1, <3>1, <3>2 DEF CronTypes
    <3>3. CASE ~reads /\ w = u
      <4>1. crontab[u] = <<>>
        BY <1>1, <1>4, <3>3
      <4>2. Len(crontab[u]) = 0 /\ kept[u] \in Seq(OwnLine)
        BY <4>1 DEF CronTypes
      <4>3. kept[u] = <<>>
        <5>1. ASSUME NEW k, NEW s, HasBlock(crontab[u], kept[u], k, s) PROVE FALSE
          BY <4>2, <5>1 DEF HasBlock
        <5> QED BY <4>1, <5>1 DEF LinesKept
      <4>4. kept'[u] = <<>>
        BY <1>1, <1>4, <3>3 DEF CronTypes
      <4> QED BY <3>1, <3>3, <4>3, <4>4
    <3> QED BY <3>2, <3>3
  <2>9. ASSUME NEW j \in CronJobs
        PROVE  RunsIn(crontab'[u], j) <=> cronRow'[j] # Nil /\ cronRow'[j].enabled
    <3>1. RunsIn(crontab'[u], j) <=> j \in on
      <4> DEFINE raw == own \o Managed(on)
                 k == Len(own)
      <4>1. raw \in Seq(Line) /\ HasBlock(raw, own, k, on) /\ crontab'[u] = raw
        BY <2>3, <2>5
      <4> HIDE DEF raw, k
      <4> QED BY <2>2, <4>1, BlockRuns
    <3> QED BY <3>1 DEF on
  <2> QED BY <1>1, <1>2, <2>1, <2>5, <2>7, <2>8, <2>9
<1> QED BY <1>3, <1>4

\* A change of a row, then the rewrite of its user's crontab.
LEMMA RowStep ==
  ASSUME CronInv, NEW j0 \in CronJobs, NEW u \in CronUsers, NEW reads \in BOOLEAN, NEW writes \in BOOLEAN,
         NEW row \in CronRow \cup {Nil}, row # Nil => row.user = u,
         cronRow' = [cronRow EXCEPT ![j0] = row], owner' = [owner EXCEPT ![j0] = u],
         ApplyCrontab(u, reads, writes)
  PROVE  CronInv'
<1>1. /\ crontab' \in [CronUsers -> Seq(Line)] /\ kept' \in [CronUsers -> Seq(OwnLine)]
      /\ behind' \in [CronUsers -> BOOLEAN]
      /\ LinesKept' /\ Unlost' /\ ownLines' = ownLines
      /\ \A w \in CronUsers \ {u} : crontab'[w] = crontab[w] /\ behind'[w] = behind[w]
      /\ ~behind'[u] => \A j \in CronJobs :
            RunsIn(crontab'[u], j) <=> cronRow'[j] # Nil /\ cronRow'[j].enabled
  BY ApplyStep DEF CronInv
<1>2. /\ cronRow' \in [CronJobs -> CronRow \cup {Nil}] /\ owner' \in [CronJobs -> CronUsers \cup {Nil}]
      /\ cronRow'[j0] = row /\ owner'[j0] = u
      /\ \A j \in CronJobs \ {j0} : cronRow'[j] = cronRow[j] /\ owner'[j] = owner[j]
  BY DEF CronInv, CronTypes
<1>3. CronTypes'
  BY <1>1, <1>2 DEF CronInv, CronTypes
<1>4. RowsOwned'
  BY <1>2 DEF CronInv, RowsOwned
<1>5. JobsRun'
  <2> SUFFICES ASSUME NEW w \in CronUsers, ~behind'[w], NEW j \in CronJobs, owner'[j] = w
               PROVE  RunsIn(crontab'[w], j) <=> cronRow'[j] # Nil /\ cronRow'[j].enabled
    BY DEF JobsRun
  <2>1. CASE w = u
    BY <1>1, <2>1
  <2>2. CASE w # u
    <3>1. j # j0
      BY <1>2, <2>2
    <3>2. cronRow'[j] = cronRow[j] /\ owner[j] = w /\ crontab'[w] = crontab[w] /\ ~behind[w]
      BY <1>1, <1>2, <2>2, <3>1
    <3> QED BY <3>2 DEF CronInv, JobsRun
  <2> QED BY <2>1, <2>2
<1> QED BY <1>1, <1>3, <1>4, <1>5 DEF CronInv

LEMMA UserEditsStep ==
  ASSUME CronInv, NEW u \in CronUsers, NEW front \in BOOLEAN, UserEdits(u, front)
  PROVE  CronInv'
<1> DEFINE line == Own(Len(ownLines[u]) + 1)
           at(t) == IF front THEN <<line>> \o t ELSE t \o <<line>>
<1>1. kept[u] \in Seq(OwnLine) /\ crontab[u] \in Seq(Line) /\ ownLines[u] \in Seq(OwnLine)
  BY DEF CronInv, CronTypes
<1>2. line \in OwnLine
  BY <1>1 DEF OwnLine
<1>3. /\ crontab' = [crontab EXCEPT ![u] = at(crontab[u])]
      /\ kept' = [kept EXCEPT ![u] = at(kept[u])]
      /\ ownLines' = [ownLines EXCEPT ![u] = at(ownLines[u])]
      /\ UNCHANGED <<cronRow, owner, unread, behind>>
  BY DEF UserEdits
<1> HIDE DEF line
<1>4. at(kept[u]) \in Seq(OwnLine) /\ at(crontab[u]) \in Seq(Line) /\ at(ownLines[u]) \in Seq(OwnLine)
  BY <1>1, <1>2, LineSets
<1> HIDE DEF at
<1>5. /\ crontab' \in [CronUsers -> Seq(Line)] /\ kept' \in [CronUsers -> Seq(OwnLine)]
      /\ crontab'[u] = at(crontab[u]) /\ kept'[u] = at(kept[u])
      /\ \A w \in CronUsers \ {u} : crontab'[w] = crontab[w] /\ kept'[w] = kept[w]
      /\ ownLines' \in [CronUsers -> Seq(OwnLine)] /\ ownLines'[u] = at(ownLines[u])
      /\ \A w \in CronUsers \ {u} : ownLines'[w] = ownLines[w]
  BY <1>3, <1>4 DEF CronInv, CronTypes
<1>6. CronTypes' /\ RowsOwned'
  BY <1>3, <1>5 DEF CronInv, CronTypes, RowsOwned
<1>7. ASSUME NEW k, NEW s, HasBlock(crontab[u], kept[u], k, s)
      PROVE  \E k1 : HasBlock(crontab'[u], kept'[u], k1, s)
  <2>1. CASE front
    <3>1. at(crontab[u]) = <<line>> \o crontab[u] /\ at(kept[u]) = <<line>> \o kept[u]
      BY <2>1 DEF at
    <3>2. HasBlock(<<line>> \o crontab[u], <<line>> \o kept[u], k + 1, s)
      BY <1>1, <1>2, <1>7, BlockMoves
    <3> QED BY <1>5, <3>1, <3>2
  <2>2. CASE ~front
    <3>1. at(crontab[u]) = crontab[u] \o <<line>> /\ at(kept[u]) = kept[u] \o <<line>>
      BY <2>2 DEF at
    <3>2. HasBlock(crontab[u] \o <<line>>, kept[u] \o <<line>>, k, s)
      BY <1>1, <1>2, <1>7, BlockStays
    <3> QED BY <1>5, <3>1, <3>2
  <2> QED BY <2>1, <2>2
<1>8. LinesKept'
  <2> SUFFICES ASSUME NEW w \in CronUsers
               PROVE  \/ crontab'[w] = kept'[w]
                      \/ \E k, s : s \in SUBSET CronJobs /\ HasBlock(crontab'[w], kept'[w], k, s)
    BY DEF LinesKept
  <2>1. CASE w = u
    <3>1. CASE crontab[u] = kept[u]
      BY <1>5, <2>1, <3>1
    <3>2. CASE \E k, s : s \in SUBSET CronJobs /\ HasBlock(crontab[u], kept[u], k, s)
      BY <1>7, <2>1, <3>2
    <3> QED BY <3>1, <3>2 DEF CronInv, LinesKept
  <2>2. CASE w # u
    <3>1. crontab'[w] = crontab[w] /\ kept'[w] = kept[w]
      BY <1>5, <2>2
    <3> QED BY <3>1 DEF CronInv, LinesKept
  <2> QED BY <2>1, <2>2
<1>9. ASSUME NEW j PROVE RunsIn(crontab'[u], j) <=> RunsIn(crontab[u], j)
  <2>0. crontab'[u] \in Seq(Line) /\ kept'[u] \in Seq(OwnLine)
    BY <1>4, <1>5
  <2>1. CASE crontab[u] = kept[u]
    <3>1. crontab'[u] = kept'[u]
      BY <1>5, <2>1
    <3> QED BY <1>1, <2>0, <2>1, <3>1, OwnRunsNothing
  <2>2. CASE \E k, s : s \in SUBSET CronJobs /\ HasBlock(crontab[u], kept[u], k, s)
    <3>1. PICK k, s : HasBlock(crontab[u], kept[u], k, s)
      BY <2>2
    <3>2. PICK k1 : HasBlock(crontab'[u], kept'[u], k1, s)
      BY <1>7, <3>1
    <3>3. RunsIn(crontab[u], j) <=> j \in s
      BY <1>1, <3>1, BlockRuns
    <3>4. RunsIn(crontab'[u], j) <=> j \in s
      BY <2>0, <3>2, BlockRuns
    <3> QED BY <3>3, <3>4
  <2> QED BY <2>1, <2>2 DEF CronInv, LinesKept
<1>10. JobsRun'
  <2> SUFFICES ASSUME NEW w \in CronUsers, ~behind'[w], NEW j \in CronJobs, owner'[j] = w
               PROVE  RunsIn(crontab'[w], j) <=> cronRow'[j] # Nil /\ cronRow'[j].enabled
    BY DEF JobsRun
  <2>1. cronRow' = cronRow /\ ~behind[w] /\ owner[j] = w
    BY <1>3
  <2>2. RunsIn(crontab[w], j) <=> cronRow[j] # Nil /\ cronRow[j].enabled
    BY <2>1 DEF CronInv, JobsRun
  <2>3. CASE w = u
    BY <1>9, <2>1, <2>2, <2>3
  <2>4. CASE w # u
    BY <1>5, <2>1, <2>2, <2>4
  <2> QED BY <2>3, <2>4
<1>11. Unlost'
  <2> SUFFICES ASSUME NEW w \in CronUsers, w \notin unread' PROVE kept'[w] = ownLines'[w]
    BY DEF Unlost
  <2>1. kept[w] = ownLines[w]
    BY <1>3 DEF CronInv, Unlost
  <2>2. CASE w = u
    BY <1>5, <2>1, <2>2
  <2>3. CASE w # u
    BY <1>5, <2>1, <2>3
  <2> QED BY <2>2, <2>3
<1> QED BY <1>6, <1>8, <1>10, <1>11 DEF CronInv

LEMMA CronInvStep == CronInv /\ [CronNext]_cronVars => CronInv'
<1> SUFFICES ASSUME CronInv, [CronNext]_cronVars PROVE CronInv'
  OBVIOUS
<1>0. cronRow \in [CronJobs -> CronRow \cup {Nil}] /\ owner \in [CronJobs -> CronUsers \cup {Nil}]
  BY DEF CronInv, CronTypes
<1>1. CASE UNCHANGED cronVars
  BY <1>1 DEF cronVars, CronInv, CronTypes, RowsOwned, LinesKept, Unlost, JobsRun
<1>2. ASSUME NEW j \in CronJobs, NEW u \in CronUsers, NEW reads \in BOOLEAN, NEW writes \in BOOLEAN,
             CronCreate(j, u, reads, writes)
      PROVE  CronInv'
  <2> DEFINE row == [user |-> u, enabled |-> TRUE]
  <2>1. row \in CronRow \cup {Nil} /\ row.user = u
    BY DEF CronRow
  <2>2. /\ cronRow' = [cronRow EXCEPT ![j] = row] /\ owner' = [owner EXCEPT ![j] = u]
        /\ ApplyCrontab(u, reads, writes)
    BY <1>2 DEF CronCreate
  <2> HIDE DEF row
  <2> QED BY <2>1, <2>2, RowStep
<1>3. ASSUME NEW j \in CronJobs, cronRow[j] # Nil
      PROVE  /\ cronRow[j] \in CronRow /\ cronRow[j].user \in CronUsers
             /\ owner = [owner EXCEPT ![j] = cronRow[j].user]
  <2>1. cronRow[j] \in CronRow /\ cronRow[j].user \in CronUsers
    BY <1>0, <1>3 DEF CronRow
  <2>2. owner[j] = cronRow[j].user
    BY <1>3 DEF CronInv, RowsOwned
  <2> QED BY <1>0, <2>1, <2>2
<1>4. ASSUME NEW j \in CronJobs, NEW enabled \in BOOLEAN, NEW reads \in BOOLEAN, NEW writes \in BOOLEAN,
             CronSetEnabled(j, enabled, reads, writes)
      PROVE  CronInv'
  <2> DEFINE row == [cronRow[j] EXCEPT !.enabled = enabled]
             u == cronRow[j].user
  <2>1. cronRow[j] # Nil /\ cronRow' = [cronRow EXCEPT ![j] = row] /\ ApplyCrontab(u, reads, writes)
        /\ owner' = owner
    BY <1>4 DEF CronSetEnabled
  <2>2. row \in CronRow \cup {Nil} /\ (row # Nil => row.user = u)
    BY <1>3, <2>1 DEF CronRow
  <2>3. u \in CronUsers /\ owner' = [owner EXCEPT ![j] = u]
    BY <1>3, <2>1
  <2> HIDE DEF row, u
  <2> QED BY <2>1, <2>2, <2>3, RowStep
<1>5. ASSUME NEW j \in CronJobs, NEW reads \in BOOLEAN, NEW writes \in BOOLEAN,
             CronDelete(j, reads, writes)
      PROVE  CronInv'
  <2> DEFINE u == cronRow[j].user
  <2>1. cronRow[j] # Nil /\ cronRow' = [cronRow EXCEPT ![j] = Nil] /\ ApplyCrontab(u, reads, writes)
        /\ owner' = owner
    BY <1>5 DEF CronDelete
  <2>2. u \in CronUsers /\ owner' = [owner EXCEPT ![j] = u] /\ Nil \in CronRow \cup {Nil}
    BY <1>3, <2>1
  <2> HIDE DEF u
  <2> QED BY <2>1, <2>2, RowStep
<1> QED BY <1>1, <1>2, <1>4, <1>5, UserEditsStep DEF CronNext

\* Any number of users, jobs, rewrites and lines of the users: what the panel
\* writes into a crontab never takes, doubles or moves a line of the user,
\* unless it could not read the crontab before, and after a rewrite that
\* succeeded a crontab runs, of its own user's jobs, exactly those switched on.
THEOREM CrontabsStayWhole == CronSpec => []CrontabWhole
<1> QED BY CronInvInit, CronInvStep, CronInvGives, PTL DEF CronSpec

(***************************************************************************)
(* The file manager (V1Files), for trees of any depth. Paths are ordered   *)
(* by "leads to" (PrefixOrder); a file system is a Tree when every path    *)
(* that exists hangs below directories and the roots are there. The proof  *)
(* is about the two ways files get to a new place: Put, and Grafted, whose *)
(* target is free, in a directory, and not below what is copied or moved   *)
(* (GraftTree).                                                            *)
(***************************************************************************)
\* The names of which paths are made.
Names == Seq(FileNames)

LEMMA PathIs == \A p : p \in Paths <=> p \in Names /\ Len(p) \in 1 .. MaxDepth /\ p[1] \in Roots
<1>1. ASSUME NEW p \in Paths PROVE p \in Names /\ Len(p) \in 1 .. MaxDepth /\ p[1] \in Roots
  <2>1. PICK k \in 1 .. MaxDepth : p \in [1 .. k -> FileNames]
    BY DEF Paths
  <2>2. p \in Names /\ Len(p) = k
    BY <2>1, FilesAssumption DEF Names
  <2> QED BY <2>1, <2>2 DEF Paths
<1>2. ASSUME NEW p \in Names, Len(p) \in 1 .. MaxDepth, p[1] \in Roots PROVE p \in Paths
  <2>1. p \in [1 .. Len(p) -> FileNames]
    BY DEF Names
  <2> QED BY <1>2, <2>1 DEF Paths
<1> QED BY <1>1, <1>2

LEMMA PrefixIs ==
  ASSUME NEW p \in Names, NEW q \in Names
  PROVE  /\ IsPrefix(p, q) <=> Len(p) <= Len(q) /\ \A i \in 1 .. Len(p) : p[i] = q[i]
         /\ IsStrictPrefix(p, q) <=> Len(p) < Len(q) /\ \A i \in 1 .. Len(p) : p[i] = q[i]
<1>1. SubSeq(p, 1, Len(p)) = p
  BY DEF Names
<1>2. ASSUME Len(p) <= Len(q)
      PROVE  p = SubSeq(q, 1, Len(p)) <=> \A i \in 1 .. Len(p) : p[i] = q[i]
  <2> DEFINE t == SubSeq(q, 1, Len(p))
  <2>1. t \in Names /\ Len(t) = Len(p) /\ \A i \in 1 .. Len(p) : t[i] = q[i]
    BY <1>2 DEF Names
  <2> HIDE DEF t
  <2>2. ASSUME \A i \in 1 .. Len(p) : p[i] = q[i] PROVE p = t
    BY <2>1, <2>2 DEF Names
  <2>3. p = t <=> \A i \in 1 .. Len(p) : p[i] = q[i]
    BY <2>1, <2>2
  <2> QED BY <2>3 DEF t
<1>3. IsPrefix(p, q) <=> Len(p) <= Len(q) /\ \A i \in 1 .. Len(p) : p[i] = q[i]
  BY <1>1, <1>2 DEF IsPrefix
<1>4. ASSUME Len(p) = Len(q), \A i \in 1 .. Len(p) : p[i] = q[i] PROVE p = q
  BY <1>4 DEF Names
<1>5. Len(p) \in Nat /\ Len(q) \in Nat
  BY DEF Names
<1>6. IsStrictPrefix(p, q) <=> Len(p) < Len(q) /\ \A i \in 1 .. Len(p) : p[i] = q[i]
  BY <1>3, <1>4, <1>5 DEF IsStrictPrefix
<1> QED BY <1>3, <1>6

\* The order of the paths: those that lead to one path follow each other.
LEMMA PrefixOrder ==
  ASSUME NEW p \in Names, NEW q \in Names, NEW r \in Names
  PROVE  /\ IsPrefix(p, p)
         /\ IsPrefix(p, q) <=> p = q \/ IsStrictPrefix(p, q)
         /\ ~IsStrictPrefix(p, p)
         /\ IsPrefix(p, q) /\ IsPrefix(q, r) => IsPrefix(p, r)
         /\ IsPrefix(p, q) /\ IsStrictPrefix(q, r) => IsStrictPrefix(p, r)
         /\ IsStrictPrefix(p, q) /\ IsPrefix(q, r) => IsStrictPrefix(p, r)
         /\ IsPrefix(p, r) /\ IsPrefix(q, r) => IsPrefix(p, q) \/ IsStrictPrefix(q, p)
         /\ IsPrefix(p, q) /\ IsPrefix(q, p) => p = q
<1>1. Len(p) \in Nat /\ Len(q) \in Nat /\ Len(r) \in Nat
  BY DEF Names
<1>2. IsPrefix(p, p) /\ ~IsStrictPrefix(p, p)
  BY <1>1, PrefixIs
<1>3. IsPrefix(p, q) <=> p = q \/ IsStrictPrefix(p, q)
  BY <1>2 DEF IsStrictPrefix
<1>4. IsPrefix(p, q) /\ IsPrefix(q, r) => IsPrefix(p, r)
  BY <1>1, PrefixIs
<1>5. IsPrefix(p, q) /\ IsStrictPrefix(q, r) => IsStrictPrefix(p, r)
  BY <1>1, PrefixIs
<1>6. IsStrictPrefix(p, q) /\ IsPrefix(q, r) => IsStrictPrefix(p, r)
  BY <1>1, PrefixIs
<1>7. IsPrefix(p, r) /\ IsPrefix(q, r) => IsPrefix(p, q) \/ IsStrictPrefix(q, p)
  <2> SUFFICES ASSUME IsPrefix(p, r), IsPrefix(q, r) PROVE IsPrefix(p, q) \/ IsStrictPrefix(q, p)
    OBVIOUS
  <2>1. /\ \A i \in 1 .. Len(p) : p[i] = r[i]
        /\ \A i \in 1 .. Len(q) : q[i] = r[i]
    BY PrefixIs
  <2>2. CASE Len(p) <= Len(q)
    <3>1. \A i \in 1 .. Len(p) : p[i] = q[i]
      BY <1>1, <2>1, <2>2
    <3> QED BY <2>2, <3>1, PrefixIs
  <2>3. CASE Len(q) < Len(p)
    <3>1. \A i \in 1 .. Len(q) : q[i] = p[i]
      BY <1>1, <2>1, <2>3
    <3> QED BY <2>3, <3>1, PrefixIs
  <2> QED BY <1>1, <2>2, <2>3
<1>8. IsPrefix(p, q) /\ IsPrefix(q, p) => p = q
  BY <1>1, PrefixIs DEF IsStrictPrefix
<1> QED BY <1>2, <1>3, <1>4, <1>5, <1>6, <1>7, <1>8

LEMMA PathNames == Paths \subseteq Names /\ RootPaths \subseteq Paths
<1>1. ASSUME NEW r \in Roots PROVE <<r>> \in Paths
  <2> DEFINE p == <<r>>
  <2>1. p \in Names /\ Len(p) = 1 /\ p[1] = r
    BY FilesAssumption DEF Names
  <2>2. 1 \in 1 .. MaxDepth
    BY FilesAssumption
  <2> HIDE DEF p
  <2>3. p \in Paths
    BY <2>1, <2>2, PathIs
  <2> QED BY <2>3 DEF p
<1> QED BY <1>1, PathIs DEF RootPaths

\* A prefix of a path is one, if it is not empty; and only a root leads to a
\* root.
LEMMA PrefixPath ==
  ASSUME NEW p \in Names, NEW q \in Paths, IsPrefix(p, q), Len(p) >= 1
  PROVE  p \in Paths
<1>1. q \in Names /\ Len(q) \in 1 .. MaxDepth /\ q[1] \in Roots
  BY PathIs
<1>2. Len(p) <= Len(q) /\ Len(p) \in Nat /\ \A i \in 1 .. Len(p) : p[i] = q[i]
  BY <1>1, PrefixIs DEF Names
<1>3. p[1] = q[1] /\ Len(p) \in 1 .. MaxDepth
  BY <1>1, <1>2, FilesAssumption
<1> QED BY <1>1, <1>3, PathIs

LEMMA RootLen == \A p \in Paths : p \in RootPaths <=> Len(p) = 1
<1> SUFFICES ASSUME NEW p \in Paths PROVE p \in RootPaths <=> Len(p) = 1
  OBVIOUS
<1>1. p \in Names /\ p[1] \in Roots
  BY PathIs
<1>2. ASSUME Len(p) = 1 PROVE p = <<p[1]>>
  BY <1>1, <1>2 DEF Names
<1> QED BY <1>1, <1>2 DEF RootPaths

LEMMA RootShort == ASSUME NEW p \in Paths, Len(p) > 1 PROVE p \notin RootPaths
<1>1. Len(p) \in 1 .. MaxDepth
  BY PathIs
<1> DEFINE n == Len(p)
<1>2. n \in 1 .. MaxDepth /\ n > 1
  BY <1>1
<1> HIDE DEF n
<1>3. n # 1
  BY <1>2
<1> QED BY <1>3, RootLen DEF n

LEMMA RootPrefix ==
  ASSUME NEW p \in Paths, NEW r \in RootPaths, IsPrefix(p, r)
  PROVE  p = r
<1>1. Len(r) = 1 /\ r \in Paths /\ p \in Names /\ r \in Names /\ Len(p) \in 1 .. MaxDepth
  BY RootLen, PathNames, PathIs
<1>2. ~IsStrictPrefix(p, r)
  BY <1>1, PrefixIs
<1> QED BY <1>2 DEF IsStrictPrefix

\* A name more.
LEMMA AppendPath ==
  ASSUME NEW d \in Paths, Len(d) < MaxDepth, NEW n \in FileNames
  PROVE  /\ Append(d, n) \in Paths /\ Len(Append(d, n)) = Len(d) + 1
         /\ IsStrictPrefix(d, Append(d, n))
         /\ \A q \in Paths : IsStrictPrefix(q, Append(d, n)) => IsPrefix(q, d)
<1>1. d \in Names /\ Len(d) \in 1 .. MaxDepth /\ d[1] \in Roots
  BY PathIs
<1> DEFINE t == Append(d, n)
<1>2. t \in Names /\ Len(t) = Len(d) + 1 /\ \A i \in 1 .. Len(d) : t[i] = d[i]
  BY <1>1 DEF Names
<1> HIDE DEF t
<1>3. t \in Paths
  <2>1. t[1] = d[1] /\ Len(t) \in 1 .. MaxDepth
    BY <1>1, <1>2, FilesAssumption
  <2> QED BY <1>1, <1>2, <2>1, PathIs
<1>4. IsStrictPrefix(d, t)
  BY <1>1, <1>2, PrefixIs
<1>5. ASSUME NEW q \in Paths, IsStrictPrefix(q, t) PROVE IsPrefix(q, d)
  <2>1. q \in Names /\ Len(q) \in Nat
    BY PathIs DEF Names
  <2>2. Len(q) < Len(t) /\ \A i \in 1 .. Len(q) : q[i] = t[i]
    BY <1>2, <1>5, <2>1, PrefixIs
  <2>3. Len(q) <= Len(d) /\ \A i \in 1 .. Len(q) : q[i] = d[i]
    BY <1>1, <1>2, <2>1, <2>2
  <2> QED BY <1>1, <2>1, <2>3, PrefixIs
<1> QED BY <1>2, <1>3, <1>4, <1>5 DEF t

LEMMA ParentPath ==
  ASSUME NEW p \in Paths, Len(p) > 1
  PROVE  /\ Parent(p) \in Paths /\ Len(Parent(p)) = Len(p) - 1 /\ IsStrictPrefix(Parent(p), p)
<1>1. p \in Names /\ Len(p) \in 1 .. MaxDepth
  BY PathIs
<1> DEFINE d == Parent(p)
<1>2. d \in Names /\ Len(d) = Len(p) - 1 /\ \A i \in 1 .. Len(p) - 1 : d[i] = p[i]
  BY <1>1 DEF Names, Parent
<1> HIDE DEF d
<1>3. IsStrictPrefix(d, p) /\ Len(d) >= 1
  BY <1>1, <1>2, PrefixIs, FilesAssumption
<1>4. d \in Paths
  BY <1>2, <1>3, PrefixPath DEF IsStrictPrefix
<1> QED BY <1>2, <1>3, <1>4 DEF d

\* The path q, with what leads to it up to its k-th name replaced by u.
Moved(u, q, k) == u \o SubSeq(q, k + 1, Len(q))

LEMMA MovedIs ==
  ASSUME NEW u \in Names, NEW q \in Names, NEW k \in 0 .. Len(q)
  PROVE  /\ Moved(u, q, k) \in Names /\ Len(Moved(u, q, k)) = Len(u) + Len(q) - k
         /\ \A i \in 1 .. Len(u) : Moved(u, q, k)[i] = u[i]
         /\ \A i \in Len(u) + 1 .. Len(u) + Len(q) - k : Moved(u, q, k)[i] = q[i - Len(u) + k]
<1> DEFINE w == SubSeq(q, k + 1, Len(q))
           t == u \o w
<1>1. w \in Names /\ Len(w) = Len(q) - k /\ \A i \in 1 .. Len(q) - k : w[i] = q[i + k]
  BY DEF Names
<1>2. Len(u) \in Nat /\ Len(q) \in Nat /\ k \in Nat
  BY DEF Names
<1> HIDE DEF w
<1>3. t \in Names /\ Len(t) = Len(u) + Len(w)
  <2>1. w \in Seq(FileNames) /\ u \in Seq(FileNames)
    BY <1>1 DEF Names
  <2>2. t \in Seq(FileNames)
    BY <2>1
  <2>3. Len(t) = Len(u) + Len(w)
    BY <2>1
  <2> QED BY <2>2, <2>3 DEF Names
<1>4. \A i \in 1 .. Len(u) : t[i] = u[i]
  BY <1>1 DEF Names
<1>5. \A i \in Len(u) + 1 .. Len(u) + Len(w) : t[i] = w[i - Len(u)]
  BY <1>1 DEF Names
<1> HIDE DEF t
<1>6. ASSUME NEW i \in Len(u) + 1 .. Len(u) + Len(q) - k PROVE t[i] = q[i - Len(u) + k]
  <2>1. i \in Len(u) + 1 .. Len(u) + Len(w) /\ i - Len(u) \in 1 .. Len(q) - k
    BY <1>1, <1>2
  <2> QED BY <1>1, <1>5, <2>1
<1>7. Len(t) = Len(u) + Len(q) - k
  BY <1>1, <1>2, <1>3
<1> QED BY <1>3, <1>4, <1>6, <1>7 DEF t, w, Moved

\* Moving below another path keeps the order, and can be undone.
LEMMA MovedOrder ==
  ASSUME NEW src \in Paths, NEW t \in Paths, NEW p \in Paths, NEW q \in Paths,
         IsPrefix(t, q), IsStrictPrefix(q, p)
  PROVE  /\ Moved(src, q, Len(t)) \in Names /\ Moved(src, p, Len(t)) \in Names
         /\ IsStrictPrefix(Moved(src, q, Len(t)), Moved(src, p, Len(t)))
         /\ Moved(src, p, Len(t)) \in Paths => Moved(src, q, Len(t)) \in Paths
<1> DEFINE a == Moved(src, q, Len(t))
           b == Moved(src, p, Len(t))
           k == Len(t)
           m == Len(src)
<1>1. /\ src \in Names /\ t \in Names /\ p \in Names /\ q \in Names
      /\ k \in Nat /\ m \in Nat /\ m >= 1 /\ Len(p) \in Nat /\ Len(q) \in Nat
  BY PathIs DEF Names
<1>2. k <= Len(q) /\ Len(q) < Len(p) /\ \A i \in 1 .. Len(q) : q[i] = p[i]
  BY <1>1, PrefixIs
<1>3. k \in 0 .. Len(q) /\ k \in 0 .. Len(p)
  BY <1>1, <1>2
<1>4. /\ a \in Names /\ Len(a) = m + Len(q) - k
      /\ \A i \in 1 .. m : a[i] = src[i]
      /\ \A i \in m + 1 .. m + Len(q) - k : a[i] = q[i - m + k]
  BY <1>1, <1>3, MovedIs
<1>5. /\ b \in Names /\ Len(b) = m + Len(p) - k
      /\ \A i \in 1 .. m : b[i] = src[i]
      /\ \A i \in m + 1 .. m + Len(p) - k : b[i] = p[i - m + k]
  BY <1>1, <1>3, MovedIs
<1> HIDE DEF a, b, k, m
<1>6. \A i \in 1 .. Len(a) : a[i] = b[i]
  <2> SUFFICES ASSUME NEW i \in 1 .. Len(a) PROVE a[i] = b[i]
    OBVIOUS
  <2>1. CASE i <= m
    <3>1. i \in 1 .. m
      BY <1>1, <1>4, <2>1
    <3> QED BY <1>4, <1>5, <3>1
  <2>2. CASE i > m
    <3>1. i \in m + 1 .. m + Len(q) - k /\ i \in m + 1 .. m + Len(p) - k /\ i - m + k \in 1 .. Len(q)
      BY <1>1, <1>2, <1>4, <2>2
    <3> QED BY <1>2, <1>4, <1>5, <3>1
  <2>3. i \in Nat
    OBVIOUS
  <2> QED BY <1>1, <2>1, <2>2, <2>3
<1>7. Len(a) < Len(b) /\ Len(a) >= 1
  BY <1>1, <1>2, <1>4, <1>5
<1>8. IsStrictPrefix(a, b)
  BY <1>4, <1>5, <1>6, <1>7, PrefixIs
<1>9. b \in Paths => a \in Paths
  BY <1>4, <1>5, <1>7, <1>8, PrefixPath DEF IsStrictPrefix
<1> QED BY <1>4, <1>5, <1>8, <1>9 DEF a, b, k

LEMMA MovedBack ==
  ASSUME NEW src \in Paths, NEW t \in Paths, NEW p \in Paths, IsPrefix(src, p),
         Len(p) - Len(src) + Len(t) <= MaxDepth
  PROVE  LET q == Moved(t, p, Len(src))
         IN q \in Paths /\ IsPrefix(t, q) /\ Moved(src, q, Len(t)) = p
<1> DEFINE q == Moved(t, p, Len(src))
           b == Moved(src, q, Len(t))
           k == Len(t)
           m == Len(src)
<1>1. /\ src \in Names /\ t \in Names /\ p \in Names /\ t[1] \in Roots
      /\ k \in Nat /\ m \in Nat /\ m >= 1 /\ k >= 1 /\ Len(p) \in Nat
  BY PathIs DEF Names
<1>2. m <= Len(p) /\ \A i \in 1 .. m : src[i] = p[i]
  BY <1>1, PrefixIs
<1>3. m \in 0 .. Len(p)
  BY <1>1, <1>2
<1>4. /\ q \in Names /\ Len(q) = k + Len(p) - m
      /\ \A i \in 1 .. k : q[i] = t[i]
      /\ \A i \in k + 1 .. k + Len(p) - m : q[i] = p[i - k + m]
  BY <1>1, <1>3, MovedIs
<1>5. q \in Paths
  <2>1. Len(p) - m + k <= MaxDepth
    OBVIOUS
  <2> HIDE DEF q, b, k, m
  <2>2. Len(q) \in 1 .. MaxDepth
    BY <1>1, <1>2, <1>4, <2>1, FilesAssumption
  <2>3. q[1] = t[1]
    BY <1>1, <1>4
  <2> QED BY <1>1, <1>4, <2>2, <2>3, PathIs
<1>6. IsPrefix(t, q)
  <2>1. k <= Len(q) /\ \A i \in 1 .. k : t[i] = q[i]
    <3> HIDE DEF q, b, k, m
    <3> QED BY <1>1, <1>2, <1>4
  <2> HIDE DEF q, b
  <2> QED BY <1>1, <1>4, <2>1, PrefixIs
<1>7. k \in 0 .. Len(q)
  <2> HIDE DEF q, b, k, m
  <2> QED BY <1>1, <1>2, <1>4
<1>8. /\ b \in Names /\ Len(b) = m + Len(q) - k
      /\ \A i \in 1 .. m : b[i] = src[i]
      /\ \A i \in m + 1 .. m + Len(q) - k : b[i] = q[i - m + k]
  <2> HIDE DEF q
  <2> QED BY <1>1, <1>4, <1>7, MovedIs
<1>9. b = p
  <2> HIDE DEF q, b, k, m
  <2>1. Len(b) = Len(p)
    BY <1>1, <1>2, <1>4, <1>8
  <2>2. ASSUME NEW i \in 1 .. Len(p) PROVE b[i] = p[i]
    <3>1. CASE i <= m
      <4>1. i \in 1 .. m
        BY <1>1, <3>1
      <4> QED BY <1>2, <1>8, <4>1
    <3>2. CASE i > m
      <4>1. i \in m + 1 .. m + Len(q) - k /\ i - m + k \in k + 1 .. k + Len(p) - m
            /\ (i - m + k) - k + m = i
        BY <1>1, <1>2, <1>4, <3>2
      <4>2. b[i] = q[i - m + k]
        BY <1>8, <4>1
      <4>3. q[i - m + k] = p[(i - m + k) - k + m]
        BY <1>4, <4>1
      <4> QED BY <4>1, <4>2, <4>3
    <3> QED BY <1>1, <3>1, <3>2
  <2>3. b \in [1 .. Len(p) -> FileNames] /\ p \in [1 .. Len(p) -> FileNames]
    BY <1>1, <1>8, <2>1 DEF Names
  <2> QED BY <2>2, <2>3
<1> QED BY <1>5, <1>6, <1>9

\* What a file system always is: everything hangs below directories.
Hangs(f) == \A p \in Paths : Exists(f, p) => \A q \in Paths : IsStrictPrefix(q, p) => IsDir(f, q)
Rooted(f) == \A p \in RootPaths : IsDir(f, p)
Tree(f) == f \in [Paths -> Nat \cup {Nil}] /\ Rooted(f) /\ Hangs(f)

KeepsContents(f, g) == Contents(f) \subseteq Contents(g)
KeepsPaths(f, g) == \A p \in Paths : Exists(f, p) => g[p] = f[p]

LEMMA DirExists == \A f, p : IsDir(f, p) => Exists(f, p)
  BY FilesAssumption DEF IsDir, Exists, Dir

LEMMA KeepsBoth == ASSUME NEW f, NEW g, KeepsPaths(f, g) PROVE KeepsContents(f, g)
  BY DEF KeepsPaths, KeepsContents, Contents, IsFile, Exists

LEMMA KeepsSame == \A f : KeepsPaths(f, f) /\ KeepsContents(f, f)
  BY DEF KeepsPaths, KeepsContents

LEMMA KeepsOn ==
  ASSUME NEW f, NEW g, NEW h
  PROVE  /\ KeepsPaths(f, g) /\ KeepsPaths(g, h) => KeepsPaths(f, h)
         /\ KeepsContents(f, g) /\ KeepsContents(g, h) => KeepsContents(f, h)
  BY DEF KeepsPaths, KeepsContents, Exists

\* A write into p, which is not a directory, with the directories above it.
LEMMA PutTree ==
  ASSUME NEW f, Tree(f), NEW p \in Paths, p \notin RootPaths, ~IsDir(f, p), NEW c \in Nat
  PROVE  Tree(Put(f, p, c))
<1> DEFINE g == Put(f, p, c)
<1>1. g \in [Paths -> Nat \cup {Nil}] /\ g[p] = c
      /\ \A q \in Paths \ {p} : g[q] = IF IsStrictPrefix(q, p) THEN Dir ELSE f[q]
  BY DEF Put, WithParents, Tree, Dir
<1> HIDE DEF g
<1>2. Rooted(g)
  BY <1>1, PathNames DEF Rooted, Tree, IsDir
<1>3. Hangs(g)
  <2> SUFFICES ASSUME NEW x \in Paths, Exists(g, x), NEW y \in Paths, IsStrictPrefix(y, x)
               PROVE  g[y] = Dir
    BY DEF Hangs, IsDir
  <2>0. x \in Names /\ y \in Names /\ p \in Names
    BY PathNames
  <2>1. CASE IsPrefix(x, p)
    <3>1. IsStrictPrefix(y, p) /\ y # p
      BY <2>0, <2>1, PrefixOrder
    <3> QED BY <1>1, <3>1
  <2>2. CASE ~IsPrefix(x, p)
    <3>1. x # p /\ ~IsStrictPrefix(x, p)
      BY <2>0, <2>2, PrefixOrder
    <3>2. Exists(f, x)
      BY <1>1, <3>1 DEF Exists
    <3>3. f[y] = Dir
      BY <3>2 DEF Tree, Hangs, IsDir
    <3>4. y # p
      BY <3>3 DEF IsDir
    <3> QED BY <1>1, <3>3, <3>4
  <2> QED BY <2>1, <2>2
<1>4. Tree(g)
  BY <1>1, <1>2, <1>3 DEF Tree
<1> QED BY <1>4 DEF g

LEMMA PutKeeps ==
  ASSUME NEW f, Tree(f), NEW p \in Paths, ~Exists(f, p), ParentCanBe(f, p), NEW c \in Nat
  PROVE  KeepsPaths(f, Put(f, p, c)) /\ KeepsContents(f, Put(f, p, c))
<1> DEFINE g == Put(f, p, c)
<1>1. \A q \in Paths \ {p} : g[q] = IF IsStrictPrefix(q, p) THEN Dir ELSE f[q]
  BY DEF Put, WithParents, Tree, Dir
<1> HIDE DEF g
<1>2. KeepsPaths(f, g)
  BY <1>1 DEF KeepsPaths, ParentCanBe, IsFile
<1> QED BY <1>2, KeepsBoth DEF g

\* A subtree copied or moved to t, a free place in a directory outside it.
LEMMA GraftTree ==
  ASSUME NEW f, Tree(f), NEW src \in Paths, Exists(f, src), NEW d \in Paths, IsDir(f, d),
         NEW t \in Paths, IsStrictPrefix(d, t), ~Exists(f, t),
         \A q \in Paths : IsStrictPrefix(q, t) => IsPrefix(q, d),
         IsDir(f, src) => ~IsPrefix(src, d), NEW moved \in BOOLEAN, moved => src \notin RootPaths,
         Fits(f, src, t)
  PROVE  LET g == Grafted(f, src, t, moved)
         IN Tree(g) /\ KeepsContents(f, g) /\ (~moved => KeepsPaths(f, g))
<1> DEFINE g == Grafted(f, src, t, moved)
           Re(q) == Moved(src, q, Len(t))
<1>0. src \in Names /\ d \in Names /\ t \in Names /\ Paths \subseteq Names
  BY PathNames
<1>1. /\ \A q \in Paths : IsPrefix(t, q) => g[q] = IF Re(q) \in Paths THEN f[Re(q)] ELSE Nil
      /\ \A q \in Paths : ~IsPrefix(t, q) /\ moved /\ IsPrefix(src, q) => g[q] = Nil
      /\ \A q \in Paths : ~IsPrefix(t, q) /\ ~(moved /\ IsPrefix(src, q)) => g[q] = f[q]
      /\ g = [q \in Paths |-> g[q]]
  BY DEF Grafted, Moved
<1> HIDE DEF g
<1>2. g \in [Paths -> Nat \cup {Nil}]
  <2>1. ASSUME NEW q \in Paths PROVE g[q] \in Nat \cup {Nil}
    <3> HIDE DEF Re
    <3> QED BY <1>1 DEF Tree
  <2> QED BY <1>1, <2>1
\* Nothing is below t, and src does not lead to t.
<1>3. ASSUME NEW q \in Paths, Exists(f, q) PROVE ~IsPrefix(t, q)
  <2>1. ASSUME IsStrictPrefix(t, q) PROVE FALSE
    BY <1>3, <2>1, DirExists DEF Tree, Hangs
  <2> QED BY <1>0, <1>3, <2>1, PrefixOrder
<1>4. ~IsPrefix(src, t)
  <2> SUFFICES ASSUME IsPrefix(src, t) PROVE FALSE
    OBVIOUS
  <2>1. src # t
    OBVIOUS
  <2>2. IsPrefix(src, d)
    BY <2>1 DEF IsStrictPrefix
  <2>3. src = d \/ IsStrictPrefix(src, d)
    BY <1>0, <2>2, PrefixOrder
  <2>4. IsDir(f, src)
    BY <2>3, DirExists DEF Tree, Hangs
  <2> QED BY <2>2, <2>4
<1>5. Rooted(g)
  <2> SUFFICES ASSUME NEW r \in RootPaths PROVE g[r] = Dir
    BY DEF Rooted, IsDir
  <2>0. r \in Paths /\ f[r] = Dir
    BY PathNames DEF Tree, Rooted, IsDir
  <2>1. ~IsPrefix(t, r)
    BY <1>3, <2>0, DirExists DEF IsDir
  <2>2. ~(moved /\ IsPrefix(src, r))
    BY RootPrefix
  <2> QED BY <1>1, <2>0, <2>1, <2>2
<1>6. Hangs(g)
  <2> SUFFICES ASSUME NEW p \in Paths, Exists(g, p), NEW q \in Paths, IsStrictPrefix(q, p)
               PROVE  g[q] = Dir
    BY DEF Hangs, IsDir
  <2>0. p \in Names /\ q \in Names
    BY PathNames
  <2>1. CASE IsPrefix(t, p) /\ IsPrefix(t, q)
    <3>1. Re(p) \in Paths /\ f[Re(p)] # Nil
      <4> HIDE DEF Re
      <4> QED BY <1>1, <2>1 DEF Exists
    <3>2. Re(q) \in Paths /\ IsStrictPrefix(Re(q), Re(p))
      BY <2>1, <3>1, MovedOrder
    <3> HIDE DEF Re
    <3>3. f[Re(q)] = Dir
      BY <3>1, <3>2 DEF Tree, Hangs, Exists, IsDir
    <3> QED BY <1>1, <2>1, <3>2, <3>3
  <2>2. CASE IsPrefix(t, p) /\ ~IsPrefix(t, q)
    <3>1. IsPrefix(q, p)
      BY DEF IsStrictPrefix
    <3>2. IsStrictPrefix(q, t)
      BY <1>0, <2>0, <2>2, <3>1, PrefixOrder
    <3>3. IsPrefix(q, d)
      BY <3>2
    <3>4. f[q] = Dir
      <4>1. q = d \/ IsStrictPrefix(q, d)
        BY <1>0, <2>0, <3>3, PrefixOrder
      <4> QED BY <4>1, DirExists DEF Tree, Hangs, IsDir
    <3>5. ~IsPrefix(src, q)
      BY <1>0, <1>4, <2>0, <3>2, PrefixOrder DEF IsStrictPrefix
    <3> QED BY <1>1, <2>2, <3>4, <3>5
  <2>3. CASE ~IsPrefix(t, p)
    <3>1. ~(moved /\ IsPrefix(src, p)) /\ Exists(f, p)
      BY <1>1, <2>3 DEF Exists
    <3>2. ~IsPrefix(t, q)
      BY <1>0, <2>0, <2>3, PrefixOrder DEF IsStrictPrefix
    <3>3. ~(moved /\ IsPrefix(src, q))
      BY <1>0, <2>0, <3>1, PrefixOrder DEF IsStrictPrefix
    <3>4. f[q] = Dir
      BY <3>1 DEF Tree, Hangs, IsDir
    <3> QED BY <1>1, <3>2, <3>3, <3>4
  <2> QED BY <2>1, <2>2, <2>3
<1>7. KeepsContents(f, g)
  <2> SUFFICES ASSUME NEW p \in Paths, IsFile(f, p) PROVE \E q \in Paths : IsFile(g, q) /\ g[q] = f[p]
    BY DEF KeepsContents, Contents
  <2>1. ~IsPrefix(t, p) /\ Exists(f, p)
    BY <1>3 DEF IsFile
  <2>2. CASE ~(moved /\ IsPrefix(src, p))
    <3>1. g[p] = f[p]
      BY <1>1, <2>1, <2>2
    <3> QED BY <3>1 DEF IsFile, Exists
  <2>3. CASE IsPrefix(src, p)
    <3>1. Len(p) - Len(src) + Len(t) <= MaxDepth
      BY <2>1, <2>3 DEF Fits, Below
    <3> DEFINE q == Moved(t, p, Len(src))
    <3>2. q \in Paths /\ IsPrefix(t, q) /\ Re(q) = p
      BY <2>3, <3>1, MovedBack
    <3> HIDE DEF q, Re
    <3>3. g[q] = f[p]
      BY <1>1, <3>2
    <3> QED BY <3>2, <3>3 DEF IsFile, Exists
  <2> QED BY <2>2, <2>3
<1>8. ~moved => KeepsPaths(f, g)
  BY <1>1, <1>3 DEF KeepsPaths
<1>9. Tree(g)
  BY <1>2, <1>5, <1>6 DEF Tree
<1> QED BY <1>7, <1>8, <1>9 DEF g

FilesInv == Tree(fs) /\ written \in Nat

\* What NothingLost says of a step.
StepLosesNothing ==
    /\ op' \in {"copy", "move", "rename", "mkdir", "new"} => KeepsContents(fs, fs')
    /\ op' \in {"copy", "mkdir", "new"} => KeepsPaths(fs, fs')

LEMMA WriteStep ==
  ASSUME FilesInv, NEW p \in Paths, NEW name, name \in {"write", "upload", "compress", "extract"},
         WriteFile(name, p)
  PROVE  FilesInv' /\ StepLosesNothing
<1>1. Len(p) > 1 /\ ~IsDir(fs, p) /\ fs' = Put(fs, p, written') /\ op' = name /\ written' = written + 1
  BY DEF WriteFile, Does
<1>2. p \notin RootPaths /\ written' \in Nat
  BY <1>1, RootShort DEF FilesInv
<1>3. Tree(fs')
  BY <1>1, <1>2, PutTree DEF FilesInv
<1> QED BY <1>1, <1>2, <1>3 DEF FilesInv, StepLosesNothing

LEMMA NewStep ==
  ASSUME FilesInv, NEW p \in Paths, ~Exists(fs, p), ParentCanBe(fs, p), NEW c \in Nat,
         fs' = Put(fs, p, c), written' \in Nat
  PROVE  FilesInv' /\ StepLosesNothing
<1>1. ~IsDir(fs, p) /\ p \notin RootPaths
  BY DirExists DEF FilesInv, Tree, Rooted
<1>2. Tree(fs') /\ KeepsPaths(fs, fs') /\ KeepsContents(fs, fs')
  BY <1>1, PutTree, PutKeeps DEF FilesInv
<1> QED BY <1>2 DEF FilesInv, StepLosesNothing

LEMMA DeleteStep ==
  ASSUME FilesInv, NEW ps \in SUBSET Paths, DeleteItems(ps)
  PROVE  FilesInv' /\ StepLosesNothing
<1> DEFINE gone == {p \in ps : Deletes(p)}
<1>1. /\ op' = "delete" /\ written' = written
      /\ fs' = [q \in Paths |-> IF \E p \in gone : IsPrefix(p, q) THEN Nil ELSE fs[q]]
  BY DEF DeleteItems, Does
<1>2. gone \subseteq Paths /\ \A p \in gone : p \notin RootPaths
  BY DEF Deletes
<1> HIDE DEF gone
<1>3. fs' \in [Paths -> Nat \cup {Nil}]
  BY <1>1 DEF FilesInv, Tree
<1>4. Rooted(fs')
  <2> SUFFICES ASSUME NEW r \in RootPaths PROVE fs'[r] = Dir
    BY DEF Rooted, IsDir
  <2>1. r \in Paths /\ fs[r] = Dir
    BY PathNames DEF FilesInv, Tree, Rooted, IsDir
  <2>2. ~\E p \in gone : IsPrefix(p, r)
    BY <1>2, RootPrefix
  <2> QED BY <1>1, <2>1, <2>2
<1>5. Hangs(fs')
  <2> SUFFICES ASSUME NEW x \in Paths, Exists(fs', x), NEW y \in Paths, IsStrictPrefix(y, x)
               PROVE  fs'[y] = Dir
    BY DEF Hangs, IsDir
  <2>1. ~(\E p \in gone : IsPrefix(p, x)) /\ Exists(fs, x)
    BY <1>1 DEF Exists
  <2>2. ~\E p \in gone : IsPrefix(p, y)
    BY <1>2, <2>1, PathNames, PrefixOrder DEF IsStrictPrefix
  <2>3. fs[y] = Dir
    BY <2>1 DEF FilesInv, Tree, Hangs, IsDir
  <2> QED BY <1>1, <2>2, <2>3
<1> QED BY <1>1, <1>3, <1>4, <1>5 DEF FilesInv, Tree, StepLosesNothing

\* One path of a list, copied or moved into the directory d.
LEMMA ItemTree ==
  ASSUME NEW f, Tree(f), NEW src \in Paths, NEW d \in Paths, Len(d) < MaxDepth, IsDir(f, d),
         NEW moves \in BOOLEAN, ~Refused(f, src, d, moves),
         NEW g, g \in IF moves THEN MoveItem(f, src, d) ELSE CopyItem(f, src, d)
  PROVE  Tree(g) /\ KeepsContents(f, g) /\ (~moves => KeepsPaths(f, g))
<1>1. CASE ~Exists(f, src)
  <2>1. g = f
    BY <1>1 DEF MoveItem, CopyItem
  <2> QED BY <2>1, KeepsSame
<1>2. CASE Exists(f, src)
  <2>1. PICK t \in UniqueTargets(f, d, Last(src)), moved \in BOOLEAN :
           Fits(f, src, t) /\ g = Grafted(f, src, t, moved) /\ (moved => moves)
    <3>1. CASE moves
      BY <1>2, <3>1 DEF MoveItem
    <3>2. CASE ~moves
      BY <1>2, <3>2 DEF CopyItem
    <3> QED BY <3>1, <3>2
  <2>2. Last(src) \in FileNames
    BY PathIs DEF Last, Names
  <2>3. PICK n \in FileNames : t = Append(d, n) /\ ~Exists(f, t)
    BY <2>1, <2>2 DEF UniqueTargets
  <2>4. /\ t \in Paths /\ IsStrictPrefix(d, t)
        /\ \A q \in Paths : IsStrictPrefix(q, t) => IsPrefix(q, d)
    BY <2>3, AppendPath
  <2>5. (IsDir(f, src) => ~IsPrefix(src, d)) /\ (moved => src \notin RootPaths)
    BY <1>2, <2>1 DEF Refused
  <2>6. LET h == Grafted(f, src, t, moved)
        IN Tree(h) /\ KeepsContents(f, h) /\ (~moved => KeepsPaths(f, h))
    BY <1>2, <2>1, <2>3, <2>4, <2>5, GraftTree
  <2> QED BY <2>1, <2>6
<1> QED BY <1>1, <1>2

LEMMA TransferStep ==
  ASSUME FilesInv, NEW moves \in BOOLEAN, NEW first \in Paths, NEW then \in Paths, NEW d \in Paths,
         TransferItems(moves, first, then, d)
  PROVE  FilesInv' /\ StepLosesNothing
<1> DEFINE Item(f, src) == IF moves THEN MoveItem(f, src, d) ELSE CopyItem(f, src, d)
<1>1. /\ Len(d) < MaxDepth /\ IsDir(fs, d) /\ ~Refused(fs, first, d, moves) /\ written' = written
      /\ op' = IF moves THEN "move" ELSE "copy"
  BY DEF TransferItems, Does
<1>2. PICK f \in Item(fs, first) :
        \/ fs' = f
        \/ ~Refused(f, then, d, moves) /\ IsDir(f, d) /\ fs' \in Item(f, then)
  BY DEF TransferItems, Does
<1>3. Tree(f) /\ KeepsContents(fs, f) /\ (~moves => KeepsPaths(fs, f))
  BY <1>1, <1>2, ItemTree DEF FilesInv
<1>4. Tree(fs') /\ KeepsContents(fs, fs') /\ (~moves => KeepsPaths(fs, fs'))
  <2>1. CASE fs' = f
    BY <1>3, <2>1
  <2>2. CASE ~Refused(f, then, d, moves) /\ IsDir(f, d) /\ fs' \in Item(f, then)
    <3>1. Tree(fs') /\ KeepsContents(f, fs') /\ (~moves => KeepsPaths(f, fs'))
      BY <1>1, <1>3, <2>2, ItemTree
    <3> QED BY <1>3, <3>1, KeepsOn
  <2> QED BY <1>2, <2>1, <2>2
<1> QED BY <1>1, <1>4 DEF FilesInv, StepLosesNothing

LEMMA RenameStep ==
  ASSUME FilesInv, NEW p \in Paths, NEW n \in FileNames, Rename(p, n)
  PROVE  FilesInv' /\ StepLosesNothing
<1> DEFINE d == Parent(p)
           t == Append(d, n)
<1>1. /\ Len(p) > 1 /\ Exists(fs, p) /\ ~Exists(fs, t) /\ fs' = Grafted(fs, p, t, TRUE)
      /\ op' = "rename" /\ written' = written
  BY DEF Rename, Does
<1>2. d \in Paths /\ Len(d) = Len(p) - 1 /\ IsStrictPrefix(d, p)
  BY <1>1, ParentPath
<1>3. Len(p) \in 1 .. MaxDepth /\ p \in Names
  BY PathIs
<1> HIDE DEF d
<1>4. Len(d) < MaxDepth
  BY <1>2, <1>3, FilesAssumption
<1>5. /\ t \in Paths /\ Len(t) = Len(d) + 1 /\ IsStrictPrefix(d, t)
      /\ \A q \in Paths : IsStrictPrefix(q, t) => IsPrefix(q, d)
  BY <1>2, <1>4, AppendPath
<1> HIDE DEF t
<1>6. IsDir(fs, d)
  BY <1>1, <1>2 DEF FilesInv, Tree, Hangs
<1>7. ~IsPrefix(p, d) /\ p \notin RootPaths
  <2>1. d \in Names
    BY <1>2, PathNames
  <2>2. ~IsPrefix(p, d)
    BY <1>2, <1>3, <2>1, PrefixOrder
  <2> QED BY <1>1, <2>2, RootShort
<1>8. Fits(fs, p, t)
  <2>1. Len(t) = Len(p)
    BY <1>2, <1>3, <1>5
  <2>2. ASSUME NEW q \in Paths PROVE Len(q) - Len(p) + Len(t) <= MaxDepth
    <3>1. Len(q) \in 1 .. MaxDepth
      BY PathIs
    <3> QED BY <1>3, <2>1, <3>1, FilesAssumption
  <2> QED BY <2>2 DEF Fits, Below
<1>9. LET g == Grafted(fs, p, t, TRUE) IN Tree(g) /\ KeepsContents(fs, g) /\ (~TRUE => KeepsPaths(fs, g))
  BY <1>1, <1>2, <1>5, <1>6, <1>7, <1>8, GraftTree DEF FilesInv
<1> QED BY <1>1, <1>9 DEF FilesInv, StepLosesNothing

LEMMA FilesInvInit == FilesInit => FilesInv
<1> SUFFICES ASSUME FilesInit PROVE FilesInv
  OBVIOUS
<1>1. fs \in [Paths -> Nat \cup {Nil}] /\ written \in Nat
  BY DEF FilesInit, Dir
<1>2. Rooted(fs)
  BY PathNames DEF FilesInit, Rooted, IsDir
<1>3. Hangs(fs)
  <2> SUFFICES ASSUME NEW p \in Paths, Exists(fs, p), NEW q \in Paths, IsStrictPrefix(q, p) PROVE FALSE
    BY DEF Hangs
  <2>1. p \in RootPaths
    BY DEF FilesInit, Exists
  <2>2. q = p
    BY <2>1, RootPrefix DEF IsStrictPrefix
  <2> QED BY <2>2 DEF IsStrictPrefix
<1> QED BY <1>1, <1>2, <1>3 DEF FilesInv, Tree

LEMMA FilesStep == FilesInv /\ FilesNext => FilesInv' /\ StepLosesNothing
<1> SUFFICES ASSUME FilesInv, FilesNext PROVE FilesInv' /\ StepLosesNothing
  OBVIOUS
<1>1. ASSUME NEW p \in Paths,
             WriteText(p) \/ SaveUpload(p) \/ Compress(p) \/ (\E a \in Paths : Extract(a, p))
      PROVE  FilesInv' /\ StepLosesNothing
  <2>1. \E name \in {"write", "upload", "compress", "extract"} : WriteFile(name, p)
    BY <1>1 DEF WriteText, SaveUpload, Compress, Extract
  <2> QED BY <2>1, WriteStep
<1>2. ASSUME NEW p \in Paths, Mkdir(p) PROVE FilesInv' /\ StepLosesNothing
  <2>1. ~Exists(fs, p) /\ ParentCanBe(fs, p) /\ fs' = Put(fs, p, Dir) /\ written' \in Nat /\ Dir \in Nat
    BY <1>2 DEF Mkdir, Does, FilesInv, Dir
  <2> QED BY <2>1, NewStep
<1>3. ASSUME NEW p \in Paths, NewFile(p) PROVE FilesInv' /\ StepLosesNothing
  <2>1. ~Exists(fs, p) /\ ParentCanBe(fs, p) /\ fs' = Put(fs, p, written') /\ written' \in Nat
    BY <1>3 DEF NewFile, Does, FilesInv
  <2> QED BY <2>1, NewStep
<1>4. ASSUME NEW p \in Paths, NEW q \in Paths, DeleteItems({p, q}) PROVE FilesInv' /\ StepLosesNothing
  <2>1. {p, q} \in SUBSET Paths
    OBVIOUS
  <2> QED BY <1>4, <2>1, DeleteStep
<1>5. ASSUME NEW p \in Paths, NEW q \in Paths, NEW d \in Paths, CopyItems(p, q, d) \/ MoveItems(p, q, d)
      PROVE  FilesInv' /\ StepLosesNothing
  BY <1>5, TransferStep DEF CopyItems, MoveItems
<1> QED BY <1>1, <1>2, <1>3, <1>4, <1>5, RenameStep DEF FilesNext

\* For any roots, names and depth of the trees: copying, moving, renaming and
\* creating lose no content, even when an error ends a list half-way; what
\* exists stays as it was unless it is moved; nothing is left without the
\* directory it is in, and the roots stay.
THEOREM FilesLoseNothing == FilesSpec => NothingLost
<1> DEFINE N == op' # "none" =>
         /\ op' \in {"copy", "move", "rename", "mkdir", "new"} => Contents(fs) \subseteq Contents(fs')
         /\ op' \in {"copy", "mkdir", "new"} => \A p \in Paths : Exists(fs, p) => fs'[p] = fs[p]
         /\ \A p \in RootPaths : IsDir(fs', p)
         /\ \A p \in Paths : Exists(fs', p) => \A q \in Paths : IsStrictPrefix(q, p) => IsDir(fs', q)
<1>1. FilesInv /\ [FilesNext]_filesVars => FilesInv'
  <2>1. FilesInv /\ UNCHANGED filesVars => FilesInv'
    BY DEF filesVars, FilesInv, Tree, Rooted, Hangs, Exists, IsDir
  <2> QED BY <2>1, FilesStep
<1>2. FilesInv /\ [FilesNext]_filesVars => [N]_filesVars
  <2> SUFFICES ASSUME FilesInv, FilesNext PROVE N
    OBVIOUS
  <2>1. Tree(fs') /\ StepLosesNothing
    BY FilesStep DEF FilesInv
  <2> QED BY <2>1 DEF Tree, Rooted, Hangs, StepLosesNothing, KeepsContents, KeepsPaths
<1>3. FilesSpec => [][N]_filesVars
  BY FilesInvInit, <1>1, <1>2, PTL DEF FilesSpec
<1> QED BY <1>3 DEF NothingLost
=============================================================================
