----------------------------- MODULE MCOperations -----------------------------
(* The smaller parts of the hub and panel version 1 for TLC. They share no     *)
(* state, so that each behaviour is one of a single family, and the variables  *)
(* of the others keep one of their initial values.                             *)
EXTENDS Domains, NotifySettings, Jalali,
        V1Sites, V1Apps, V1Dns, V1Backup, V1Files, V1Cron, V1Mail, V1Accounts, V1Notify

CONSTANTS d1, d2, z1, z2, a1, a2

MCRetentions == {-2, -1, 0, 1}

\* The rule on certificates as it is delivered, with a delay, wider, and off.
MCCertRules ==
    [enabled : {TRUE}, threshold : {0}, for_s : {0, 1}] \cup [enabled : {TRUE}, threshold : {1}, for_s : {0}]
    \cup [enabled : {FALSE}, threshold : {0}, for_s : {0}]

VARIABLE family

hubVars    == <<domainsVars, notifyHubVars, jalaliVars>>
rowVars    == <<cronVars, mailVars, accountsVars, notifyVars>>
serverVars == <<sitesVars, appsVars, dnsVars, backupVars, filesVars>>

HubFamilies    == {"certs", "names", "settings", "jalali"}
ServerFamilies == {"sites", "wired", "deploys", "dns", "backups", "restore", "files"}
RowFamilies    == {"cron", "mail", "accounts", "notify"}

OperationsInit ==
    /\ family \in HubFamilies \cup ServerFamilies \cup RowFamilies
    /\ DomainsInit /\ NotifySettingsInit /\ JalaliInit
    /\ SitesInit /\ AppsInit /\ DnsInit /\ BackupInit /\ FilesInit
    /\ CronInit /\ MailInit /\ AccountsInit /\ NotifyInit
    /\ family # "certs" => reachable = {} /\ days = [s \in DomServers |-> 0] /\ certRule.for_s = 1
    /\ family # "sites" => layout = "debian"
    /\ family # "dns" => today = 0
    /\ family # "restore" => source = "site"
    /\ family \notin {"backups", "restore"} => dest = "local"
    /\ family # "accounts" => \A a \in Accounts : sysUser[a] = Nil
    /\ family # "notify" => breach = {}

\* The steps of each family. Domains: reports without lookups, and lookups.
Hub ==
    \/ /\ family \in {"certs", "names"} /\ UNCHANGED <<notifyHubVars, jalaliVars>>
       /\ DomainsNext
       /\ family = "certs" => UNCHANGED lookupVars
       /\ family = "names" => UNCHANGED <<reachable, days, certVars>>
    \/ family = "settings" /\ UNCHANGED <<domainsVars, jalaliVars>> /\ NotifySettingsNext
    \/ family = "jalali"   /\ UNCHANGED <<domainsVars, notifyHubVars>> /\ JalaliNext

\* Sites: the second one's vhost is a good one without TLS. Apps: two without
\* commits and deploys, and one with them. Names: the second zone has no
\* records to change, and a zone the property excepts stops. Backups: two
\* runners and one content, and one runner with restores.
Servers ==
    \/ /\ family = "sites" /\ UNCHANGED <<appsVars, dnsVars, backupVars, filesVars>>
       /\ SitesNext
       /\ ~cert'[d2]
       /\ siteRow'[d2] # Nil => siteRow'[d2].kind = "good" /\ ~siteRow'[d2].ssl
    \/ /\ family \in {"wired", "deploys"} /\ UNCHANGED <<sitesVars, dnsVars, backupVars, filesVars>>
       /\ AppsNext
       /\ family = "wired" => head' = 1 /\ \A t \in Threads : task'[t] = Nil
       /\ family = "deploys" => dir'[a2] = Nil
    \/ /\ family = "dns" /\ UNCHANGED <<sitesVars, appsVars, backupVars, filesVars>>
       /\ IF \E z \in Zones : tainted[z] THEN DateChanges ELSE DnsNext
       /\ zone'[z2] # Nil => zone'[z2].recs = {}
       /\ secondary'[z2] = Nil
    \/ /\ family \in {"backups", "restore"} /\ UNCHANGED <<sitesVars, appsVars, dnsVars, filesVars>>
       /\ BackupNext
       /\ family = "backups" => live' = 1 /\ restored' = Nil
       /\ family = "restore" => runs'["scheduled"] = Nil /\ second' <= 2
    \/ /\ family = "files" /\ UNCHANGED <<sitesVars, appsVars, dnsVars, backupVars>>
       /\ FilesNext
       /\ Cardinality(Nodes(fs')) <= MaxNodes

\* Cron jobs: the second user adds no lines.
Rows ==
    \/ family = "cron"     /\ UNCHANGED <<mailVars, accountsVars, notifyVars>> /\ CronNext /\ ownLines'["w"] = <<>>
    \/ family = "mail"     /\ UNCHANGED <<cronVars, accountsVars, notifyVars>> /\ MailNext
    \/ family = "accounts" /\ UNCHANGED <<cronVars, mailVars, notifyVars>> /\ AccountsNext
    \/ family = "notify"   /\ UNCHANGED <<cronVars, mailVars, accountsVars>> /\ NotifyNext

OperationsNext ==
    /\ UNCHANGED family
    /\ \/ family \in HubFamilies    /\ UNCHANGED <<serverVars, rowVars>> /\ Hub
       \/ family \in ServerFamilies /\ UNCHANGED <<hubVars, rowVars>> /\ Servers
       \/ family \in RowFamilies    /\ UNCHANGED <<hubVars, serverVars>> /\ Rows

OperationsSpec == OperationsInit /\ [][OperationsNext]_<<family, hubVars, rowVars, serverVars>>
=============================================================================
