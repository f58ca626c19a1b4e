-------------------------------- MODULE V1Dns --------------------------------
(***************************************************************************)
(* DNS zones of panel version 1 (services/dns.py): the rows of a zone and  *)
(* its records, the zone file and the list of zones written from them, the *)
(* zones BIND has loaded, and a secondary server, which transfers a zone   *)
(* only when its serial number grows.                                      *)
(*                                                                         *)
(* BIND is installed; without it the handlers stop after the rows. A day   *)
(* has DayRange serial numbers (100 in the code), few enough that a day's  *)
(* changes run past them; the clock may be set back.                       *)
(***************************************************************************)
EXTENDS V1

CONSTANTS
    Zones,
    Records,      \* records other than the NS records of every zone
    BadRecords,   \* those named-checkzone and BIND reject
    Days, DayRange,
    MaxSerial     \* bound: serial numbers

VARIABLES
    today,
    zone,         \* dns_zones and dns_records: Nil or [serial, recs]
    zfile,        \* db.<domain>: Nil or [serial, recs]
    included,     \* the zones in INCLUDE_FILE
    served,       \* what BIND has loaded
    secondary,    \* what the secondary has transferred
    tainted       \* history: see SecondaryFollows

ZoneRow == [serial : Nat, recs : SUBSET Records]

ASSUME DnsAssumption == Days \subseteq Nat /\ DayRange \in Nat /\ Nil \notin ZoneRow

dnsVars == <<today, zone, zfile, included, served, secondary, tainted>>

\* _new_serial, _bump_serial
NewSerial == today * DayRange + 1

M_BumpSerial(s) == IF s >= NewSerial THEN s ELSE NewSerial

BumpSerial(s) == IF s + 1 >= NewSerial THEN s + 1 ELSE NewSerial

Valid(z) == z.recs \cap BadRecords = {}

\* systemctl reload (external): BIND loads the listed zones whose file is
\* valid and keeps the last good version of the others.
BindReload ==
    served' = [z \in Zones |->
                 IF z \notin included' THEN Nil
                 ELSE IF zfile'[z] # Nil /\ Valid(zfile'[z]) THEN zfile'[z] ELSE served[z]]

\* The first k steps of apply_zone on the rows as they are by now: the file;
\* the list of all zones; named-checkzone, and the reload if it is content.
ApplySteps(z, k) ==
    /\ zfile' = IF k >= 1 THEN [zfile EXCEPT ![z] = zone'[z]] ELSE zfile
    /\ included' = IF k >= 2 THEN {y \in Zones : zone'[y] # Nil} ELSE included
    /\ IF k >= 3 /\ Valid(zone'[z]) THEN BindReload ELSE UNCHANGED served

DnsInit ==
    /\ today \in Days
    /\ zone = [z \in Zones |-> Nil]
    /\ zfile = zone /\ served = zone /\ secondary = zone
    /\ included = {}
    /\ tainted = [z \in Zones |-> FALSE]

\* create_zone: rows of the zone and its NS records in one transaction, then
\* apply_zone, whose errors are ignored. The new zone's serial is the day's
\* first, whatever a deleted zone of that name had reached.
CreateZone(z, k) ==
    /\ zone[z] = Nil
    /\ zone' = [zone EXCEPT ![z] = [serial |-> NewSerial, recs |-> {}]]
    /\ ApplySteps(z, k)
    /\ UNCHANGED <<today, secondary, tainted>>

\* add_record, update_record, delete_record: the row, the serial number (its
\* own transaction), then apply_zone.
ChangeRecords(z, recs, k) ==
    /\ zone[z] # Nil /\ zone[z].recs # recs /\ k >= 1
    /\ BumpSerial(zone[z].serial) <= MaxSerial
    /\ zone' = [zone EXCEPT ![z] = [serial |-> IF k >= 2 THEN BumpSerial(@.serial) ELSE @.serial,
                                    recs   |-> recs]]
    /\ ApplySteps(z, k - 2)
    /\ tainted' = [tainted EXCEPT ![z] = @ \/ k = 1]
    /\ UNCHANGED <<today, secondary>>

\* The apply endpoint.
ApplyZone(z, k) ==
    /\ zone[z] # Nil
    /\ UNCHANGED <<today, zone, secondary, tainted>>
    /\ ApplySteps(z, k)

\* delete_zone: the rows first; then the file, the list and the reload, whose
\* errors are ignored.
DeleteZone(z, k) ==
    /\ zone[z] # Nil
    /\ zone' = [zone EXCEPT ![z] = Nil]
    /\ zfile' = IF k >= 1 THEN [zfile EXCEPT ![z] = Nil] ELSE zfile
    /\ included' = IF k >= 2 THEN {y \in Zones : zone'[y] # Nil} ELSE included
    /\ IF k >= 3 THEN BindReload ELSE UNCHANGED served
    /\ tainted' = [tainted EXCEPT ![z] = TRUE]
    /\ UNCHANGED <<today, secondary>>

\* Outside: the secondary refreshes a zone; the date changes.
Transfer(z) ==
    /\ served[z] # Nil
    /\ secondary[z] # Nil => secondary[z].serial < served[z].serial
    /\ secondary' = [secondary EXCEPT ![z] = served[z]]
    /\ UNCHANGED <<today, zone, zfile, included, served, tainted>>

DateChanges ==
    /\ today' \in Days \ {today}
    /\ UNCHANGED <<zone, zfile, included, served, secondary, tainted>>

DnsNext ==
    \/ \E z \in Zones, k \in Steps(3) : CreateZone(z, k) \/ ApplyZone(z, k) \/ DeleteZone(z, k)
    \/ \E z \in Zones, recs \in SUBSET Records, k \in Steps(5) : ChangeRecords(z, recs, k)
    \/ \E z \in Zones : Transfer(z)
    \/ DateChanges

DnsSpec == DnsInit /\ [][DnsNext]_dnsVars

-----------------------------------------------------------------------------
\* A secondary that has no reason to transfer a zone (its serial number is
\* not behind) holds what BIND serves: the serial number grows with every
\* change that is published, over midnight, clocks set back, days with more
\* changes than numbers, rejected zones and handlers that end half-way.
\* Excepted are zones deleted and created again and a handler that ends
\* between the record and the serial number (tainted).
SecondaryFollows ==
    \A z \in Zones :
        /\ served[z] # Nil /\ secondary[z] # Nil /\ ~tainted[z]
        /\ secondary[z].serial >= served[z].serial
        => secondary[z] = served[z]
=============================================================================
