------------------------------ MODULE V1Accounts ------------------------------
(***************************************************************************)
(* FTP accounts and databases of panel version 1 (services/ftp.py,         *)
(* databases.py, postgres.py): objects of the operating system or of a     *)
(* database server, each listed by a row. The object is changed first and  *)
(* the row after it, and nothing ties the two together.                    *)
(*                                                                         *)
(* MySQL and PostgreSQL databases share the table: a name has one row, and *)
(* the engine is a column. PostgreSQL's statements name the database       *)
(* without quotes, so that the server reads the name in lower case, while  *)
(* the row keeps it as it was written. Passwords and database users are    *)
(* left out.                                                               *)
(***************************************************************************)
EXTENDS V1

CONSTANTS Accounts, Words

VARIABLES
    sysUser,   \* the system account: Nil, "open" or "locked"
    ftpRow,    \* ftp_accounts: Nil or the column active
    ftpOdd,    \* history: see AccountsAgree
    database,  \* the databases of each engine, by the server's names
    dbRow,     \* databases: Nil or the engine
    dbOdd      \* history: why a row may be without its database, see AccountsAgree

ftpVars      == <<sysUser, ftpRow, ftpOdd>>
dbVars       == <<database, dbRow, dbOdd>>
accountsVars == <<ftpVars, dbVars>>

Engines == {"mysql", "postgres"}

ASSUME NilIsNoEngine == Nil \notin Engines

\* A name as it is written: a word in lower case, or with an upper-case letter.
DbNames == [word : Words, upper : BOOLEAN]

\* The name under which the server of an engine knows a database. MySQL's
\* statements quote it; PostgreSQL folds a name without quotes.
ServerName(e, d) == IF e = "postgres" THEN [d EXCEPT !.upper = FALSE] ELSE d

\* Why a row may be without its database: its deletion ended half-way, it was
\* made by a preview, another spelling of it was deleted.
Reasons == {"no", "half", "preview", "spelling"}

\* Accounts the panel did not make may exist.
AccountsInit ==
    /\ sysUser \in [Accounts -> {Nil, "open", "locked"}]
    /\ ftpRow = [a \in Accounts |-> Nil] /\ ftpOdd = [a \in Accounts |-> FALSE]
    /\ database = [e \in Engines |-> {}]
    /\ dbRow = [d \in DbNames |-> Nil] /\ dbOdd = [d \in DbNames |-> "no"]

\* create_account: useradd, for which an account that exists will do; the
\* password, which opens it; the row.
FtpCreate(a, k) ==
    /\ ftpRow[a] = Nil /\ k >= 1
    /\ sysUser' = [sysUser EXCEPT ![a] = IF k >= 2 THEN "open" ELSE IF @ = Nil THEN "locked" ELSE @]
    /\ ftpRow' = IF k = 3 THEN [ftpRow EXCEPT ![a] = TRUE] ELSE ftpRow
    /\ ftpOdd' = [ftpOdd EXCEPT ![a] = FALSE]
    /\ UNCHANGED dbVars

\* change_password: chpasswd sets a new hash, without the mark that locks.
FtpPassword(a) ==
    /\ ftpRow[a] # Nil /\ sysUser[a] # Nil
    /\ sysUser' = [sysUser EXCEPT ![a] = "open"]
    /\ ftpOdd' = [ftpOdd EXCEPT ![a] = @ \/ ~ftpRow[a]]
    /\ UNCHANGED <<ftpRow, dbVars>>

M_FtpActive(a, active, modified, k) ==
    /\ ftpRow[a] # Nil /\ k >= 1
    /\ sysUser' = IF modified /\ sysUser[a] # Nil
                  THEN [sysUser EXCEPT ![a] = IF active THEN "open" ELSE "locked"] ELSE sysUser
    /\ ftpRow' = IF k = 2 THEN [ftpRow EXCEPT ![a] = active] ELSE ftpRow
    /\ ftpOdd' = [ftpOdd EXCEPT ![a] = k = 1]
    /\ UNCHANGED dbVars

\* set_active: usermod, whose failure is an error; then the column.
FtpActive(a, active, modified, k) ==
    /\ ftpRow[a] # Nil /\ k >= 1
    /\ modified /\ sysUser[a] # Nil
    /\ sysUser' = [sysUser EXCEPT ![a] = IF active THEN "open" ELSE "locked"]
    /\ ftpRow' = IF k = 2 THEN [ftpRow EXCEPT ![a] = active] ELSE ftpRow
    /\ ftpOdd' = [ftpOdd EXCEPT ![a] = k = 1]
    /\ UNCHANGED dbVars

\* delete_account: userdel, for which no account will do; then the row.
FtpDelete(a, k) ==
    /\ ftpRow[a] # Nil /\ k >= 1
    /\ sysUser' = [sysUser EXCEPT ![a] = Nil]
    /\ ftpRow' = IF k = 2 THEN [ftpRow EXCEPT ![a] = Nil] ELSE ftpRow
    /\ ftpOdd' = [ftpOdd EXCEPT ![a] = TRUE]
    /\ UNCHANGED dbVars

\* The row after a creation: PostgreSQL's takes a row of that name over,
\* MySQL's leaves its engine.
CreateRow(e, d) == IF e = "postgres" \/ dbRow[d] = Nil THEN e ELSE dbRow[d]

\* create_database: CREATE DATABASE unless it exists (with apply = FALSE not
\* even then), then the row.
DbCreate(e, d, apply, k) ==
    /\ k >= 1
    /\ database' = IF apply THEN [database EXCEPT ![e] = @ \cup {ServerName(e, d)}] ELSE database
    /\ dbRow' = IF k = 2 THEN [dbRow EXCEPT ![d] = CreateRow(e, d)] ELSE dbRow
    /\ dbOdd' = [c \in DbNames |-> IF dbRow'[c] # e \/ ServerName(e, c) # ServerName(e, d) THEN dbOdd[c]
                                   ELSE IF apply THEN "no"
                                   ELSE IF dbRow[c] # e THEN "preview" ELSE dbOdd[c]]
    /\ UNCHANGED ftpVars

\* The row after a deletion: MySQL's takes any row of that name.
DropRow(e, d) == IF e = "mysql" \/ dbRow[d] = e THEN Nil ELSE dbRow[d]

\* delete_database: DROP DATABASE IF EXISTS, then the row.
DbDelete(e, d, k) ==
    /\ k >= 1
    /\ database' = [database EXCEPT ![e] = @ \ {ServerName(e, d)}]
    /\ dbRow' = IF k = 2 THEN [dbRow EXCEPT ![d] = DropRow(e, d)] ELSE dbRow
    /\ dbOdd' = [c \in DbNames |-> IF dbRow'[c] # e \/ ServerName(e, c) # ServerName(e, d) THEN dbOdd[c]
                                   ELSE IF c = d THEN "half"
                                   ELSE IF dbOdd[c] = "no" THEN "spelling" ELSE dbOdd[c]]
    /\ UNCHANGED ftpVars

AccountsNext ==
    \/ \E a \in Accounts, k \in Steps(3) : FtpCreate(a, k) \/ (k < 3 /\ FtpDelete(a, k))
    \/ \E a \in Accounts : FtpPassword(a)
    \/ \E a \in Accounts, active, modified \in BOOLEAN, k \in Steps(2) : FtpActive(a, active, modified, k)
    \/ \E e \in Engines, d \in DbNames, k \in Steps(2) :
          (\E apply \in BOOLEAN : DbCreate(e, d, apply, k)) \/ DbDelete(e, d, k)

AccountsSpec == AccountsInit /\ [][AccountsNext]_accountsVars

-----------------------------------------------------------------------------
\* What is listed exists and is as listed: an FTP account is open just when
\* its row is active, a database is in the engine its row names. Handlers
\* that end half-way are made good by the next one that ends. Excepted are a
\* handler that ended half-way with none after it, a password changed on an
\* inactive account, a row made by a preview (apply = FALSE), and a PostgreSQL
\* row whose name was deleted in another spelling: the two rows stand for one
\* database, which is gone with either of them (postgres.py:94).
AccountsAgree ==
    /\ \A a \in Accounts : ftpRow[a] # Nil /\ ~ftpOdd[a] => sysUser[a] = IF ftpRow[a] THEN "open" ELSE "locked"
    /\ \A d \in DbNames : dbRow[d] # Nil /\ dbOdd[d] = "no" => ServerName(dbRow[d], d) \in database[dbRow[d]]
=============================================================================
