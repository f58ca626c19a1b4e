-------------------------------- MODULE Auth --------------------------------
(***************************************************************************)
(* Accounts, the second factor, sessions and the guards of the API         *)
(* (hub/icsd_hub/auth.py, the handlers of api.py that use it, verify_totp  *)
(* of security.py).                                                        *)
(*                                                                         *)
(* A guard is a plain function that FastAPI runs in a thread; the handler  *)
(* is a coroutine without an await that runs later, on the event loop. In  *)
(* between other handlers run, and the User the guard returned may be of a *)
(* session or an account that is gone: a request is two steps here.        *)
(*                                                                         *)
(* The clock counts TOTP steps. A password is right or wrong, a code is    *)
(* that of some step for the secret it is compared with, or wrong. When a  *)
(* session has been idle or alive for too long is left open: its age (the  *)
(* columns created and seen) is not kept, and any session may have it.     *)
(***************************************************************************)
EXTENDS Integers, FiniteSets, FiniteSetsExt

CONSTANTS
    MaxUsers,      \* bound: accounts at one time; ids are 1 .. MaxUsers
    NoUser,
    ELEVATE,       \* ELEVATE_SECONDS, in TOTP steps
    MaxSessions, MaxSecrets, MaxRequests, MaxNow  \* bounds: sessions, secrets made,
                                                  \* requests in flight, and the clock

ASSUME AuthAssumption ==
    /\ {MaxUsers, ELEVATE, MaxSessions, MaxSecrets, MaxRequests, MaxNow} \subseteq Nat
    /\ MaxUsers > 0 /\ MaxNow >= 2

UserIds   == 1 .. MaxUsers
AuthTimes == 2 .. MaxNow
Steps     == 1 .. MaxNow + 1     \* the steps a code may be of, around `clock`
Secrets   == 1 .. MaxSecrets
None      == 0                 \* NULL

VARIABLES
    clock,
    users,     \* the table: per id NoUser or the account
    sessions,  \* the table: a set of rows
    requests,  \* past their guard, handler not yet run
    minted,    \* secrets made so far
    used       \* history: how often each code of each secret was accepted

authVars == <<clock, users, sessions, requests, minted, used>>

Account == [role : {"admin", "viewer"}, totp_on : BOOLEAN, secret : Secrets \cup {None},
            pending : Secrets \cup {None}, last : Steps \cup {0}]

ASSUME NoUserIsNoAccount == NoUser \notin Account

\* factor is a history field: the secret whose code opened or confirmed it.
Session == [id : 1 .. MaxSessions, user : UserIds, elevated_until : Nat,
            factor : Secrets \cup {None}]

Operations == {"begin", "confirm", "elevate", "password", "add", "remove", "reset"}

NewAccount(role) == [role |-> role, totp_on |-> FALSE, secret |-> None, pending |-> None, last |-> 0]

\* The first administrator, made on the command line.
AuthInit ==
    /\ clock = 2
    /\ users = [u \in UserIds |-> IF u = 1 THEN NewAccount("admin") ELSE NoUser]
    /\ sessions = {} /\ requests = {} /\ minted = 0
    /\ used = [c \in Secrets \X Steps |-> 0]

Exists(u) == users[u] # NoUser
Admins    == {u \in UserIds : Exists(u) /\ users[u].role = "admin"}

-----------------------------------------------------------------------------
(***************************************************************************)
(* Codes.                                                                  *)
(***************************************************************************)

\* Mutant: a step is refused only if it is older than the last one used.
M_Valid(step, last) == step \in clock - 1 .. clock + 1 /\ step >= last

\* verify_totp: a step next to the present one and later than the last used.
Valid(step, last) == step \in clock - 1 .. clock + 1 /\ step > last

\* The code of `step` is accepted for `secret`.
Spend(secret, step) == used' = [used EXCEPT ![<<secret, step>>] = @ + 1]

-----------------------------------------------------------------------------
(***************************************************************************)
(* Logging in and out.                                                     *)
(***************************************************************************)
\* A random token: the number of a session nobody refers to any more.
FreeIds == (1 .. MaxSessions) \ ({s.id : s \in sessions} \cup {r.session : r \in requests})

\* The password is right, and so is the code if the account asks for one. (The
\* table of failed logins, which delays more of them, is left out.)
Login(u, step) ==
    /\ Exists(u)
    /\ IF users[u].totp_on
       THEN /\ Valid(step, users[u].last)
            /\ users' = [users EXCEPT ![u].last = step]
            /\ Spend(users[u].secret, step)
       ELSE UNCHANGED <<users, used>>
    /\ FreeIds # {}
    /\ sessions' = sessions \cup
         {[id |-> Min(FreeIds), user |-> u, elevated_until |-> 0,
           factor |-> IF users[u].totp_on THEN users[u].secret ELSE None]}
    /\ UNCHANGED <<clock, requests, minted>>

\* logout, or user_from_cookie and auth.prune find the session idle or alive
\* for too long: the row goes.
SessionEnds(s) ==
    /\ sessions' = sessions \ {s}
    /\ UNCHANGED <<clock, users, requests, minted, used>>

-----------------------------------------------------------------------------
(***************************************************************************)
(* The guards.                                                             *)
(***************************************************************************)

\* current_user_any, current_user (2FA is required), admin, elevated.
Allowed(op, s) ==
    /\ op \in {"begin", "confirm"} \/ users[s.user].totp_on
    /\ op \in {"begin", "confirm", "password"} \/ users[s.user].role = "admin"
    /\ op \in {"add", "remove", "reset"} => s.elevated_until >= clock

Guard(s, op) ==
    /\ Allowed(op, s)
    /\ Cardinality(requests) < MaxRequests
    /\ requests' = requests \cup {[op |-> op, user |-> s.user, session |-> s.id]}
    /\ UNCHANGED <<clock, users, sessions, minted, used>>

-----------------------------------------------------------------------------
(***************************************************************************)
(* The handlers. A request whose handler raises has no effect.             *)
(***************************************************************************)
Handles(r, op) == r.op = op /\ requests' = requests \ {r}

Refused(r) ==
    /\ requests' = requests \ {r}
    /\ UNCHANGED <<clock, users, sessions, minted, used>>

\* begin_2fa: with an active factor a current code is spent; the new secret is
\* pending. The UPDATE of an account that is gone changes nothing.
Begin2fa(r, step) ==
    /\ Handles(r, "begin") /\ Exists(r.user) /\ minted < MaxSecrets
    /\ minted' = minted + 1
    /\ LET a == users[r.user]
       IN IF a.totp_on
          THEN /\ Valid(step, a.last) /\ Spend(a.secret, step)
               /\ users' = [users EXCEPT ![r.user].last = step, ![r.user].pending = minted + 1]
          ELSE /\ users' = [users EXCEPT ![r.user].pending = minted + 1]
               /\ UNCHANGED used
    /\ UNCHANGED <<clock, sessions>>

\* Mutant: the other sessions of the account stay.
M_EndOthers(r, secret) ==
    {IF s.id = r.session THEN [s EXCEPT !.factor = secret] ELSE s : s \in sessions}

\* Every session of the account but the one that confirmed goes.
EndOthers(r, secret) ==
    {IF s.id = r.session THEN [s EXCEPT !.factor = secret] ELSE s :
        s \in {s \in sessions : s.user # r.user \/ s.id = r.session}}

Confirm2fa(r, step) ==
    /\ Handles(r, "confirm") /\ Exists(r.user)
    /\ LET a == users[r.user]
       IN /\ a.pending # None /\ Valid(step, 0)
          /\ Spend(a.pending, step)
          /\ users' = [users EXCEPT ![r.user] = [a EXCEPT !.secret = a.pending, !.pending = None,
                                                          !.totp_on = TRUE, !.last = step]]
          /\ sessions' = EndOthers(r, a.pending)
    /\ UNCHANGED <<clock, minted>>

Elevate(r, step) ==
    /\ Handles(r, "elevate") /\ Exists(r.user)
    /\ LET a == users[r.user]
       IN /\ a.totp_on /\ Valid(step, a.last)
          /\ Spend(a.secret, step)
          /\ users' = [users EXCEPT ![r.user].last = step]
    /\ sessions' = {IF s.id = r.session THEN [s EXCEPT !.elevated_until = clock + ELEVATE] ELSE s
                      : s \in sessions}
    /\ UNCHANGED <<clock, minted>>

\* change_password with the right old password: logged out everywhere.
ChangePassword(r) ==
    /\ Handles(r, "password") /\ Exists(r.user)
    /\ sessions' = {s \in sessions : s.user # r.user}
    /\ UNCHANGED <<clock, users, minted, used>>

\* create_user: SQLite gives the largest id plus one.
AddUser(r, role) ==
    /\ Handles(r, "add")
    /\ LET u == Max({v \in UserIds : Exists(v)} \cup {0}) + 1
       IN u \in UserIds /\ users' = [users EXCEPT ![u] = NewAccount(role)]
    /\ UNCHANGED <<clock, sessions, minted, used>>

\* Mutant: not deleting oneself is taken to be enough.
M_MayDelete(u, by) == u # by

\* Not oneself, and not the last administrator.
MayDelete(u, by) == u # by /\ (users[u].role = "admin" => Cardinality(Admins) > 1)

\* delete_user: the sessions go with the account (ON DELETE CASCADE).
RemoveUser(r, u) ==
    /\ Handles(r, "remove") /\ Exists(u)
    /\ MayDelete(u, r.user)
    /\ users' = [users EXCEPT ![u] = NoUser]
    /\ sessions' = {s \in sessions : s.user # u}
    /\ UNCHANGED <<clock, minted, used>>

\* Mutant: the sessions of the account stay.
M_Reset2fa(r, u) ==
    /\ Handles(r, "reset") /\ Exists(u)
    /\ users' = [users EXCEPT ![u] = NewAccount(users[u].role)]
    /\ UNCHANGED <<clock, sessions, minted, used>>

Reset2fa(r, u) ==
    /\ Handles(r, "reset") /\ Exists(u)
    /\ users' = [users EXCEPT ![u] = NewAccount(users[u].role)]
    /\ sessions' = {s \in sessions : s.user # u}
    /\ UNCHANGED <<clock, minted, used>>

AuthClock ==
    /\ clock < MaxNow
    /\ clock' = clock + 1
    /\ UNCHANGED <<users, sessions, requests, minted, used>>

-----------------------------------------------------------------------------
Handler(r) ==
    \/ \E step \in Steps : Begin2fa(r, step) \/ Confirm2fa(r, step) \/ Elevate(r, step)
    \/ \E role \in {"admin", "viewer"} : AddUser(r, role)
    \/ \E u \in UserIds : RemoveUser(r, u) \/ Reset2fa(r, u)
    \/ ChangePassword(r) \/ Refused(r)

AuthNext ==
    \/ \E u \in UserIds, step \in Steps : Login(u, step)
    \/ \E s \in sessions : SessionEnds(s) \/ \E op \in Operations : Guard(s, op)
    \/ \E r \in requests : Handler(r)
    \/ AuthClock

AuthSpec == AuthInit /\ [][AuthNext]_authVars

-----------------------------------------------------------------------------
(***************************************************************************)
(* Properties.                                                             *)
(***************************************************************************)

\* The type of every variable; a session belongs to an account that exists.
AuthTypes ==
    /\ clock \in AuthTimes
    /\ users \in [UserIds -> {NoUser} \cup Account]
    /\ sessions \subseteq Session
    /\ \A s \in sessions : Exists(s.user)
    /\ requests \subseteq [op : Operations, user : UserIds, session : 1 .. MaxSessions]
    /\ minted \in 0 .. MaxSecrets
    /\ used \in [Secrets \X Steps -> Nat]

\* "last used step: no replay": a code of a secret is accepted once, by
\* whichever of login, begin_2fa, confirm_2fa and elevate comes first.
CodesUsedOnce == \A c \in DOMAIN used : used[c] <= 1

\* "Other sessions were opened with the old (or no) second factor: end them."
\* Every session of an account with 2FA was opened, or confirmed, with the
\* secret the account has now; and it is elevated only while the account has
\* a second factor: neither a reset nor a request that was under way leaves an
\* elevation behind. (With the types: no session without an account.)
SessionsHoldFactor ==
    /\ AuthTypes
    /\ \A s \in sessions : /\ users[s.user].totp_on => s.factor = users[s.user].secret
                           /\ s.elevated_until > 0 => users[s.user].totp_on

\* There is always an administrator, even when two delete each other at the
\* same moment, each request past its guard before the other one's handler.
AdminRemains == Admins # {}
=============================================================================
