----------------------------- MODULE AuthProofs -----------------------------
(***************************************************************************)
(* Proofs about Auth, for any number of accounts, sessions, secrets and    *)
(* requests in flight.                                                     *)
(*                                                                         *)
(* Why a code is accepted once: every secret is minted fresh and belongs   *)
(* to one account, as its secret or as its pending one (SecretsOwned); no  *)
(* code of a secret that is not minted yet or still pending was accepted,  *)
(* and none of an active secret later than totp_last (Unspent).            *)
(* Why sessions hold the factor: ids are not shared, and a request whose   *)
(* session still exists is of the account the session is of (SessionsOwned). *)
(***************************************************************************)
EXTENDS Auth, FiniteSetTheorems, WellFoundedInduction, TLAPS

\* No secret is in two places.
SecretsOwned ==
    /\ \A u \in UserIds : Exists(u) =>
          /\ users[u].secret <= minted /\ users[u].pending <= minted
          /\ users[u].totp_on => users[u].secret # None
          /\ users[u].secret # None => users[u].secret # users[u].pending
    /\ \A u, v \in UserIds : u # v /\ Exists(u) /\ Exists(v) =>
          /\ users[u].secret # None => /\ users[u].secret # users[v].secret
                                       /\ users[u].secret # users[v].pending
          /\ users[u].pending # None => users[u].pending # users[v].pending

\* The codes nobody has used yet.
Unspent ==
    /\ \A x \in Secrets, t \in Steps : x > minted => used[<<x, t>>] = 0
    /\ \A u \in UserIds, t \in Steps : Exists(u) =>
          /\ users[u].pending # None => used[<<users[u].pending, t>>] = 0
          /\ users[u].totp_on /\ t > users[u].last => used[<<users[u].secret, t>>] = 0

UsedOnce == \A x \in Secrets, t \in Steps : used[<<x, t>>] <= 1

\* Whose session an id is.
SessionsOwned ==
    /\ \A s, t \in sessions : s.id = t.id => s = t
    /\ \A s \in sessions, r \in requests : s.id = r.session => s.user = r.user

FactorHeld ==
    \A s \in sessions : /\ users[s.user].totp_on => s.factor = users[s.user].secret
                        /\ s.elevated_until > 0 => users[s.user].totp_on

\* The inductive invariant.
AuthInv ==
    /\ AuthTypes /\ SecretsOwned /\ Unspent /\ UsedOnce
    /\ SessionsOwned /\ FactorHeld /\ AdminRemains

LEMMA InvImplies == AuthInv => SessionsHoldFactor /\ CodesUsedOnce /\ AdminRemains
<1> SUFFICES ASSUME AuthInv PROVE SessionsHoldFactor /\ CodesUsedOnce /\ AdminRemains
  OBVIOUS
<1>1. SessionsHoldFactor /\ AdminRemains
  BY DEF AuthInv, SessionsHoldFactor, FactorHeld
<1>2. ASSUME NEW c \in DOMAIN used PROVE used[c] <= 1
  <2>1. PICK x \in Secrets, t \in Steps : c = <<x, t>>
    BY DEF AuthInv, AuthTypes
  <2> QED BY <2>1 DEF AuthInv, UsedOnce
<1> QED BY <1>1, <1>2 DEF CodesUsedOnce

-----------------------------------------------------------------------------
(***************************************************************************)
(* Smallest and largest numbers.                                           *)
(***************************************************************************)
LEMMA MinOfNaturals ==
  ASSUME NEW S \in SUBSET Nat, S # {}
  PROVE  Min(S) \in S /\ \A y \in S : Min(S) <= y
<1>1. PICK x \in S : \A y \in S : ~(<<y, x>> \in OpToRel(<, Nat))
  <2> HIDE DEF OpToRel
  <2> QED BY NatLessThanWellFounded, WFMin, Zenon
<1>2. \A y \in S : ~(y < x)
  BY <1>1 DEF OpToRel
<1>3. x \in S /\ \A y \in S : x <= y
  BY <1>2
<1> QED BY <1>3 DEF Min

\* A bounded set of numbers has a largest: the smallest distance to the bound.
LEMMA MaxOfBounded ==
  ASSUME NEW n \in Nat, NEW S \in SUBSET (0 .. n), S # {}
  PROVE  Max(S) \in S /\ \A y \in S : y <= Max(S)
<1> DEFINE T == {n - y : y \in S}
<1>1. T \in SUBSET Nat /\ T # {}
  <2>1. \A y \in S : n - y \in Nat
    OBVIOUS
  <2>2. PICK y \in S : TRUE
    OBVIOUS
  <2>3. n - y \in T
    BY <2>2
  <2> QED BY <2>1, <2>3
<1>2. Min(T) \in T /\ \A y \in T : Min(T) <= y
  <2> HIDE DEF T
  <2> QED BY <1>1, MinOfNaturals
<1>3. PICK x \in S : Min(T) = n - x
  BY <1>2
<1>4. \A y \in S : n - x <= n - y
  BY <1>2, <1>3
<1>5. x \in S /\ \A y \in S : x >= y
  BY <1>4
<1> QED BY <1>5 DEF Max

\* The id SQLite gives to a new account is that of no account.
LEMMA NewIdIsFree ==
  ASSUME AuthTypes, NEW u \in UserIds, u = Max({v \in UserIds : Exists(v)} \cup {0}) + 1
  PROVE  ~Exists(u)
<1> DEFINE S == {v \in UserIds : Exists(v)} \cup {0}
<1>1. S \in SUBSET (0 .. MaxUsers) /\ S # {} /\ MaxUsers \in Nat
  BY AuthAssumption DEF UserIds
<1>2. \A y \in S : y <= Max(S)
  <2> HIDE DEF S
  <2> QED BY <1>1, MaxOfBounded
<1>3. Max(S) \in S
  <2> HIDE DEF S
  <2> QED BY <1>1, MaxOfBounded
<1>4. u \notin S
  BY <1>1, <1>2, <1>3
<1> QED BY <1>4

\* The token of a new session is of no session and of no request under way.
LEMMA NewSessionId ==
  ASSUME AuthTypes, FreeIds # {}
  PROVE  /\ Min(FreeIds) \in 1 .. MaxSessions
         /\ \A s \in sessions : s.id # Min(FreeIds)
         /\ \A r \in requests : r.session # Min(FreeIds)
<1>1. FreeIds \in SUBSET Nat
  BY AuthAssumption DEF FreeIds
<1>2. Min(FreeIds) \in FreeIds
  BY <1>1, MinOfNaturals
<1> QED BY <1>2 DEF FreeIds

-----------------------------------------------------------------------------
(***************************************************************************)
(* What the steps do to accounts and codes, in five kinds.                 *)
(***************************************************************************)
SameCodes == UNCHANGED <<users, minted, used>>

\* A code of the active secret is accepted.
SpendsActive(u, t, b) ==
    /\ Exists(u) /\ users[u].totp_on /\ t > users[u].last
    /\ users' = [users EXCEPT ![u] = b]
    /\ b = [users[u] EXCEPT !.last = t]
    /\ Spend(users[u].secret, t) /\ UNCHANGED minted

\* A new secret becomes the pending one.
Mints(u, t, b) ==
    /\ Exists(u) /\ minted < MaxSecrets /\ minted' = minted + 1
    /\ users' = [users EXCEPT ![u] = b]
    /\ \/ /\ users[u].totp_on /\ t > users[u].last
          /\ b = [users[u] EXCEPT !.last = t, !.pending = minted + 1]
          /\ Spend(users[u].secret, t)
       \/ /\ ~users[u].totp_on
          /\ b = [users[u] EXCEPT !.pending = minted + 1]
          /\ UNCHANGED used

\* The pending secret becomes the active one.
Activates(u, t, b) ==
    /\ Exists(u) /\ users[u].pending # None
    /\ users' = [users EXCEPT ![u] = b]
    /\ b = [users[u] EXCEPT !.secret = users[u].pending, !.pending = None, !.totp_on = TRUE, !.last = t]
    /\ Spend(users[u].pending, t) /\ UNCHANGED minted

\* An account goes, or starts anew without a factor.
Blank == {NoUser} \cup {NewAccount(role) : role \in {"admin", "viewer"}}

Blanks(u, b) ==
    /\ b \in Blank
    /\ users' = [users EXCEPT ![u] = b]
    /\ UNCHANGED <<minted, used>>

CodeStep ==
    \/ SameCodes
    \/ \E u \in UserIds, t \in Steps, b \in Account :
          SpendsActive(u, t, b) \/ Mints(u, t, b) \/ Activates(u, t, b)
    \/ \E u \in UserIds, b \in Blank : Blanks(u, b)

LEMMA ActionsOnCodes ==
  ASSUME AuthTypes, [AuthNext]_authVars
  PROVE  CodeStep
<1> USE AuthAssumption
<1>0. /\ users \in [UserIds -> {NoUser} \cup Account]
      /\ requests \subseteq [op : Operations, user : UserIds, session : 1 .. MaxSessions]
      /\ minted \in 0 .. MaxSecrets
      /\ \A u \in UserIds : Exists(u) => users[u] \in Account
  BY DEF AuthTypes, Exists
<1>1. ASSUME NEW u \in UserIds, NEW t \in Steps, Login(u, t) PROVE CodeStep
  <2>1. CASE users[u].totp_on
    <3> DEFINE b == [users[u] EXCEPT !.last = t]
    <3>1. b \in Account
      BY <1>0, <1>1 DEF Login, Account
    <3>2. SpendsActive(u, t, b)
      BY <1>0, <1>1, <2>1 DEF Login, SpendsActive, Valid
    <3> QED BY <3>1, <3>2 DEF CodeStep
  <2>2. CASE ~users[u].totp_on
    BY <1>1, <2>2 DEF Login, CodeStep, SameCodes
  <2> QED BY <2>1, <2>2
<1>2. ASSUME NEW s \in sessions, SessionEnds(s) \/ \E op \in Operations : Guard(s, op) PROVE CodeStep
  BY <1>2 DEF SessionEnds, Guard, CodeStep, SameCodes
<1>3. ASSUME NEW r \in requests, Handler(r) PROVE CodeStep
  <2>0. r.user \in UserIds
    BY <1>0
  <2>1. ASSUME NEW t \in Steps, Begin2fa(r, t) PROVE CodeStep
    <3>0. users[r.user] \in Account /\ minted + 1 \in Secrets
      BY <1>0, <2>0, <2>1 DEF Begin2fa, Secrets
    <3>1. CASE users[r.user].totp_on
      <4> DEFINE b == [users[r.user] EXCEPT !.last = t, !.pending = minted + 1]
      <4>1. b \in Account
        BY <3>0 DEF Account
      <4>2. users' = [users EXCEPT ![r.user] = b]
        BY <1>0, <2>0, <2>1, <3>1 DEF Begin2fa
      <4>3. Mints(r.user, t, b)
        BY <2>1, <3>1, <4>2 DEF Begin2fa, Mints, Valid
      <4> QED BY <2>0, <4>1, <4>3 DEF CodeStep
    <3>2. CASE ~users[r.user].totp_on
      <4> DEFINE b == [users[r.user] EXCEPT !.pending = minted + 1]
      <4>1. b \in Account
        BY <3>0 DEF Account
      <4>2. users' = [users EXCEPT ![r.user] = b]
        BY <1>0, <2>0, <2>1, <3>2 DEF Begin2fa
      <4>3. Mints(r.user, t, b)
        BY <2>1, <3>2, <4>2 DEF Begin2fa, Mints
      <4> QED BY <2>0, <4>1, <4>3 DEF CodeStep
    <3> QED BY <3>1, <3>2
  <2>2. ASSUME NEW t \in Steps, Confirm2fa(r, t) PROVE CodeStep
    <3> DEFINE a == users[r.user]
               b == [a EXCEPT !.secret = a.pending, !.pending = None, !.totp_on = TRUE, !.last = t]
    <3>1. a \in Account
      BY <1>0, <2>0, <2>2 DEF Confirm2fa
    <3>2. b \in Account
      BY <3>1 DEF Account
    <3>3. Activates(r.user, t, b)
      BY <2>2 DEF Confirm2fa, Activates
    <3> QED BY <2>0, <3>2, <3>3 DEF CodeStep
  <2>3. ASSUME NEW t \in Steps, Elevate(r, t) PROVE CodeStep
    <3> DEFINE b == [users[r.user] EXCEPT !.last = t]
    <3>1. b \in Account
      BY <1>0, <2>0, <2>3 DEF Elevate, Account
    <3>2. SpendsActive(r.user, t, b)
      BY <1>0, <2>0, <2>3 DEF Elevate, SpendsActive, Valid
    <3> QED BY <2>0, <3>1, <3>2 DEF CodeStep
  <2>4. ASSUME NEW role \in {"admin", "viewer"}, AddUser(r, role) PROVE CodeStep
    BY <2>4 DEF AddUser, CodeStep, Blanks, Blank
  <2>5. ASSUME NEW u \in UserIds, RemoveUser(r, u) PROVE CodeStep
    BY <2>5 DEF RemoveUser, CodeStep, Blanks, Blank
  <2>6. ASSUME NEW u \in UserIds, Reset2fa(r, u) PROVE CodeStep
    <3>1. users[u].role \in {"admin", "viewer"}
      BY <1>0, <2>6 DEF Reset2fa, Account
    <3> QED BY <2>6, <3>1 DEF Reset2fa, CodeStep, Blanks, Blank
  <2>7. CASE ChangePassword(r) \/ Refused(r)
    BY <2>7 DEF ChangePassword, Refused, CodeStep, SameCodes
  <2> QED BY <1>3, <2>1, <2>2, <2>3, <2>4, <2>5, <2>6, <2>7 DEF Handler
<1>4. CASE AuthClock \/ UNCHANGED authVars
  BY <1>4 DEF AuthClock, authVars, CodeStep, SameCodes
<1> QED BY <1>1, <1>2, <1>3, <1>4 DEF AuthNext

-----------------------------------------------------------------------------
(***************************************************************************)
(* The secrets and the codes.                                              *)
(***************************************************************************)

\* One code more of one secret, and nothing else.
LEMMA SpendValue ==
  ASSUME used \in [Secrets \X Steps -> Nat], NEW y \in Secrets, NEW w \in Steps, Spend(y, w)
  PROVE  /\ used' \in [Secrets \X Steps -> Nat]
         /\ \A x \in Secrets, t \in Steps :
               used'[<<x, t>>] = IF x = y /\ t = w THEN used[<<x, t>>] + 1 ELSE used[<<x, t>>]
<1>1. <<y, w>> \in Secrets \X Steps /\ used[<<y, w>>] + 1 \in Nat
  OBVIOUS
<1>2. used' \in [Secrets \X Steps -> Nat]
  BY <1>1 DEF Spend
<1>3. ASSUME NEW x \in Secrets, NEW t \in Steps
      PROVE  used'[<<x, t>>] = IF x = y /\ t = w THEN used[<<x, t>>] + 1 ELSE used[<<x, t>>]
  <2>1. <<x, t>> \in Secrets \X Steps /\ (<<x, t>> = <<y, w>> <=> x = y /\ t = w)
    OBVIOUS
  <2> QED BY <1>1, <2>1 DEF Spend
<1> QED BY <1>2, <1>3

LEMMA Numbers ==
  /\ MaxSecrets \in Nat /\ MaxNow \in Nat /\ ELEVATE \in Nat /\ MaxSessions \in Nat /\ MaxUsers \in Nat
  /\ None = 0 /\ 0 \notin Secrets
  /\ \A x \in Secrets \cup {None} : x \in Nat
  /\ \A t \in Steps \cup {0} : t \in Nat
  BY AuthAssumption DEF Secrets, Steps, None

\* What the types say of one account.
LEMMA AccountFields ==
  ASSUME AuthTypes, NEW u \in UserIds, Exists(u)
  PROVE  /\ users[u] \in Account
         /\ users[u].secret \in Secrets \cup {None} /\ users[u].pending \in Secrets \cup {None}
         /\ users[u].last \in Steps \cup {0} /\ users[u].totp_on \in BOOLEAN
         /\ users[u].role \in {"admin", "viewer"}
         /\ users[u].secret \in Nat /\ users[u].pending \in Nat /\ users[u].last \in Nat
<1>1. users[u] \in Account
  BY DEF AuthTypes, Exists
<1>2. /\ users[u].secret \in Secrets \cup {None} /\ users[u].pending \in Secrets \cup {None}
      /\ users[u].last \in Steps \cup {0} /\ users[u].totp_on \in BOOLEAN
      /\ users[u].role \in {"admin", "viewer"}
  BY <1>1 DEF Account
<1>3. users[u].secret \in Nat /\ users[u].pending \in Nat /\ users[u].last \in Nat
  BY <1>2, Numbers, Zenon
<1> QED BY <1>1, <1>2, <1>3

\* A step that changes account u into b, seen from every account.
LEMMA OneAccount ==
  ASSUME AuthTypes, NEW u \in UserIds, NEW b \in {NoUser} \cup Account, users' = [users EXCEPT ![u] = b]
  PROVE  /\ users' \in [UserIds -> {NoUser} \cup Account]
         /\ \A v \in UserIds : users'[v] = IF v = u THEN b ELSE users[v]
  BY DEF AuthTypes

LEMMA BlankAccount ==
  ASSUME NEW b \in Blank, b # NoUser
  PROVE  /\ b.secret = None /\ b.pending = None /\ b.last = 0 /\ ~b.totp_on
         /\ b \in Account
<1>1. PICK role \in {"admin", "viewer"} : b = NewAccount(role)
  BY DEF Blank
<1>2. b = [role |-> role, totp_on |-> FALSE, secret |-> None, pending |-> None, last |-> 0]
  BY <1>1 DEF NewAccount
<1>3. b \in Account
  BY <1>2 DEF Account, None
<1> QED BY <1>2, <1>3

LEMMA SecretsStep ==
  ASSUME AuthTypes, SecretsOwned, CodeStep
  PROVE  SecretsOwned'
<1>1. CASE SameCodes
  BY <1>1 DEF SameCodes, SecretsOwned, Exists
<1>2. ASSUME NEW u \in UserIds, NEW t \in Steps, NEW b \in Account, SpendsActive(u, t, b)
      PROVE  SecretsOwned'
  <2>1. \A v \in UserIds : users'[v] = IF v = u THEN b ELSE users[v]
    BY <1>2, OneAccount DEF SpendsActive
  <2>2. /\ Exists(u) /\ b.secret = users[u].secret /\ b.pending = users[u].pending
        /\ b.totp_on = users[u].totp_on /\ minted' = minted
    BY <1>2, AccountFields DEF SpendsActive, Account
  <2> QED BY <2>1, <2>2 DEF SecretsOwned, Exists
<1>3. ASSUME NEW u \in UserIds, NEW t \in Steps, NEW b \in Account, Mints(u, t, b)
      PROVE  SecretsOwned'
  <2>1. \A v \in UserIds : users'[v] = IF v = u THEN b ELSE users[v]
    BY <1>3, OneAccount DEF Mints
  <2>2. /\ Exists(u) /\ b.secret = users[u].secret /\ b.pending = minted + 1
        /\ b.totp_on = users[u].totp_on /\ minted' = minted + 1
    BY <1>3, AccountFields DEF Mints, Account
  <2>3. minted \in Nat
    BY Numbers DEF AuthTypes
  <2>4. \A v \in UserIds : Exists(v) => users[v].secret \in Nat /\ users[v].pending \in Nat
    BY AccountFields
  <2>5. ASSUME NEW v \in UserIds, Exists(v)'
        PROVE  /\ users'[v].secret <= minted' /\ users'[v].pending <= minted'
               /\ users'[v].totp_on => users'[v].secret # None
               /\ users'[v].secret # None => users'[v].secret # users'[v].pending
    BY <2>1, <2>2, <2>3, <2>4, <2>5 DEF SecretsOwned, Exists
  <2>6. ASSUME NEW v \in UserIds, NEW w \in UserIds, v # w, Exists(v)', Exists(w)'
        PROVE  /\ users'[v].secret # None => /\ users'[v].secret # users'[w].secret
                                             /\ users'[v].secret # users'[w].pending
               /\ users'[v].pending # None => users'[v].pending # users'[w].pending
    BY <2>1, <2>2, <2>3, <2>4, <2>6 DEF SecretsOwned, Exists
  <2> QED BY <2>5, <2>6 DEF SecretsOwned
<1>4. ASSUME NEW u \in UserIds, NEW t \in Steps, NEW b \in Account, Activates(u, t, b)
      PROVE  SecretsOwned'
  <2>1. \A v \in UserIds : users'[v] = IF v = u THEN b ELSE users[v]
    BY <1>4, OneAccount DEF Activates
  <2>2. /\ Exists(u) /\ b.secret = users[u].pending /\ b.pending = None
        /\ users[u].pending # None /\ minted' = minted
    BY <1>4, AccountFields DEF Activates, Account
  <2>3. minted \in Nat /\ None = 0
    BY Numbers DEF AuthTypes
  <2>4. \A v \in UserIds : Exists(v) => users[v].secret \in Nat /\ users[v].pending \in Nat
    BY AccountFields
  <2>5. ASSUME NEW v \in UserIds, Exists(v)'
        PROVE  /\ users'[v].secret <= minted' /\ users'[v].pending <= minted'
               /\ users'[v].totp_on => users'[v].secret # None
               /\ users'[v].secret # None => users'[v].secret # users'[v].pending
    BY <2>1, <2>2, <2>3, <2>4, <2>5 DEF SecretsOwned, Exists
  <2>6. ASSUME NEW v \in UserIds, NEW w \in UserIds, v # w, Exists(v)', Exists(w)'
        PROVE  /\ users'[v].secret # None => /\ users'[v].secret # users'[w].secret
                                             /\ users'[v].secret # users'[w].pending
               /\ users'[v].pending # None => users'[v].pending # users'[w].pending
    BY <2>1, <2>2, <2>3, <2>4, <2>6 DEF SecretsOwned, Exists
  <2> QED BY <2>5, <2>6 DEF SecretsOwned
<1>5. ASSUME NEW u \in UserIds, NEW b \in Blank, Blanks(u, b)
      PROVE  SecretsOwned'
  <2>1. b # NoUser => b.secret = None /\ b.pending = None /\ ~b.totp_on /\ b \in Account
    BY BlankAccount
  <2>2. \A v \in UserIds : users'[v] = IF v = u THEN b ELSE users[v]
    BY <1>5, <2>1, OneAccount DEF Blanks
  <2>3. minted \in Nat /\ None = 0 /\ minted' = minted
    BY <1>5, Numbers DEF AuthTypes, Blanks
  <2>4. \A v \in UserIds : Exists(v) => users[v].secret \in Nat /\ users[v].pending \in Nat
    BY AccountFields
  <2>5. ASSUME NEW v \in UserIds, Exists(v)'
        PROVE  /\ users'[v].secret <= minted' /\ users'[v].pending <= minted'
               /\ users'[v].totp_on => users'[v].secret # None
               /\ users'[v].secret # None => users'[v].secret # users'[v].pending
    BY <2>1, <2>2, <2>3, <2>4, <2>5 DEF SecretsOwned, Exists
  <2>6. ASSUME NEW v \in UserIds, NEW w \in UserIds, v # w, Exists(v)', Exists(w)'
        PROVE  /\ users'[v].secret # None => /\ users'[v].secret # users'[w].secret
                                             /\ users'[v].secret # users'[w].pending
               /\ users'[v].pending # None => users'[v].pending # users'[w].pending
    BY <2>1, <2>2, <2>3, <2>4, <2>6 DEF SecretsOwned, Exists
  <2> QED BY <2>5, <2>6 DEF SecretsOwned
<1> QED BY <1>1, <1>2, <1>3, <1>4, <1>5 DEF CodeStep

\* A spent code of account u is of no other account, of no pending secret
\* and of no secret yet to be minted.
LEMMA UnspentStep ==
  ASSUME AuthTypes, SecretsOwned, Unspent, UsedOnce, CodeStep
  PROVE  /\ Unspent' /\ UsedOnce'
         /\ used' \in [Secrets \X Steps -> Nat] /\ minted' \in 0 .. MaxSecrets
<1>0. /\ used \in [Secrets \X Steps -> Nat] /\ minted \in 0 .. MaxSecrets /\ MaxSecrets \in Nat
      /\ \A x \in Secrets, t \in Steps : used[<<x, t>>] \in Nat
      /\ None = 0 /\ 0 \notin Secrets
      /\ \A x \in Secrets : x \in Nat
      /\ \A t \in Steps : t \in Nat
  BY Numbers DEF AuthTypes
<1>1. CASE SameCodes
  BY <1>0, <1>1 DEF SameCodes, Unspent, UsedOnce, Exists
<1>2. ASSUME NEW u \in UserIds, NEW w \in Steps, NEW b \in Account, SpendsActive(u, w, b)
      PROVE  /\ Unspent' /\ UsedOnce'
             /\ used' \in [Secrets \X Steps -> Nat] /\ minted' \in 0 .. MaxSecrets
  <2>1. \A v \in UserIds : users'[v] = IF v = u THEN b ELSE users[v]
    BY <1>2, OneAccount DEF SpendsActive
  <2> DEFINE y == users[u].secret
  <2>2. /\ Exists(u) /\ b.secret = y /\ b.pending = users[u].pending /\ b.last = w
        /\ b.totp_on = users[u].totp_on /\ minted' = minted /\ users[u].totp_on
        /\ w > users[u].last
    BY <1>2, AccountFields DEF SpendsActive, Account
  <2>3. y \in Secrets /\ y <= minted /\ used[<<y, w>>] = 0
    BY <2>2, AccountFields DEF SecretsOwned, Unspent
  <2>4. /\ used' \in [Secrets \X Steps -> Nat]
        /\ \A x \in Secrets, t \in Steps :
              used'[<<x, t>>] = IF x = y /\ t = w THEN used[<<x, t>>] + 1 ELSE used[<<x, t>>]
    BY <1>0, <1>2, <2>3, SpendValue DEF SpendsActive
  <2>5. UsedOnce'
    <3>1. ASSUME NEW x \in Secrets, NEW t \in Steps PROVE used'[<<x, t>>] <= 1
      <4>1. used[<<x, t>>] \in Nat /\ used[<<x, t>>] <= 1
        BY <1>0 DEF UsedOnce
      <4> QED BY <2>3, <2>4, <4>1
    <3> QED BY <3>1 DEF UsedOnce
  <2>6. ASSUME NEW x \in Secrets, NEW t \in Steps, x > minted' PROVE used'[<<x, t>>] = 0
    BY <1>0, <2>2, <2>3, <2>4, <2>6 DEF Unspent
  <2>7. ASSUME NEW v \in UserIds, NEW t \in Steps, Exists(v)'
        PROVE  /\ users'[v].pending # None => used'[<<users'[v].pending, t>>] = 0
               /\ users'[v].totp_on /\ t > users'[v].last => used'[<<users'[v].secret, t>>] = 0
    <3>1. Exists(v)
      BY <2>1, <2>2, <2>7 DEF Exists
    <3>2. /\ users[v].pending \in Secrets \cup {None} /\ users[v].secret \in Secrets \cup {None}
          /\ users[v].last \in Nat /\ users[u].last \in Nat /\ w \in Nat /\ t \in Nat
      BY <1>0, <2>2, <3>1, AccountFields
    <3>3. /\ users[v].totp_on => users[v].secret # None
          /\ users[v].pending # None => users[v].pending # y
          /\ v # u /\ users[v].secret # None => users[v].secret # y
      BY <2>2, <2>3, <3>1, <1>0 DEF SecretsOwned
    <3>4. /\ users[v].pending # None => used[<<users[v].pending, t>>] = 0
          /\ users[v].totp_on /\ t > users[v].last => used[<<users[v].secret, t>>] = 0
      BY <3>1 DEF Unspent
    <3>5. CASE v = u
      BY <2>1, <2>2, <2>3, <2>4, <3>2, <3>3, <3>4, <3>5
    <3>6. CASE v # u
      BY <2>1, <2>2, <2>3, <2>4, <3>2, <3>3, <3>4, <3>6
    <3> QED BY <3>5, <3>6
  <2>8. Unspent'
    BY <2>6, <2>7 DEF Unspent
  <2> QED BY <1>0, <2>2, <2>4, <2>5, <2>8
<1>3. ASSUME NEW u \in UserIds, NEW w \in Steps, NEW b \in Account, Mints(u, w, b)
      PROVE  /\ Unspent' /\ UsedOnce'
             /\ used' \in [Secrets \X Steps -> Nat] /\ minted' \in 0 .. MaxSecrets
  <2>1. \A v \in UserIds : users'[v] = IF v = u THEN b ELSE users[v]
    BY <1>3, OneAccount DEF Mints
  <2> DEFINE y == users[u].secret
             on == users[u].totp_on
  <2>2. /\ Exists(u) /\ b.secret = y /\ b.pending = minted + 1 /\ (b.totp_on <=> on)
        /\ minted' = minted + 1 /\ minted < MaxSecrets
        /\ on => b.last = w /\ w > users[u].last
    BY <1>3, AccountFields DEF Mints, Account
  <2>3. on => y \in Secrets /\ y <= minted /\ used[<<y, w>>] = 0
    BY <2>2, AccountFields DEF SecretsOwned, Unspent
  <2>4. /\ used' \in [Secrets \X Steps -> Nat]
        /\ \A x \in Secrets, t \in Steps :
              used'[<<x, t>>] = IF on /\ x = y /\ t = w THEN used[<<x, t>>] + 1 ELSE used[<<x, t>>]
    <3>1. CASE on
      BY <1>0, <1>3, <2>3, <3>1, SpendValue DEF Mints
    <3>2. CASE ~on
      BY <1>0, <1>3, <3>2 DEF Mints
    <3> QED BY <3>1, <3>2
  <2>5. UsedOnce'
    <3>1. ASSUME NEW x \in Secrets, NEW t \in Steps PROVE used'[<<x, t>>] <= 1
      <4>1. used[<<x, t>>] \in Nat /\ used[<<x, t>>] <= 1
        BY <1>0 DEF UsedOnce
      <4> QED BY <2>3, <2>4, <4>1
    <3> QED BY <3>1 DEF UsedOnce
  <2>m. minted + 1 \in Secrets /\ minted' \in 0 .. MaxSecrets
    BY <1>0, <2>2 DEF Secrets
  <2>6. ASSUME NEW x \in Secrets, NEW t \in Steps, x > minted PROVE used'[<<x, t>>] = 0
    BY <1>0, <2>3, <2>4, <2>6 DEF Unspent
  <2>7. ASSUME NEW v \in UserIds, NEW t \in Steps, Exists(v)'
        PROVE  /\ users'[v].pending # None => used'[<<users'[v].pending, t>>] = 0
               /\ users'[v].totp_on /\ t > users'[v].last => used'[<<users'[v].secret, t>>] = 0
    <3>1. Exists(v)
      BY <2>1, <2>2, <2>7 DEF Exists
    <3>2. /\ users[v].pending \in Secrets \cup {None} /\ users[v].secret \in Secrets \cup {None}
          /\ users[v].last \in Nat /\ users[u].last \in Nat /\ w \in Nat /\ t \in Nat
      BY <1>0, <2>2, <3>1, AccountFields
    <3>3. /\ users[v].totp_on => users[v].secret # None
          /\ on /\ users[v].pending # None => users[v].pending # y
          /\ v # u /\ on /\ users[v].secret # None => users[v].secret # y
      BY <2>2, <2>3, <3>1, <1>0 DEF SecretsOwned
    <3>4. /\ users[v].pending # None => used[<<users[v].pending, t>>] = 0
          /\ users[v].totp_on /\ t > users[v].last => used[<<users[v].secret, t>>] = 0
      BY <3>1 DEF Unspent
    <3>5. CASE v = u
      <4>1. used'[<<minted + 1, t>>] = 0
        BY <1>0, <2>m, <2>6
      <4>2. users'[v].pending = minted + 1 /\ users'[v].secret = y
            /\ (users'[v].totp_on <=> on) /\ (on => users'[v].last = w)
        BY <2>1, <2>2, <3>5
      <4>3. ASSUME on, t > w PROVE used'[<<y, t>>] = 0
        <5>1. t > users[u].last /\ t # w
          BY <2>2, <3>2, <4>3
        <5>2. used[<<y, t>>] = 0
          BY <3>4, <3>5, <4>3, <5>1
        <5> QED BY <2>3, <2>4, <4>3, <5>1, <5>2
      <4> QED BY <4>1, <4>2, <4>3
    <3>6. CASE v # u
      BY <2>1, <2>2, <2>3, <2>4, <3>2, <3>3, <3>4, <3>6
    <3> QED BY <3>5, <3>6
  <2>8. Unspent'
    BY <1>0, <2>2, <2>6, <2>7 DEF Unspent
  <2> QED BY <2>4, <2>5, <2>8, <2>m
<1>4. ASSUME NEW u \in UserIds, NEW w \in Steps, NEW b \in Account, Activates(u, w, b)
      PROVE  /\ Unspent' /\ UsedOnce'
             /\ used' \in [Secrets \X Steps -> Nat] /\ minted' \in 0 .. MaxSecrets
  <2>1. \A v \in UserIds : users'[v] = IF v = u THEN b ELSE users[v]
    BY <1>4, OneAccount DEF Activates
  <2> DEFINE y == users[u].pending
  <2>2. /\ Exists(u) /\ b.secret = y /\ b.pending = None /\ b.last = w
        /\ minted' = minted /\ y # None
    BY <1>4, AccountFields DEF Activates, Account
  <2>3. y \in Secrets /\ y <= minted /\ \A t \in Steps : used[<<y, t>>] = 0
    BY <2>2, AccountFields DEF SecretsOwned, Unspent
  <2>4. /\ used' \in [Secrets \X Steps -> Nat]
        /\ \A x \in Secrets, t \in Steps :
              used'[<<x, t>>] = IF x = y /\ t = w THEN used[<<x, t>>] + 1 ELSE used[<<x, t>>]
    BY <1>0, <1>4, <2>3, SpendValue DEF Activates
  <2>5. UsedOnce'
    <3>1. ASSUME NEW x \in Secrets, NEW t \in Steps PROVE used'[<<x, t>>] <= 1
      <4>1. used[<<x, t>>] \in Nat /\ used[<<x, t>>] <= 1
        BY <1>0 DEF UsedOnce
      <4> QED BY <2>3, <2>4, <4>1
    <3> QED BY <3>1 DEF UsedOnce
  <2>6. ASSUME NEW x \in Secrets, NEW t \in Steps, x > minted' PROVE used'[<<x, t>>] = 0
    BY <1>0, <2>2, <2>3, <2>4, <2>6 DEF Unspent
  <2>7. ASSUME NEW v \in UserIds, NEW t \in Steps, Exists(v)'
        PROVE  /\ users'[v].pending # None => used'[<<users'[v].pending, t>>] = 0
               /\ users'[v].totp_on /\ t > users'[v].last => used'[<<users'[v].secret, t>>] = 0
    <3>1. Exists(v)
      BY <2>1, <2>2, <2>7 DEF Exists
    <3>2. /\ users[v].pending \in Secrets \cup {None} /\ users[v].secret \in Secrets \cup {None}
          /\ users[v].last \in Nat /\ w \in Nat /\ t \in Nat
      BY <1>0, <2>2, <3>1, AccountFields
    <3>3. /\ users[v].totp_on => users[v].secret # None
          /\ v # u /\ users[v].pending # None => users[v].pending # y
          /\ v # u /\ users[v].secret # None => users[v].secret # y
      BY <2>2, <2>3, <3>1, <1>0 DEF SecretsOwned
    <3>4. /\ users[v].pending # None => used[<<users[v].pending, t>>] = 0
          /\ users[v].totp_on /\ t > users[v].last => used[<<users[v].secret, t>>] = 0
      BY <3>1 DEF Unspent
    <3>5. CASE v = u
      BY <2>1, <2>2, <2>3, <2>4, <3>2, <3>5
    <3>6. CASE v # u
      BY <2>1, <2>2, <2>3, <2>4, <3>2, <3>3, <3>4, <3>6
    <3> QED BY <3>5, <3>6
  <2>8. Unspent'
    BY <2>6, <2>7 DEF Unspent
  <2> QED BY <1>0, <2>2, <2>4, <2>5, <2>8
<1>5. ASSUME NEW u \in UserIds, NEW b \in Blank, Blanks(u, b)
      PROVE  /\ Unspent' /\ UsedOnce'
             /\ used' \in [Secrets \X Steps -> Nat] /\ minted' \in 0 .. MaxSecrets
  <2>1. b # NoUser => b.pending = None /\ ~b.totp_on /\ b \in Account
    BY BlankAccount
  <2>2. \A v \in UserIds : users'[v] = IF v = u THEN b ELSE users[v]
    BY <1>5, <2>1, OneAccount DEF Blanks
  <2>3. UNCHANGED <<minted, used>>
    BY <1>5 DEF Blanks
  <2>4. Unspent'
    BY <2>1, <2>2, <2>3 DEF Unspent, Exists
  <2> QED BY <1>0, <2>3, <2>4 DEF UsedOnce
<1> QED BY <1>1, <1>2, <1>3, <1>4, <1>5 DEF CodeStep

-----------------------------------------------------------------------------
(***************************************************************************)
(* The sessions, the requests and the administrators.                      *)
(***************************************************************************)
Request == [op : Operations, user : UserIds, session : 1 .. MaxSessions]

\* Steps that change no account's factor or role.
FactorsStay ==
    \A v \in UserIds : Exists(v) =>
       /\ Exists(v)'
       /\ users'[v].totp_on = users[v].totp_on /\ users'[v].secret = users[v].secret
       /\ users'[v].role = users[v].role

LEMMA FactorsStaySame == ASSUME UNCHANGED users PROVE FactorsStay
  BY DEF FactorsStay, Exists

LEMMA FactorsStayChanged ==
  ASSUME AuthTypes, NEW u \in UserIds, NEW b \in Account, users' = [users EXCEPT ![u] = b],
         b.totp_on = users[u].totp_on, b.secret = users[u].secret, b.role = users[u].role
  PROVE  FactorsStay
<1>1. \A v \in UserIds : users'[v] = IF v = u THEN b ELSE users[v]
  BY OneAccount
<1>2. b # NoUser
  BY NoUserIsNoAccount
<1> QED BY <1>1, <1>2 DEF FactorsStay, Exists

SessionPart ==
    /\ sessions \subseteq Session
    /\ \A s \in sessions : Exists(s.user)
    /\ requests \subseteq Request
    /\ SessionsOwned /\ FactorHeld

LEMMA SessionPartNow == AuthInv => SessionPart
  BY DEF AuthInv, AuthTypes, SessionPart, Request

LEMMA SessionFields ==
  ASSUME SessionPart, NEW s \in sessions
  PROVE  /\ s \in Session
         /\ s.id \in 1 .. MaxSessions /\ s.user \in UserIds
         /\ s.elevated_until \in Nat /\ s.factor \in Secrets \cup {None}
  BY DEF SessionPart, Session

\* Fewer sessions and fewer requests, and the factors stay.
LEMMA FewerStep ==
  ASSUME SessionPart, FactorsStay, sessions' \subseteq sessions, requests' \subseteq requests
  PROVE  SessionPart'
<1>1. \A s \in sessions' : s.user \in UserIds /\ Exists(s.user) /\ Exists(s.user)'
  BY SessionFields DEF SessionPart, FactorsStay
<1>2. FactorHeld'
  BY <1>1 DEF SessionPart, FactorHeld, FactorsStay
<1>3. SessionsOwned'
  BY DEF SessionPart, SessionsOwned
<1> QED BY <1>1, <1>2, <1>3 DEF SessionPart

\* The same for an account that is blanked: its sessions go.
LEMMA BlankStep ==
  ASSUME AuthTypes, SessionPart, NEW u \in UserIds, NEW b \in Blank, Blanks(u, b),
         sessions' = {s \in sessions : s.user # u}, requests' \subseteq requests
  PROVE  SessionPart'
<1>1. \A v \in UserIds : v # u => users'[v] = users[v]
  BY BlankAccount, OneAccount DEF Blanks
<1>2. \A s \in sessions' : s \in sessions /\ s.user \in UserIds /\ users'[s.user] = users[s.user]
  BY <1>1, SessionFields
<1>3. \A s \in sessions' : Exists(s.user)'
  BY <1>2 DEF SessionPart, Exists
<1>4. FactorHeld'
  BY <1>2 DEF SessionPart, FactorHeld
<1>5. SessionsOwned'
  BY <1>2 DEF SessionPart, SessionsOwned
<1> QED BY <1>2, <1>3, <1>4, <1>5 DEF SessionPart

LEMMA LoginSessions ==
  ASSUME AuthTypes, SessionPart, NEW u \in UserIds, NEW t \in Steps, Login(u, t)
  PROVE  SessionPart' /\ FactorsStay
<1> DEFINE n == [id |-> Min(FreeIds), user |-> u, elevated_until |-> 0,
                 factor |-> IF users[u].totp_on THEN users[u].secret ELSE None]
<1>0. users[u] \in Account /\ Exists(u) /\ users[u].secret \in Secrets \cup {None}
  BY AccountFields DEF Login
<1>1. FactorsStay
  <2>1. CASE users[u].totp_on
    <3> DEFINE b == [users[u] EXCEPT !.last = t]
    <3>1. /\ b \in Account /\ b.totp_on = users[u].totp_on /\ b.secret = users[u].secret
          /\ b.role = users[u].role
      BY <1>0 DEF Account
    <3>2. users' = [users EXCEPT ![u] = b]
      BY <1>0, <2>1 DEF Login
    <3> HIDE DEF b
    <3> QED BY <3>1, <3>2, FactorsStayChanged
  <2>2. CASE ~users[u].totp_on
    BY <2>2, FactorsStaySame DEF Login
  <2> QED BY <2>1, <2>2
<1>2. sessions' = sessions \cup {n} /\ FreeIds # {} /\ requests' = requests
  BY DEF Login
<1>3. /\ n.id \in 1 .. MaxSessions
      /\ \A s \in sessions : s.id # n.id
      /\ \A r \in requests : r.session # n.id
  BY <1>2, NewSessionId
<1>4. /\ n \in Session /\ n.user = u /\ n.elevated_until = 0
      /\ n.factor = IF users[u].totp_on THEN users[u].secret ELSE None
  BY <1>0, <1>3 DEF Session
<1>5. Exists(u)' /\ users'[u].totp_on = users[u].totp_on /\ users'[u].secret = users[u].secret
  BY <1>0, <1>1 DEF FactorsStay
<1> HIDE DEF n
<1>6. \A s \in sessions' : Exists(s.user)'
  BY <1>1, <1>2, <1>4, <1>5, SessionFields DEF SessionPart, FactorsStay
<1>7. SessionsOwned'
  BY <1>2, <1>3 DEF SessionPart, SessionsOwned
<1>8. FactorHeld'
  <2> SUFFICES ASSUME NEW s \in sessions'
               PROVE  /\ users'[s.user].totp_on => s.factor = users'[s.user].secret
                      /\ s.elevated_until > 0 => users'[s.user].totp_on
    BY DEF FactorHeld
  <2>1. CASE s = n
    BY <1>4, <1>5, <2>1
  <2>2. CASE s \in sessions
    BY <1>1, <2>2, SessionFields DEF SessionPart, FactorHeld, FactorsStay
  <2> QED BY <1>2, <2>1, <2>2
<1> QED BY <1>1, <1>2, <1>4, <1>6, <1>7, <1>8 DEF SessionPart

LEMMA GuardSessions ==
  ASSUME SessionPart, NEW s \in sessions, NEW op \in Operations, Guard(s, op)
  PROVE  SessionPart'
<1> DEFINE q == [op |-> op, user |-> s.user, session |-> s.id]
<1>1. requests' = requests \cup {q} /\ UNCHANGED <<users, sessions>>
  BY DEF Guard
<1>2. q \in Request /\ q.user = s.user /\ q.session = s.id
  BY SessionFields DEF Request
<1> HIDE DEF q
<1>3. SessionsOwned'
  BY <1>1, <1>2 DEF SessionPart, SessionsOwned
<1>4. FactorHeld' /\ \A t \in sessions' : Exists(t.user)'
  BY <1>1 DEF SessionPart, FactorHeld, Exists
<1> QED BY <1>1, <1>2, <1>3, <1>4 DEF SessionPart

\* The session that confirmed has the new factor; no other of the account is left.
LEMMA ConfirmSessions ==
  ASSUME AuthTypes, SessionPart, NEW r \in requests, NEW t \in Steps, Confirm2fa(r, t)
  PROVE  SessionPart'
<1> DEFINE u == r.user
           y == users[u].pending
           b == [users[u] EXCEPT !.secret = y, !.pending = None, !.totp_on = TRUE, !.last = t]
           New(s) == IF s.id = r.session THEN [s EXCEPT !.factor = y] ELSE s
           Kept == {s \in sessions : s.user # u \/ s.id = r.session}
<1>1. u \in UserIds /\ Exists(u) /\ requests' \subseteq requests
  BY DEF SessionPart, Request, Confirm2fa, Handles
<1>2. users[u] \in Account /\ y \in Secrets
  BY <1>1, AccountFields DEF Confirm2fa
<1>3. b \in Account /\ b.totp_on /\ b.secret = y
  BY <1>2 DEF Account
<1>4. users' = [users EXCEPT ![u] = b]
  BY DEF Confirm2fa
<1>5. sessions' = {New(s) : s \in Kept}
  BY DEF Confirm2fa, EndOthers
<1>6. \A v \in UserIds : users'[v] = IF v = u THEN b ELSE users[v]
  <2> HIDE DEF b
  <2> QED BY <1>1, <1>3, <1>4, OneAccount
<1>7. b # NoUser
  BY <1>3, NoUserIsNoAccount
<1>8. ASSUME NEW s \in Kept
      PROVE  /\ New(s) \in Session
             /\ New(s).id = s.id /\ New(s).user = s.user /\ New(s).elevated_until = s.elevated_until
             /\ New(s).factor = IF s.id = r.session THEN y ELSE s.factor
             /\ s.user = u <=> s.id = r.session
             /\ s \in sessions /\ s.user \in UserIds /\ s.elevated_until \in Nat
  <2>1. s \in sessions /\ s \in Session /\ s.user \in UserIds /\ s.elevated_until \in Nat
    BY SessionFields
  <2>2. s.user = u <=> s.id = r.session
    BY <2>1 DEF SessionPart, SessionsOwned
  <2> QED BY <1>2, <2>1, <2>2 DEF Session
<1> HIDE DEF b, New, Kept
<1>9. \A n \in sessions' : \E s \in Kept : n = New(s)
  BY <1>5
<1>10. sessions' \subseteq Session
  BY <1>8, <1>9
<1>11. \A n \in sessions' : Exists(n.user)'
  <2> SUFFICES ASSUME NEW n \in sessions' PROVE Exists(n.user)'
    OBVIOUS
  <2>1. PICK s \in Kept : n = New(s)
    BY <1>9
  <2>2. n.user = s.user /\ s.user \in UserIds /\ Exists(s.user)
    BY <1>8, <2>1 DEF SessionPart
  <2> QED BY <1>6, <1>7, <2>2 DEF Exists
<1>12. SessionsOwned'
  <2>1. ASSUME NEW n \in sessions', NEW m \in sessions', n.id = m.id PROVE n = m
    <3>1. PICK s \in Kept : n = New(s)
      BY <1>9
    <3>2. PICK w \in Kept : m = New(w)
      BY <1>9
    <3>3. s.id = w.id /\ s \in sessions /\ w \in sessions
      BY <1>8, <2>1, <3>1, <3>2
    <3>4. s = w
      BY <3>3 DEF SessionPart, SessionsOwned
    <3> QED BY <3>1, <3>2, <3>4
  <2>2. ASSUME NEW n \in sessions', NEW q \in requests', n.id = q.session PROVE n.user = q.user
    <3>1. PICK s \in Kept : n = New(s)
      BY <1>9
    <3>2. s \in sessions /\ n.id = s.id /\ n.user = s.user /\ q \in requests
      BY <1>1, <1>8, <3>1
    <3> QED BY <2>2, <3>2 DEF SessionPart, SessionsOwned
  <2> QED BY <2>1, <2>2 DEF SessionsOwned
<1>13. FactorHeld'
  <2> SUFFICES ASSUME NEW n \in sessions'
               PROVE  /\ users'[n.user].totp_on => n.factor = users'[n.user].secret
                      /\ n.elevated_until > 0 => users'[n.user].totp_on
    BY DEF FactorHeld
  <2>1. PICK s \in Kept : n = New(s)
    BY <1>9
  <2>2. /\ n.user = s.user /\ s.user \in UserIds /\ s \in sessions
        /\ n.elevated_until = s.elevated_until
        /\ n.factor = IF s.id = r.session THEN y ELSE s.factor
        /\ s.user = u <=> s.id = r.session
    BY <1>8, <2>1
  <2>3. CASE s.user = u
    BY <1>3, <1>6, <2>2, <2>3
  <2>4. CASE s.user # u
    BY <1>6, <2>2, <2>4 DEF SessionPart, FactorHeld
  <2> QED BY <2>3, <2>4
<1> QED BY <1>1, <1>10, <1>11, <1>12, <1>13 DEF SessionPart

\* An elevation is of a session of the account whose code was accepted.
LEMMA ElevateSessions ==
  ASSUME AuthTypes, SessionPart, NEW r \in requests, NEW t \in Steps, Elevate(r, t)
  PROVE  SessionPart' /\ FactorsStay
<1> DEFINE u == r.user
           b == [users[u] EXCEPT !.last = t]
           New(s) == IF s.id = r.session THEN [s EXCEPT !.elevated_until = clock + ELEVATE] ELSE s
<1>1. u \in UserIds /\ Exists(u) /\ users[u].totp_on /\ requests' \subseteq requests
  BY DEF SessionPart, Request, Elevate, Handles
<1>2. users[u] \in Account /\ clock + ELEVATE \in Nat
  BY <1>1, AccountFields, Numbers DEF AuthTypes, AuthTimes
<1>3. FactorsStay
  <2>1. /\ b \in Account /\ b.totp_on = users[u].totp_on /\ b.secret = users[u].secret
        /\ b.role = users[u].role
    BY <1>2 DEF Account
  <2>2. users' = [users EXCEPT ![u] = b]
    BY <1>1, <1>2 DEF Elevate
  <2> HIDE DEF b
  <2> QED BY <1>1, <2>1, <2>2, FactorsStayChanged
<1>4. sessions' = {New(s) : s \in sessions}
  BY DEF Elevate
<1>5. ASSUME NEW s \in sessions
      PROVE  /\ New(s) \in Session
             /\ New(s).id = s.id /\ New(s).user = s.user /\ New(s).factor = s.factor
             /\ New(s).elevated_until > 0 => users[s.user].totp_on
             /\ s.user \in UserIds /\ Exists(s.user)
  <2>1. s \in Session /\ s.user \in UserIds /\ s.elevated_until \in Nat /\ Exists(s.user)
    BY SessionFields DEF SessionPart
  <2>2. s.id = r.session => users[s.user].totp_on
    BY <1>1 DEF SessionPart, SessionsOwned
  <2>3. s.elevated_until > 0 => users[s.user].totp_on
    BY DEF SessionPart, FactorHeld
  <2>4. /\ New(s) \in Session
        /\ New(s).id = s.id /\ New(s).user = s.user /\ New(s).factor = s.factor
    BY <1>2, <2>1 DEF Session
  <2> QED BY <2>1, <2>2, <2>3, <2>4
<1> HIDE DEF New
<1>6. \A n \in sessions' : \E s \in sessions : n = New(s)
  BY <1>4
<1>7. sessions' \subseteq Session
  BY <1>5, <1>6
<1>8. SessionsOwned'
  <2>1. ASSUME NEW n \in sessions', NEW m \in sessions', n.id = m.id PROVE n = m
    <3>1. PICK s \in sessions : n = New(s)
      BY <1>6
    <3>2. PICK w \in sessions : m = New(w)
      BY <1>6
    <3>3. s.id = w.id
      BY <1>5, <2>1, <3>1, <3>2
    <3>4. s = w
      BY <3>3 DEF SessionPart, SessionsOwned
    <3> QED BY <3>1, <3>2, <3>4
  <2>2. ASSUME NEW n \in sessions', NEW q \in requests', n.id = q.session PROVE n.user = q.user
    <3>1. PICK s \in sessions : n = New(s)
      BY <1>6
    <3>2. n.id = s.id /\ n.user = s.user /\ q \in requests
      BY <1>1, <1>5, <3>1
    <3> QED BY <2>2, <3>2 DEF SessionPart, SessionsOwned
  <2> QED BY <2>1, <2>2 DEF SessionsOwned
<1>9. ASSUME NEW n \in sessions'
      PROVE  /\ Exists(n.user)'
             /\ users'[n.user].totp_on => n.factor = users'[n.user].secret
             /\ n.elevated_until > 0 => users'[n.user].totp_on
  <2>1. PICK s \in sessions : n = New(s)
    BY <1>6
  <2>2. /\ n.user = s.user /\ s.user \in UserIds /\ Exists(s.user) /\ n.factor = s.factor
        /\ n.elevated_until > 0 => users[s.user].totp_on
    BY <1>5, <2>1
  <2>3. users[s.user].totp_on => s.factor = users[s.user].secret
    BY DEF SessionPart, FactorHeld
  <2> QED BY <1>3, <2>2, <2>3 DEF FactorsStay
<1> QED BY <1>1, <1>3, <1>7, <1>8, <1>9 DEF SessionPart, FactorHeld

LEMMA BeginSessions ==
  ASSUME AuthTypes, SessionPart, NEW r \in requests, NEW t \in Steps, Begin2fa(r, t)
  PROVE  SessionPart' /\ FactorsStay
<1> DEFINE u == r.user
<1>1. u \in UserIds /\ Exists(u) /\ requests' \subseteq requests /\ sessions' = sessions
      /\ minted < MaxSecrets
  BY DEF SessionPart, Request, Begin2fa, Handles
<1>2. users[u] \in Account /\ minted + 1 \in Secrets
  BY <1>1, AccountFields, Numbers DEF AuthTypes, Secrets
<1>3. PICK b \in Account : /\ users' = [users EXCEPT ![u] = b]
                           /\ b.totp_on = users[u].totp_on /\ b.secret = users[u].secret
                           /\ b.role = users[u].role
  <2>1. CASE users[u].totp_on
    <3> DEFINE b == [users[u] EXCEPT !.last = t, !.pending = minted + 1]
    <3>1. /\ b \in Account /\ b.totp_on = users[u].totp_on /\ b.secret = users[u].secret
          /\ b.role = users[u].role
      BY <1>2 DEF Account
    <3>2. users' = [users EXCEPT ![u] = b]
      BY <1>1, <1>2, <2>1 DEF Begin2fa
    <3> QED BY <3>1, <3>2
  <2>2. CASE ~users[u].totp_on
    <3> DEFINE b == [users[u] EXCEPT !.pending = minted + 1]
    <3>1. /\ b \in Account /\ b.totp_on = users[u].totp_on /\ b.secret = users[u].secret
          /\ b.role = users[u].role
      BY <1>2 DEF Account
    <3>2. users' = [users EXCEPT ![u] = b]
      BY <1>1, <1>2, <2>2 DEF Begin2fa
    <3> QED BY <3>1, <3>2
  <2> QED BY <2>1, <2>2
<1>4. FactorsStay
  BY <1>1, <1>3, FactorsStayChanged
<1> QED BY <1>1, <1>4, FewerStep

\* Every account stays and keeps its role.
RolesStay ==
    \A v \in UserIds : Exists(v) => Exists(v)' /\ users'[v].role = users[v].role

LEMMA RolesKeepAdmin == ASSUME AdminRemains, RolesStay PROVE AdminRemains'
  BY DEF AdminRemains, Admins, RolesStay

\* delete_user leaves another administrator.
LEMMA RemoveKeepsAdmin ==
  ASSUME AuthTypes, AdminRemains, NEW r \in requests, NEW u \in UserIds, RemoveUser(r, u)
  PROVE  AdminRemains'
<1>1. \A v \in UserIds : v # u => users'[v] = users[v]
  BY OneAccount DEF RemoveUser
<1>2. PICK v \in Admins : v # u
  <2>1. CASE users[u].role = "admin"
    <3>1. Cardinality(Admins) > 1
      BY <2>1 DEF RemoveUser, MayDelete
    <3>2. Admins # {u}
      BY <3>1, FS_Singleton
    <3> QED BY <3>2 DEF AdminRemains
  <2>2. CASE users[u].role # "admin"
    BY <2>2 DEF AdminRemains, Admins
  <2> QED BY <2>1, <2>2
<1>3. v \in Admins'
  BY <1>1, <1>2 DEF Admins, Exists
<1> QED BY <1>3 DEF AdminRemains

LEMMA SessionsStep ==
  ASSUME AuthInv, [AuthNext]_authVars
  PROVE  SessionPart' /\ AdminRemains'
<1>0. AuthTypes /\ SessionPart /\ AdminRemains
  BY SessionPartNow DEF AuthInv
<1>a. FactorsStay => RolesStay
  BY DEF FactorsStay, RolesStay
<1>1. ASSUME NEW u \in UserIds, NEW t \in Steps, Login(u, t) PROVE SessionPart' /\ AdminRemains'
  BY <1>0, <1>1, <1>a, LoginSessions, RolesKeepAdmin
<1>2. ASSUME NEW s \in sessions, SessionEnds(s) PROVE SessionPart' /\ AdminRemains'
  BY <1>0, <1>2, <1>a, FactorsStaySame, FewerStep, RolesKeepAdmin DEF SessionEnds
<1>3. ASSUME NEW s \in sessions, NEW op \in Operations, Guard(s, op) PROVE SessionPart' /\ AdminRemains'
  BY <1>0, <1>3, <1>a, FactorsStaySame, GuardSessions, RolesKeepAdmin DEF Guard
<1>4. ASSUME NEW r \in requests, Handler(r) PROVE SessionPart' /\ AdminRemains'
  <2>1. ASSUME NEW t \in Steps, Begin2fa(r, t) \/ Elevate(r, t) PROVE SessionPart' /\ AdminRemains'
    BY <1>0, <1>a, <2>1, BeginSessions, ElevateSessions, RolesKeepAdmin
  <2>2. ASSUME NEW t \in Steps, Confirm2fa(r, t) PROVE SessionPart' /\ AdminRemains'
    <3> DEFINE u == r.user
               b == [users[u] EXCEPT !.secret = users[u].pending, !.pending = None,
                                     !.totp_on = TRUE, !.last = t]
    <3>1. u \in UserIds /\ Exists(u)
      BY <1>0, <2>2 DEF SessionPart, Request, Confirm2fa
    <3>2. users[u] \in Account /\ users[u].pending \in Secrets \cup {None}
      BY <1>0, <3>1, AccountFields
    <3>3. b \in Account /\ b.role = users[u].role
      BY <3>2 DEF Account
    <3>4. users' = [users EXCEPT ![u] = b]
      BY <2>2 DEF Confirm2fa
    <3> HIDE DEF b
    <3>5. \A v \in UserIds : users'[v] = IF v = u THEN b ELSE users[v]
      BY <1>0, <3>1, <3>3, <3>4, OneAccount
    <3>6. RolesStay
      BY <3>3, <3>5, NoUserIsNoAccount DEF RolesStay, Exists
    <3> QED BY <1>0, <2>2, <3>6, ConfirmSessions, RolesKeepAdmin
  <2>3. ASSUME NEW role \in {"admin", "viewer"}, AddUser(r, role) PROVE SessionPart' /\ AdminRemains'
    <3> DEFINE u == Max({v \in UserIds : Exists(v)} \cup {0}) + 1
               b == NewAccount(role)
    <3>1. u \in UserIds /\ users' = [users EXCEPT ![u] = b] /\ b \in Blank
          /\ requests' \subseteq requests /\ UNCHANGED <<sessions, minted, used>>
      BY <2>3 DEF AddUser, Handles, Blank
    <3>2. ~Exists(u)
      BY <1>0, <3>1, NewIdIsFree
    <3> HIDE DEF u, b
    <3>3. sessions' = {s \in sessions : s.user # u}
      BY <1>0, <3>1, <3>2 DEF SessionPart
    <3>4. Blanks(u, b)
      BY <3>1 DEF Blanks
    <3>5. SessionPart'
      BY <1>0, <3>1, <3>3, <3>4, BlankStep
    <3>6. \A v \in UserIds : Exists(v) => users'[v] = users[v]
      BY <1>0, <3>1, <3>2 DEF AuthTypes
    <3>7. RolesStay
      BY <3>6 DEF RolesStay, Exists
    <3> QED BY <1>0, <3>5, <3>7, RolesKeepAdmin
  <2>4. ASSUME NEW u \in UserIds, RemoveUser(r, u) PROVE SessionPart' /\ AdminRemains'
    <3>1. NoUser \in Blank /\ Blanks(u, NoUser) /\ requests' \subseteq requests
          /\ sessions' = {s \in sessions : s.user # u}
      BY <2>4 DEF RemoveUser, Handles, Blanks, Blank
    <3> QED BY <1>0, <2>4, <3>1, BlankStep, RemoveKeepsAdmin
  <2>5. ASSUME NEW u \in UserIds, Reset2fa(r, u) PROVE SessionPart' /\ AdminRemains'
    <3> DEFINE b == NewAccount(users[u].role)
    <3>1. users[u].role \in {"admin", "viewer"}
      BY <1>0, <2>5, AccountFields DEF Reset2fa
    <3>2. b \in Blank /\ b.role = users[u].role
      BY <3>1 DEF Blank, NewAccount
    <3>3. b \in Account
      BY <3>1, Zenon DEF NewAccount, Account
    <3>4. users' = [users EXCEPT ![u] = b] /\ requests' \subseteq requests
          /\ sessions' = {s \in sessions : s.user # u} /\ UNCHANGED <<minted, used>>
      BY <2>5 DEF Reset2fa, Handles
    <3> HIDE DEF b
    <3>5. SessionPart'
      BY <1>0, <3>2, <3>4, BlankStep DEF Blanks
    <3>6. \A v \in UserIds : users'[v] = IF v = u THEN b ELSE users[v]
      BY <1>0, <3>3, <3>4, OneAccount
    <3>7. RolesStay
      BY <3>2, <3>3, <3>6, NoUserIsNoAccount DEF RolesStay, Exists
    <3> QED BY <1>0, <3>5, <3>7, RolesKeepAdmin
  <2>6. CASE ChangePassword(r) \/ Refused(r)
    <3>1. UNCHANGED users /\ sessions' \subseteq sessions /\ requests' \subseteq requests
      BY <2>6 DEF ChangePassword, Refused, Handles
    <3> QED BY <1>0, <1>a, <3>1, FactorsStaySame, FewerStep, RolesKeepAdmin
  <2> QED BY <1>4, <2>1, <2>2, <2>3, <2>4, <2>5, <2>6 DEF Handler
<1>5. CASE AuthClock \/ UNCHANGED authVars
  BY <1>0, <1>5, <1>a, FactorsStaySame, FewerStep, RolesKeepAdmin DEF AuthClock, authVars
<1> QED BY <1>1, <1>2, <1>3, <1>4, <1>5 DEF AuthNext

-----------------------------------------------------------------------------
LEMMA AuthInitial == AuthInit => AuthInv
<1> SUFFICES ASSUME AuthInit PROVE AuthInv
  OBVIOUS
<1> DEFINE a == NewAccount("admin")
<1>1. 1 \in UserIds /\ clock \in AuthTimes /\ minted \in 0 .. MaxSecrets
  BY AuthAssumption DEF UserIds, AuthInit, AuthTimes
<1>2. a \in Blank /\ a.role = "admin"
  BY DEF Blank, NewAccount
<1>3. a \in Account
  BY Zenon DEF NewAccount, Account
<1>4. a # NoUser
  BY <1>3, NoUserIsNoAccount
<1>5. a.secret = None /\ a.pending = None /\ ~a.totp_on
  BY <1>2, <1>4, BlankAccount
<1> HIDE DEF a
<1>6. \A u \in UserIds : users[u] = IF u = 1 THEN a ELSE NoUser
  BY DEF AuthInit, a
<1>7. users \in [UserIds -> {NoUser} \cup Account]
  BY <1>3 DEF AuthInit, a
<1>8. used \in [Secrets \X Steps -> Nat] /\ \A x \in Secrets, t \in Steps : used[<<x, t>>] = 0
  BY DEF AuthInit
<1>9. AuthTypes /\ SessionsOwned /\ FactorHeld
  BY <1>1, <1>7, <1>8 DEF AuthInit, AuthTypes, SessionsOwned, FactorHeld
<1>10. SecretsOwned
  BY <1>4, <1>5, <1>6 DEF SecretsOwned, Exists, None, AuthInit
<1>11. Unspent /\ UsedOnce
  BY <1>4, <1>5, <1>6, <1>8 DEF Unspent, UsedOnce, Exists
<1>12. AdminRemains
  BY <1>1, <1>2, <1>4, <1>6 DEF AdminRemains, Admins, Exists
<1> QED BY <1>9, <1>10, <1>11, <1>12 DEF AuthInv

LEMMA AuthInductive == AuthInv /\ [AuthNext]_authVars => AuthInv'
<1> SUFFICES ASSUME AuthInv, [AuthNext]_authVars PROVE AuthInv'
  OBVIOUS
<1>0. AuthTypes /\ SecretsOwned /\ Unspent /\ UsedOnce
  BY DEF AuthInv
<1>1. CodeStep
  BY <1>0, ActionsOnCodes
<1>2. SecretsOwned'
  BY <1>0, <1>1, SecretsStep
<1>3. /\ Unspent' /\ UsedOnce'
      /\ used' \in [Secrets \X Steps -> Nat] /\ minted' \in 0 .. MaxSecrets
  BY <1>0, <1>1, UnspentStep
<1>4. SessionPart' /\ AdminRemains'
  BY SessionsStep
<1>5. users' \in [UserIds -> {NoUser} \cup Account]
  <2>1. CASE SameCodes
    BY <1>0, <2>1 DEF SameCodes, AuthTypes
  <2>2. ASSUME NEW u \in UserIds, NEW t \in Steps, NEW b \in Account,
               SpendsActive(u, t, b) \/ Mints(u, t, b) \/ Activates(u, t, b)
        PROVE  users' \in [UserIds -> {NoUser} \cup Account]
    BY <1>0, <2>2, OneAccount DEF SpendsActive, Mints, Activates
  <2>3. ASSUME NEW u \in UserIds, NEW b \in Blank, Blanks(u, b)
        PROVE  users' \in [UserIds -> {NoUser} \cup Account]
    BY <1>0, <2>3, BlankAccount, OneAccount DEF Blanks
  <2> QED BY <1>1, <2>1, <2>2, <2>3 DEF CodeStep
<1>6. clock' \in AuthTimes
  <2>1. clock' = clock \/ AuthClock
    BY DEF AuthNext, Login, SessionEnds, Guard, Handler, Begin2fa, Confirm2fa, Elevate, AddUser,
           RemoveUser, Reset2fa, ChangePassword, Refused, authVars
  <2> QED BY <1>0, <2>1, AuthAssumption DEF AuthClock, AuthTypes, AuthTimes
<1>7. AuthTypes'
  BY <1>3, <1>4, <1>5, <1>6 DEF AuthTypes, SessionPart, Request
<1> QED BY <1>2, <1>3, <1>4, <1>7 DEF AuthInv, SessionPart

\* The code of a time step is accepted at most once for a secret, whichever of
\* login, begin_2fa, confirm_2fa and elevate it is offered to, and in whatever
\* order their guards and handlers run (verify_totp, totp_last).
THEOREM NoReplay == AuthSpec => []CodesUsedOnce
<1> QED BY AuthInitial, AuthInductive, InvImplies, PTL DEF AuthSpec

\* Every session of an account with 2FA was opened or confirmed with its
\* present secret, and none is elevated without a second factor: also when a
\* confirmation, a reset or a removal was past its guard before the session's
\* own request ran (confirm_2fa, elevate, reset_2fa, delete_user).
THEOREM FactorOfSessions == AuthSpec => []SessionsHoldFactor
<1> QED BY AuthInitial, AuthInductive, InvImplies, PTL DEF AuthSpec

\* An administrator always remains, also when two remove each other at the
\* same time (delete_user counts the administrators in the handler).
THEOREM AnAdminRemains == AuthSpec => []AdminRemains
<1> QED BY AuthInitial, AuthInductive, InvImplies, PTL DEF AuthSpec
=============================================================================
