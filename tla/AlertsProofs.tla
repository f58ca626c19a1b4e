----------------------------- MODULE AlertsProofs -----------------------------
(***************************************************************************)
(* Proofs about Alerts, for any servers, subjects, rules and bounds.       *)
(***************************************************************************)
EXTENDS Alerts, TLAPS

StateType == {Nil} \cup [since : Nat, event : Nat \cup {Nil}]

\* The kind of a key has a rule.
LEMMA KeyKind == \A k \in Keys : k[1] \in Kinds
<1> SUFFICES ASSUME NEW k \in Keys PROVE k[1] \in Kinds
  OBVIOUS
<1>1. \/ \E s \in Servers : \/ k \in HostKeys(s) \/ k \in DiskKeys(s)
                           \/ k \in ContainerKeys(s) \/ k \in CertKeys(s)
                           \/ k = OfflineKey(s) \/ \E p \in Plans : k = BackupKey(s, p)
      \/ \E c \in Checks : k = CheckKey(c) \/ k = CheckCertKey(c)
  BY DEF Keys
<1> QED
  BY <1>1 DEF Kinds, HostKeys, DiskKeys, ContainerKeys, CertKeys, OfflineKey,
              CheckKey, CheckCertKey, BackupKey

\* The slow parts of a server nobody heard from are a legal value.
LEMMA NoSlowType == NoSlow \in SlowParts
  BY DEF NoSlow, SlowParts

\* What step() leaves in the dictionary for one key is well typed.
LEMMA StepTypes ==
  ASSUME TypeOK, NEW B, NEW G, NEW quiet, NEW k \in Keys
  PROVE  /\ Entry(k) \in [since : Nat, event : Nat \cup {Nil}]
         /\ StepState(k, B, G) \in StateType
         /\ StepRows(k, B, G) \in SUBSET Row
         /\ StepTold(k, B, G, quiet) \in Seq(Notice)
<1>1. /\ now \in Nat /\ lastId[k] \in Nat /\ state[k] \in StateType
      /\ events[k] \in SUBSET Row /\ told[k] \in Seq(Notice)
  BY DEF TypeOK, StateType
<1>2. Entry(k) \in [since : Nat, event : Nat \cup {Nil}]
  BY <1>1 DEF Entry, StateType
<1>3. StepState(k, B, G) \in StateType
  BY <1>1, <1>2 DEF StepState, StateType
<1>4. StepRows(k, B, G) \in SUBSET Row
  <2>1. CASE Opens(k, B)
    BY <1>1, <1>2, <2>1 DEF StepRows, Row
  <2>2. CASE ~Opens(k, B) /\ Closes(k, B, G)
    <3>1. \A r \in events[k] : [r EXCEPT !.ended = now] \in Row
      BY <1>1 DEF Row
    <3> QED BY <1>1, <2>2, <3>1 DEF StepRows, EndRow
  <2>3. CASE ~Opens(k, B) /\ ~Closes(k, B, G)
    BY <1>1, <2>3 DEF StepRows
  <2> QED BY <2>1, <2>2, <2>3
<1>5. StepTold(k, B, G, quiet) \in Seq(Notice)
  <2>1. CASE Opens(k, B)
    <3>1. [what |-> "fired", id |-> lastId[k] + 1] \in Notice
      BY <1>1 DEF Notice
    <3> QED BY <1>1, <2>1, <3>1 DEF StepTold
  <2>2. CASE ~Opens(k, B) /\ Closes(k, B, G) /\ ~quiet
    <3>1. [what |-> "resolved", id |-> state[k].event] \in Notice
      BY <1>1, <2>2 DEF Notice, Closes, StateType
    <3> QED BY <1>1, <2>2, <3>1 DEF StepTold
  <2>3. CASE ~Opens(k, B) /\ (~Closes(k, B, G) \/ quiet)
    BY <1>1, <2>3 DEF StepTold
  <2> QED BY <2>1, <2>2, <2>3
<1> QED BY <1>2, <1>3, <1>4, <1>5

\* Judge keeps the variables it assigns well typed.
LEMMA JudgeTypes ==
  ASSUME TypeOK, NEW B, NEW G, NEW quiet, Judge(B, G, quiet)
  PROVE  /\ state' \in [Keys -> StateType]
         /\ events' \in [Keys -> SUBSET Row]
         /\ lastId' \in [Keys -> Nat]
         /\ told' \in [Keys -> Seq(Notice)]
         /\ clear' \in [Keys -> Nat]
<1>1. state' \in [Keys -> StateType] /\ events' \in [Keys -> SUBSET Row]
      /\ told' \in [Keys -> Seq(Notice)]
  BY StepTypes DEF Judge
<1>2. lastId' \in [Keys -> Nat] /\ clear' \in [Keys -> Nat]
  BY DEF Judge, TypeOK
<1> QED BY <1>1, <1>2

-----------------------------------------------------------------------------
(***************************************************************************)
(* Every action is a round of step() calls, or one of five others.         *)
(***************************************************************************)
JudgeRound(B, G, quiet) ==
    /\ Judge(B, G, quiet)
    /\ UNCHANGED <<now, started, rules>>
    /\ slow' \in [Servers -> SlowParts]

OtherAction ==
    \/ \E s \in Servers : ForgetServer(s)
    \/ \E kind \in Kinds, row \in RuleSettings : UpdateRule(kind, row)
    \/ Prune \/ Restart \/ Tick

\* All callers reach the alert state through Judge alone.
LEMMA NextCases ==
  ASSUME TypeOK, Next
  PROVE  (\E B, G, quiet : JudgeRound(B, G, quiet)) \/ OtherAction
<1>1. CASE Sample
  <2>1. PICK s \in Servers, host \in [HostKinds -> Levels] :
           \/ EvaluateSample(s, host, FALSE, NoSlow)
           \/ \E parts \in SlowParts : EvaluateSample(s, host, TRUE, parts)
    BY <1>1 DEF Sample
  <2>2. PICK refresh \in BOOLEAN, parts \in SlowParts : EvaluateSample(s, host, refresh, parts)
    BY <2>1, NoSlowType
  <2>3. Merge(s, refresh, parts) \in SlowParts
    BY DEF Merge, TypeOK
  <2>4. slow' \in [Servers -> SlowParts]
    BY <2>2, <2>3 DEF EvaluateSample, TypeOK
  <2> QED BY <2>2, <2>4 DEF EvaluateSample, JudgeRound
<1>2. CASE Ticker
  BY <1>2 DEF Ticker, EvaluateOffline, JudgeRound, TypeOK
<1>3. CASE CheckProbed
  BY <1>3 DEF CheckProbed, EvaluateCheck, JudgeRound, TypeOK
<1>4. CASE CheckForgotten
  BY <1>4 DEF CheckForgotten, ForgetCheck, JudgeRound, TypeOK
<1>5. CASE CertsListed
  BY <1>5 DEF CertsListed, AlertCerts, JudgeRound, TypeOK
<1>6. CASE BackupEnded
  BY <1>6 DEF BackupEnded, BackupEnds, JudgeRound, TypeOK
<1>7. CASE PlanDeleted
  BY <1>7 DEF PlanDeleted, ForgetPlan, JudgeRound, TypeOK
<1>8. CASE ServerDeleted
  BY <1>8 DEF ServerDeleted, OtherAction
<1>9. CASE RuleEdited
  BY <1>9, KindsAssumption DEF RuleEdited, OtherAction
<1>10. CASE Prune \/ Restart \/ Tick
  BY <1>10 DEF OtherAction
<1> QED BY <1>1, <1>2, <1>3, <1>4, <1>5, <1>6, <1>7, <1>8, <1>9, <1>10 DEF Next

\* What seed() rebuilds is what was known before, minus the conditions that
\* had not lasted long enough yet.
LEMMA SeedValue ==
  ASSUME TypeOK, StateMatchesTable, NEW k \in Keys
  PROVE  Seed(k) = IF state[k] = Nil \/ state[k].event = Nil THEN Nil ELSE state[k]
<1>1. state[k] \in StateType
  BY DEF TypeOK, StateType
<1>2. CASE state[k] = Nil \/ state[k].event = Nil
  BY <1>2 DEF Seed, StateMatchesTable, OpenRows
<1>3. CASE state[k] # Nil /\ state[k].event # Nil
  <2> DEFINE row == [id |-> state[k].event, started |-> state[k].since, ended |-> Nil]
             open == {r \in events[k] : r.ended = Nil}
             r0 == CHOOSE r \in open : \A q \in open : q.id <= r.id
  <2>1. open = {row}
    BY <1>3 DEF StateMatchesTable, OpenRows
  <2>2. state[k].event \in Nat
    BY <1>1, <1>3 DEF StateType
  <2>3. row \in open /\ \A q \in open : q.id <= row.id
    BY <2>1, <2>2
  <2>4. r0 = row
    <3>1. r0 \in open
      BY <2>3
    <3> QED BY <3>1, <2>1
  <2>5. Seed(k) = [since |-> r0.started, event |-> r0.id]
    BY <2>1 DEF Seed
  <2> HIDE DEF r0
  <2>6. Seed(k) = [since |-> state[k].since, event |-> state[k].event]
    BY <2>4, <2>5
  <2> QED BY <2>6, <1>1, <1>3 DEF StateType
<1> QED BY <1>2, <1>3

-----------------------------------------------------------------------------
(***************************************************************************)
(* Types, and the agreement of dictionary and table. They are proved       *)
(* together: seed() is well typed because open rows are unique.            *)
(***************************************************************************)
TableInv == TypeOK /\ StateMatchesTable

\* Init establishes both.
LEMMA TableInit == Init => TableInv
<1> SUFFICES ASSUME Init PROVE TableInv
  OBVIOUS
<1>1. TypeOK
  <2>1. rules \in [Kinds -> RuleType]
    BY RulesAssumption DEF Init
  <2>2. slow \in [Servers -> SlowParts]
    BY NoSlowType DEF Init
  <2> QED BY <2>1, <2>2 DEF Init, TypeOK
<1>2. StateMatchesTable
  BY DEF Init, StateMatchesTable, OpenRows
<1> QED BY <1>1, <1>2 DEF TableInv

\* One key through step(): the entry names an event iff that row is open.
LEMMA StepMatches ==
  ASSUME TableInv, NEW B, NEW G, NEW k \in Keys
  PROVE  LET st == StepState(k, B, G)
             open == {r \in StepRows(k, B, G) : r.ended = Nil}
         IN IF st = Nil \/ st.event = Nil THEN open = {}
            ELSE open = {[id |-> st.event, started |-> st.since, ended |-> Nil]}
<1> DEFINE st == StepState(k, B, G)
           open == {r \in StepRows(k, B, G) : r.ended = Nil}
<1>1. /\ now \in Nat /\ lastId[k] \in Nat /\ state[k] \in StateType
      /\ events[k] \in SUBSET Row /\ Nil \notin Nat
      /\ Nil \notin [since : Nat, event : Nat \cup {Nil}]
      /\ Entry(k) \in [since : Nat, event : Nat \cup {Nil}]
  BY BoundsAssumption, StepTypes DEF TableInv, TypeOK, StateType
<1>2. CASE Opens(k, B)
  <2> DEFINE row == [id |-> lastId[k] + 1, started |-> Entry(k).since, ended |-> Nil]
  <2>1. st = [since |-> Entry(k).since, event |-> lastId[k] + 1]
    BY <1>1, <1>2 DEF Opens, StepState
  <2>2. state[k] = Nil \/ state[k].event = Nil
    BY <1>2 DEF Opens, Entry
  <2>3. OpenRows(k) = {}
    BY <2>2 DEF TableInv, StateMatchesTable
  <2>4. open = {row}
    BY <1>2, <2>3 DEF StepRows, OpenRows
  <2>5. st # Nil /\ st.event # Nil
    BY <1>1, <2>1
  <2> QED BY <2>1, <2>4, <2>5
<1>3. CASE ~Opens(k, B) /\ Closes(k, B, G)
  <2>1. st = Nil
    BY <1>3 DEF StepState, Closes
  <2>2. OpenRows(k) = {[id |-> state[k].event, started |-> state[k].since, ended |-> Nil]}
    BY <1>3 DEF Closes, TableInv, StateMatchesTable
  <2>3. \A r \in events[k] : r.ended = Nil => r.id = state[k].event
    BY <2>2 DEF OpenRows
  <2>4. \A r \in events[k] : [r EXCEPT !.ended = now].ended # Nil
    BY <1>1 DEF Row
  <2>5. open = {}
    BY <1>3, <2>3, <2>4 DEF StepRows, EndRow
  <2> QED BY <2>1, <2>5
<1>4. CASE ~Opens(k, B) /\ ~Closes(k, B, G)
  <2>1. open = OpenRows(k)
    BY <1>4 DEF StepRows, OpenRows
  <2>2. CASE Bad(k, B)
    <3>1. st = Entry(k)
      BY <1>4, <2>2 DEF StepState
    <3> QED BY <1>1, <2>1, <3>1 DEF Entry, TableInv, StateMatchesTable
  <2>3. CASE ~Bad(k, B) /\ k \in B \cup G
    <3>1. st = Nil /\ (state[k] = Nil \/ state[k].event = Nil)
      BY <1>4, <2>3 DEF StepState, Closes
    <3> QED BY <2>1, <3>1 DEF TableInv, StateMatchesTable
  <2>4. CASE ~Bad(k, B) /\ k \notin B \cup G
    <3>1. st = state[k]
      BY <2>4 DEF StepState
    <3> QED BY <2>1, <3>1 DEF TableInv, StateMatchesTable
  <2> QED BY <2>2, <2>3, <2>4
<1> QED BY <1>2, <1>3, <1>4

\* A round of step() calls preserves the table invariant.
LEMMA TableJudge ==
  ASSUME TableInv, NEW B, NEW G, NEW quiet, JudgeRound(B, G, quiet)
  PROVE  TableInv'
<1>1. TypeOK'
  BY JudgeTypes DEF TableInv, JudgeRound, TypeOK, StateType
<1>2. StateMatchesTable'
  BY StepMatches DEF JudgeRound, Judge, StateMatchesTable, OpenRows
<1> QED BY <1>1, <1>2 DEF TableInv

\* So do the actions that do not step.
LEMMA TableOther ==
  ASSUME TableInv, OtherAction
  PROVE  TableInv'
<1>0. TypeOK /\ StateMatchesTable
  BY DEF TableInv
<1>1. CASE \E s \in Servers : ForgetServer(s)
  <2>1. PICK s \in Servers : ForgetServer(s)
    BY <1>1
  <2>2. \A k \in Keys : \A r \in events[k] : /\ [r EXCEPT !.ended = now] \in Row
                                             /\ [r EXCEPT !.ended = now].ended # Nil
    <3>1. now \in Nat /\ Nil \notin Nat /\ \A k \in Keys : events[k] \in SUBSET Row
      BY <1>0, BoundsAssumption DEF TypeOK
    <3>2. \A r \in Row : [r EXCEPT !.ended = now] \in Row /\ [r EXCEPT !.ended = now].ended # Nil
      BY <3>1 DEF Row
    <3> QED BY <3>1, <3>2
  <2>3. TypeOK'
    <3>1. events' \in [Keys -> SUBSET Row]
      BY <1>0, <2>1, <2>2 DEF TypeOK, ForgetServer
    <3>2. slow' \in [Servers -> SlowParts]
      BY <1>0, <2>1, NoSlowType DEF TypeOK, ForgetServer
    <3> QED BY <1>0, <2>1, <3>1, <3>2 DEF TypeOK, ForgetServer
  <2>4. StateMatchesTable'
    <3> SUFFICES ASSUME NEW k \in Keys
                 PROVE  IF state'[k] = Nil \/ state'[k].event = Nil THEN OpenRows(k)' = {}
                        ELSE OpenRows(k)' = {[id |-> state'[k].event, started |-> state'[k].since,
                                              ended |-> Nil]}
      BY DEF StateMatchesTable
    <3>1. CASE k[2] = s
      <4>1. state'[k] = Nil
        BY <2>1, <3>1 DEF ForgetServer
      <4>2. OpenRows(k)' = {}
        BY <2>1, <2>2, <3>1 DEF ForgetServer, OpenRows
      <4> QED BY <4>1, <4>2
    <3>2. CASE k[2] # s
      <4>1. state'[k] = state[k] /\ events'[k] = events[k]
        BY <2>1, <3>2 DEF ForgetServer
      <4> QED BY <1>0, <4>1 DEF StateMatchesTable, OpenRows
    <3> QED BY <3>1, <3>2
  <2> QED BY <2>3, <2>4 DEF TableInv
<1>2. CASE \E kind \in Kinds, row \in RuleSettings : UpdateRule(kind, row)
  BY <1>0, <1>2, RulesAssumption DEF UpdateRule, TypeOK, StateMatchesTable, OpenRows, TableInv
<1>3. CASE Prune
  <2>1. TypeOK'
    BY <1>0, <1>3 DEF Prune, TypeOK
  <2>2. \A k \in Keys : OpenRows(k)' = OpenRows(k)
    BY <1>3 DEF Prune, OpenRows
  <2>3. StateMatchesTable'
    BY <1>0, <1>3, <2>2 DEF Prune, StateMatchesTable
  <2> QED BY <2>1, <2>3 DEF TableInv
<1>4. CASE Restart
  <2>1. TypeOK'
    <3>1. state' \in [Keys -> StateType]
      BY <1>0, <1>4, SeedValue DEF Restart, TypeOK, StateType
    <3>2. slow' \in [Servers -> SlowParts]
      BY <1>4, NoSlowType DEF Restart
    <3> QED BY <1>0, <1>4, <3>1, <3>2 DEF Restart, TypeOK, StateType
  <2>2. StateMatchesTable'
    BY <1>0, <1>4, SeedValue DEF Restart, StateMatchesTable, OpenRows
  <2> QED BY <2>1, <2>2 DEF TableInv
<1>5. CASE Tick
  BY <1>0, <1>5 DEF Tick, TypeOK, StateMatchesTable, OpenRows, TableInv
<1> QED BY <1>1, <1>2, <1>3, <1>4, <1>5 DEF OtherAction

\* Every step preserves the table invariant.
LEMMA TableStep == TableInv /\ [Next]_vars => TableInv'
<1> SUFFICES ASSUME TableInv, [Next]_vars PROVE TableInv'
  OBVIOUS
<1>1. CASE Next
  BY <1>1, NextCases, TableJudge, TableOther DEF TableInv
<1>2. CASE UNCHANGED vars
  BY <1>2 DEF vars, TableInv, TypeOK, StateMatchesTable, OpenRows
<1> QED BY <1>1, <1>2

\* The engine is type correct, whatever it is asked to evaluate.
THEOREM TypeCorrect == Spec => []TypeOK
<1>1. TableInv => TypeOK
  BY DEF TableInv
<1> QED BY <1>1, TableInit, TableStep, PTL DEF Spec

\* alerts.py: the dictionary entry of every key names an event exactly when
\* its row is open, through every order of calls, deletions and restarts.
THEOREM TableAgrees == Spec => []StateMatchesTable
<1>1. TableInv => StateMatchesTable
  BY DEF TableInv
<1> QED BY <1>1, TableInit, TableStep, PTL DEF Spec

-----------------------------------------------------------------------------
(***************************************************************************)
(* One announcement and at most one end per event. The strengthening: no   *)
(* notice and no row has an id beyond the last one given out, so the next  *)
(* id is fresh for both.                                                   *)
(***************************************************************************)
IdsGivenOut ==
    \A k \in Keys :
        /\ \A i \in DOMAIN told[k] : told[k][i].id <= lastId[k]
        /\ \A r \in events[k] : r.id <= lastId[k]

NoticeInv == TableInv /\ NotifyOnce /\ OpenMeansFiring /\ IdsGivenOut

\* Appending to a sequence, in the terms used here.
LEMMA AppendFacts ==
  ASSUME NEW t \in Seq(Notice), NEW n \in Notice
  PROVE  LET u == Append(t, n)
         IN /\ Len(t) \in Nat /\ DOMAIN t = 1 .. Len(t) /\ DOMAIN u = 1 .. Len(t) + 1
            /\ \A i \in DOMAIN t : u[i] = t[i]
            /\ u[Len(t) + 1] = n
  OBVIOUS

\* A new notice keeps SaidOnce if it is new and, for an end, announced.
LEMMA SaidOnceAppend ==
  ASSUME NEW t \in Seq(Notice), NEW n \in Notice, SaidOnce(t), ~Said(n, t),
         n.what = "resolved" => Said(Fired(n.id), t)
  PROVE  SaidOnce(Append(t, n))
<1> DEFINE u == Append(t, n)
           l == Len(t)
<1>1. /\ l \in Nat /\ DOMAIN t = 1 .. l /\ DOMAIN u = 1 .. l + 1
      /\ \A i \in DOMAIN t : u[i] = t[i]
      /\ u[l + 1] = n
  BY AppendFacts
<1> HIDE DEF u, l
<1>2. \A i \in DOMAIN u : i \in DOMAIN t \/ i = l + 1
  BY <1>1
<1>3. \A i, j \in DOMAIN u : u[i] = u[j] => i = j
  BY <1>1, <1>2 DEF SaidOnce, Said
<1>4. \A j \in DOMAIN u : u[j].what = "resolved" =>
         \E i \in DOMAIN u : i < j /\ u[i] = Fired(u[j].id)
  <2> SUFFICES ASSUME NEW j \in DOMAIN u, u[j].what = "resolved"
               PROVE  \E i \in DOMAIN u : i < j /\ u[i] = Fired(u[j].id)
    OBVIOUS
  <2>1. CASE j \in DOMAIN t
    <3>1. PICK i \in DOMAIN t : i < j /\ t[i] = Fired(t[j].id)
      BY <1>1, <2>1 DEF SaidOnce
    <3> QED BY <1>1, <2>1, <3>1
  <2>2. CASE j = l + 1
    <3>1. PICK i \in DOMAIN t : t[i] = Fired(n.id)
      BY <1>1, <2>2 DEF Said
    <3> QED BY <1>1, <2>2, <3>1
  <2> QED BY <1>2, <2>1, <2>2
<1> QED BY <1>3, <1>4 DEF SaidOnce, u

\* What is said after an Append.
LEMMA SaidAppend ==
  ASSUME NEW t \in Seq(Notice), NEW n \in Notice, NEW m
  PROVE  Said(m, Append(t, n)) <=> Said(m, t) \/ m = n
<1> DEFINE u == Append(t, n)
           l == Len(t)
<1>1. /\ l \in Nat /\ DOMAIN t = 1 .. l /\ DOMAIN u = 1 .. l + 1
      /\ \A i \in DOMAIN t : u[i] = t[i]
      /\ u[l + 1] = n
  BY AppendFacts
<1> HIDE DEF u, l
<1>2. Said(m, u) <=> Said(m, t) \/ m = n
  BY <1>1 DEF Said
<1> QED BY <1>2 DEF u

\* One key through step(): what is told about it stays in order.
LEMMA StepNotices ==
  ASSUME NoticeInv, NEW B, NEW G, NEW quiet, NEW k \in Keys
  PROVE  LET t == StepTold(k, B, G, quiet)
             rows == StepRows(k, B, G)
             last == IF Opens(k, B) THEN lastId[k] + 1 ELSE lastId[k]
         IN /\ SaidOnce(t)
            /\ \A r \in rows : r.ended = Nil => Said(Fired(r.id), t) /\ ~Said(Resolved(r.id), t)
            /\ \A i \in DOMAIN t : t[i].id <= last
            /\ \A r \in rows : r.id <= last
<1> DEFINE t == StepTold(k, B, G, quiet)
           rows == StepRows(k, B, G)
           last == IF Opens(k, B) THEN lastId[k] + 1 ELSE lastId[k]
           new == lastId[k] + 1
           ev == state[k].event
<1>1. /\ now \in Nat /\ lastId[k] \in Nat /\ state[k] \in StateType
      /\ events[k] \in SUBSET Row /\ told[k] \in Seq(Notice) /\ Nil \notin Nat
      /\ SaidOnce(told[k])
      /\ \A r \in OpenRows(k) : Said(Fired(r.id), told[k]) /\ ~Said(Resolved(r.id), told[k])
      /\ \A i \in DOMAIN told[k] : told[k][i].id <= lastId[k]
      /\ \A r \in events[k] : r.id <= lastId[k]
  BY BoundsAssumption DEF NoticeInv, TableInv, TypeOK, StateType, NotifyOnce,
                          OpenMeansFiring, IdsGivenOut
<1>2. CASE Opens(k, B)
  <2>1. /\ t = Append(told[k], Fired(new)) /\ Fired(new) \in Notice /\ new \in Nat
        /\ Resolved(new) # Fired(new)
    BY <1>1, <1>2 DEF StepTold, Fired, Resolved, Notice
  <2>2. ~Said(Fired(new), told[k]) /\ ~Said(Resolved(new), told[k])
    BY <1>1 DEF Said, Fired, Resolved
  <2>3. SaidOnce(t)
    BY <1>1, <2>1, <2>2, SaidOnceAppend DEF Fired
  <2>4. OpenRows(k) = {}
    BY <1>2 DEF Opens, Entry, NoticeInv, TableInv, StateMatchesTable
  <2>5. \A r \in rows : r.ended = Nil => r.id = new
    BY <1>2, <2>4 DEF StepRows, OpenRows
  <2>6. Said(Fired(new), t) /\ ~Said(Resolved(new), t)
    BY <1>1, <2>1, <2>2, SaidAppend
  <2>7. \A i \in DOMAIN t : t[i].id <= last
    <3>1. last = new
      BY <1>2
    <3>2. \A i \in DOMAIN t : Said(t[i], told[k]) \/ t[i] = Fired(new)
      BY <1>1, <2>1, SaidAppend DEF Said
    <3>3. \A i \in DOMAIN told[k] : told[k][i].id \in Nat
      <4>1. \A i \in DOMAIN told[k] : told[k][i] \in Notice
        BY <1>1
      <4> QED BY <4>1 DEF Notice
    <3> QED BY <1>1, <2>1, <3>1, <3>2, <3>3 DEF Said, Fired
  <2>8. \A r \in rows : r.id <= last
    BY <1>1, <1>2 DEF StepRows, Row
  <2> QED BY <2>3, <2>5, <2>6, <2>7, <2>8
<1>3. CASE ~Opens(k, B) /\ Closes(k, B, G)
  <2>1. ev \in Nat /\ OpenRows(k) = {[id |-> ev, started |-> state[k].since, ended |-> Nil]}
    BY <1>1, <1>3 DEF Closes, StateType, NoticeInv, TableInv, StateMatchesTable
  <2>2. Said(Fired(ev), told[k]) /\ ~Said(Resolved(ev), told[k]) /\ ev <= lastId[k]
    <3>1. PICK r \in OpenRows(k) : r.id = ev
      BY <2>1
    <3> QED BY <1>1, <3>1 DEF OpenRows
  <2>3. \A r \in rows : r.ended # Nil /\ r.id <= lastId[k]
    <3>1. \A r \in events[k] : /\ r.ended = Nil => r.id = ev
                               /\ [r EXCEPT !.ended = now].ended # Nil
                               /\ [r EXCEPT !.ended = now].id = r.id
      BY <1>1, <2>1 DEF OpenRows, Row
    <3>2. rows = {IF r.id = ev THEN [r EXCEPT !.ended = now] ELSE r : r \in events[k]}
      BY <1>3 DEF StepRows, EndRow
    <3>3. \A q \in rows : \E r \in events[k] :
             q = IF r.id = ev THEN [r EXCEPT !.ended = now] ELSE r
      BY <3>2
    <3>4. ASSUME NEW q \in rows PROVE q.ended # Nil /\ q.id <= lastId[k]
      <4>1. PICK r \in events[k] : q = IF r.id = ev THEN [r EXCEPT !.ended = now] ELSE r
        BY <3>3
      <4>2. r.id <= lastId[k]
        BY <1>1
      <4>3. CASE r.id = ev
        BY <3>1, <4>1, <4>2, <4>3
      <4>4. CASE r.id # ev
        BY <3>1, <4>1, <4>2, <4>4
      <4> QED BY <4>3, <4>4
    <3> QED BY <3>4
  <2>4. CASE quiet
    <3>1. t = told[k]
      BY <1>3, <2>4 DEF StepTold
    <3> QED BY <1>1, <1>3, <2>3, <3>1
  <2>5. CASE ~quiet
    <3>1. t = Append(told[k], Resolved(ev)) /\ Resolved(ev) \in Notice
      BY <1>3, <2>1, <2>5 DEF StepTold, Resolved, Notice
    <3>2. SaidOnce(t)
      BY <1>1, <2>2, <3>1, SaidOnceAppend DEF Resolved
    <3>3. \A i \in DOMAIN t : Said(t[i], told[k]) \/ t[i] = Resolved(ev)
      BY <1>1, <3>1, SaidAppend DEF Said
    <3>4. \A i \in DOMAIN t : t[i].id <= lastId[k]
      BY <1>1, <2>2, <3>3 DEF Said, Resolved
    <3> QED BY <1>3, <2>3, <3>2, <3>4
  <2> QED BY <2>4, <2>5
<1>4. CASE ~Opens(k, B) /\ ~Closes(k, B, G)
  <2>1. t = told[k] /\ rows = events[k] /\ last = lastId[k]
    BY <1>4 DEF StepTold, StepRows
  <2> QED BY <1>1, <2>1 DEF OpenRows
<1> QED BY <1>2, <1>3, <1>4

\* Every step preserves it.
LEMMA NoticeStep == NoticeInv /\ [Next]_vars => NoticeInv'
<1> SUFFICES ASSUME NoticeInv, [Next]_vars PROVE NoticeInv'
  OBVIOUS
<1>0. TableInv' /\ TableInv /\ TypeOK
  BY TableStep DEF NoticeInv, TableInv
<1>1. CASE \E B, G, quiet : JudgeRound(B, G, quiet)
  <2>1. PICK B, G, quiet : JudgeRound(B, G, quiet)
    BY <1>1
  <2>2. NotifyOnce'
    BY <2>1, StepNotices DEF JudgeRound, Judge, NotifyOnce
  <2>3. OpenMeansFiring'
    BY <2>1, StepNotices DEF JudgeRound, Judge, OpenMeansFiring, OpenRows
  <2>4. IdsGivenOut'
    BY <2>1, StepNotices DEF JudgeRound, Judge, IdsGivenOut
  <2> QED BY <1>0, <2>2, <2>3, <2>4 DEF NoticeInv
<1>2. CASE \E s \in Servers : ForgetServer(s)
  <2>1. PICK s \in Servers : ForgetServer(s)
    BY <1>2
  <2>2. \A r \in Row : [r EXCEPT !.ended = now].id = r.id
    BY DEF Row
  <2>3. \A k \in Keys : events[k] \in SUBSET Row
    BY <1>0 DEF TypeOK
  <2>4. \A k \in Keys : \A q \in events'[k] :
           \E r \in events[k] : q.id = r.id /\ (q.ended = Nil => q = r)
    <3>1. now # Nil /\ \A r \in Row : [r EXCEPT !.ended = now].ended = now
      BY <1>0, BoundsAssumption DEF TypeOK, Row
    <3> QED BY <2>1, <2>2, <2>3, <3>1 DEF ForgetServer
  <2>5. told' = told /\ lastId' = lastId
    BY <2>1 DEF ForgetServer
  <2> QED BY <1>0, <2>4, <2>5 DEF NoticeInv, NotifyOnce, OpenMeansFiring, IdsGivenOut, OpenRows
<1>3. CASE \/ \E kind \in Kinds, row \in RuleSettings : UpdateRule(kind, row)
           \/ Restart \/ Tick \/ UNCHANGED vars
  <2>1. told' = told /\ lastId' = lastId /\ events' = events
    BY <1>3 DEF UpdateRule, Restart, Tick, vars
  <2> QED BY <1>0, <2>1 DEF NoticeInv, NotifyOnce, OpenMeansFiring, IdsGivenOut, OpenRows
<1>4. CASE Prune
  BY <1>0, <1>4 DEF Prune, NoticeInv, NotifyOnce, OpenMeansFiring, IdsGivenOut, OpenRows
<1> QED BY <1>0, <1>1, <1>2, <1>3, <1>4, NextCases DEF OtherAction

\* Nothing is open and nothing was said at the start.
LEMMA NoticeInit == Init => NoticeInv
  BY TableInit DEF Init, NoticeInv, NotifyOnce, OpenMeansFiring, IdsGivenOut,
                   OpenRows, SaidOnce

\* alerts.py, "notify once; when it clears, notify once more": over any run,
\* restarts included, no event is announced twice or resolved twice.
THEOREM NotifiesOnce == Spec => [](NotifyOnce /\ OpenMeansFiring)
<1>1. NoticeInv => NotifyOnce /\ OpenMeansFiring
  BY DEF NoticeInv
<1> QED BY <1>1, NoticeInit, NoticeStep, PTL DEF Spec

\* alerts.py: types, dictionary, table and notices are consistent after every
\* sequence of calls and restarts.
THEOREM EngineIsConsistent == Spec => []EngineConsistent
<1>1. TypeOK /\ StateMatchesTable /\ NotifyOnce => EngineConsistent
  BY DEF EngineConsistent
<1> QED BY <1>1, TypeCorrect, TableAgrees, NotifiesOnce, PTL

-----------------------------------------------------------------------------
(***************************************************************************)
(* The engine implements AlertLife.                                        *)
(***************************************************************************)

\* The open row, read off the dictionary.
OpenEventOfEntry ==
    \A k \in Keys :
        OpenEvent(k) = IF state[k] = Nil \/ state[k].event = Nil THEN Nil ELSE state[k].event

\* The abstract "open" of a key can be read off the dictionary too.
LEMMA OpenEventValue == TableInv => OpenEventOfEntry
<1> SUFFICES ASSUME TableInv, NEW k \in Keys
             PROVE  OpenEvent(k) = IF state[k] = Nil \/ state[k].event = Nil THEN Nil
                                   ELSE state[k].event
  BY DEF OpenEventOfEntry
<1>1. CASE state[k] = Nil \/ state[k].event = Nil
  BY <1>1 DEF TableInv, StateMatchesTable, OpenEvent
<1>2. CASE state[k] # Nil /\ state[k].event # Nil
  <2> DEFINE row == [id |-> state[k].event, started |-> state[k].since, ended |-> Nil]
  <2>1. OpenRows(k) = {row}
    BY <1>2 DEF TableInv, StateMatchesTable
  <2>2. (CHOOSE r \in OpenRows(k) : TRUE) = row
    BY <2>1
  <2> QED BY <1>2, <2>1, <2>2 DEF OpenEvent
<1> QED BY <1>1, <1>2

\* One key of a step of the engine is one key of a step of the life cycle.
LifeKeyStep(k) ==
    LET o == OpenEvent(k)
        p == OpenEvent(k)'
    IN \/ p = o /\ told'[k] = told[k]
       \/ /\ o = Nil /\ p # Nil
          /\ \A i \in DOMAIN told[k] : told[k][i].id # p
          /\ told'[k] = Append(told[k], [what |-> "fired", id |-> p])
       \/ o # Nil /\ p = Nil /\ told'[k] = Append(told[k], [what |-> "resolved", id |-> o])
       \/ o # Nil /\ p = Nil /\ told'[k] = told[k]

\* One key through any step: it stays, fires, resolves or is dropped.
LEMMA LifeKey ==
  ASSUME NoticeInv, NoticeInv', [Next]_vars, NEW k \in Keys
  PROVE  LifeKeyStep(k)
<1>0. /\ TypeOK /\ state[k] \in StateType /\ lastId[k] \in Nat /\ Nil \notin Nat
      /\ told[k] \in Seq(Notice)
      /\ Nil \notin [since : Nat, event : Nat \cup {Nil}]
      /\ \A i \in DOMAIN told[k] : told[k][i].id <= lastId[k]
      /\ Entry(k) \in [since : Nat, event : Nat \cup {Nil}]
  BY BoundsAssumption, StepTypes DEF NoticeInv, TableInv, TypeOK, StateType, IdsGivenOut
<1>1. /\ OpenEvent(k) = IF state[k] = Nil \/ state[k].event = Nil THEN Nil ELSE state[k].event
      /\ OpenEvent(k)' = IF state'[k] = Nil \/ state'[k].event = Nil THEN Nil ELSE state'[k].event
  <2>1. TableInv /\ TableInv'
    BY DEF NoticeInv
  <2>2. OpenEventOfEntry /\ OpenEventOfEntry'
    BY <2>1, OpenEventValue, PTL
  <2> QED BY <2>2 DEF OpenEventOfEntry
<1>2. CASE \E B, G, quiet : JudgeRound(B, G, quiet)
  <2>1. PICK B, G, quiet : JudgeRound(B, G, quiet)
    BY <1>2
  <2>2. state'[k] = StepState(k, B, G) /\ told'[k] = StepTold(k, B, G, quiet)
    BY <2>1 DEF JudgeRound, Judge
  <2>3. CASE Opens(k, B)
    <3>1. OpenEvent(k) = Nil
      BY <1>1, <2>3 DEF Opens, Entry
    <3>2. state'[k] = [since |-> Entry(k).since, event |-> lastId[k] + 1]
      BY <1>0, <2>2, <2>3 DEF Opens, StepState
    <3>3. OpenEvent(k)' = lastId[k] + 1
      BY <1>0, <1>1, <3>2
    <3>4. told'[k] = Append(told[k], [what |-> "fired", id |-> lastId[k] + 1])
      BY <2>2, <2>3 DEF StepTold
    <3>5. \A i \in DOMAIN told[k] : told[k][i].id # lastId[k] + 1
      BY <1>0
    <3> QED BY <1>0, <3>1, <3>3, <3>4, <3>5 DEF LifeKeyStep
  <2>4. CASE ~Opens(k, B) /\ Closes(k, B, G)
    <3>1. OpenEvent(k) = state[k].event /\ OpenEvent(k) # Nil
      BY <1>1, <2>4 DEF Closes
    <3>2. OpenEvent(k)' = Nil
      BY <1>1, <2>2, <2>4 DEF StepState, Closes
    <3>3. \/ told'[k] = told[k]
          \/ told'[k] = Append(told[k], [what |-> "resolved", id |-> state[k].event])
      BY <2>2, <2>4 DEF StepTold
    <3> QED BY <3>1, <3>2, <3>3 DEF LifeKeyStep
  <2>5. CASE ~Opens(k, B) /\ ~Closes(k, B, G)
    <3>1. told'[k] = told[k]
      BY <2>2, <2>5 DEF StepTold
    <3>2. OpenEvent(k)' = OpenEvent(k)
      BY <1>0, <1>1, <2>2, <2>5 DEF StepState, Closes, Entry
    <3> QED BY <3>1, <3>2 DEF LifeKeyStep
  <2> QED BY <2>3, <2>4, <2>5
<1>3. CASE \E s \in Servers : ForgetServer(s)
  <2>1. told'[k] = told[k] /\ (state'[k] = Nil \/ state'[k] = state[k])
    BY <1>3 DEF ForgetServer
  <2> QED BY <1>1, <2>1 DEF LifeKeyStep
<1>4. CASE \/ \E kind \in Kinds, row \in RuleSettings : UpdateRule(kind, row)
           \/ Prune \/ Tick \/ UNCHANGED vars
  <2>1. told' = told /\ state' = state
    BY <1>4 DEF UpdateRule, Prune, Tick, vars
  <2> QED BY <1>1, <2>1 DEF LifeKeyStep
<1>5. CASE Restart
  <2>1. told' = told /\ events' = events
    BY <1>5 DEF Restart
  <2>2. OpenEvent(k)' = OpenEvent(k)
    BY <2>1 DEF OpenEvent, OpenRows
  <2> QED BY <2>1, <2>2 DEF LifeKeyStep
<1> QED BY <1>0, <1>2, <1>3, <1>4, <1>5, NextCases DEF OtherAction

\* Every step of the engine is a step of the life cycle or a stutter.
LEMMA LifeStep == NoticeInv /\ NoticeInv' /\ [Next]_vars => [Life!LifeNext]_(Life!lifeVars)
<1> SUFFICES ASSUME NoticeInv, NoticeInv', [Next]_vars PROVE Life!LifeNext
  OBVIOUS
<1>1. \A k \in Keys : LifeKeyStep(k)
  BY LifeKey
<1> QED BY <1>1 DEF LifeKeyStep, Life!LifeNext, Life!Stays, Life!Fires, Life!Resolves, Life!Drops

\* The initial states map to initial states of the life cycle.
LEMMA LifeStart == Init => Life!LifeInit
  BY DEF Init, Life!LifeInit, OpenEvent, OpenRows

\* Whatever happens to the hub, what the recipient of the messages sees is
\* the life cycle of AlertLife: an announcement, at most one end, and again.
THEOREM EngineImplementsLife == Spec => LifeCycle
<1>1. Spec => []NoticeInv
  BY NoticeInit, NoticeStep, PTL DEF Spec
<1> QED BY <1>1, LifeStart, LifeStep, PTL DEF Spec, LifeCycle, Life!LifeSpec

-----------------------------------------------------------------------------
(***************************************************************************)
(* Pending time. The strengthening: no key was judged clear in the future, *)
(* so that an entry made now reaches back over nothing.                    *)
(***************************************************************************)
ClearPast == \A k \in Keys : clear[k] <= now

ClearInv == TableInv /\ SinceLastClear /\ ClearPast

\* One key through step().
LEMMA StepClear ==
  ASSUME ClearInv, NEW B, NEW G, NEW k \in Keys
  PROVE  LET st == StepState(k, B, G)
             cl == IF k \in B \cup G /\ ~Bad(k, B) THEN now ELSE clear[k]
         IN  cl <= now /\ (st # Nil => st.since >= cl)
<1>1. /\ now \in Nat /\ clear[k] \in Nat /\ clear[k] <= now /\ lastId[k] \in Nat /\ state[k] \in StateType
      /\ state[k] # Nil => state[k].since >= clear[k]
      /\ Entry(k) \in [since : Nat, event : Nat \cup {Nil}]
  BY StepTypes DEF ClearInv, TableInv, TypeOK, StateType, SinceLastClear, ClearPast
<1>2. Entry(k).since >= clear[k]
  BY <1>1 DEF Entry
<1>3. CASE Bad(k, B)
  <2>1. [Entry(k) EXCEPT !.event = lastId[k] + 1].since = Entry(k).since
    BY <1>1
  <2> QED BY <1>1, <1>2, <1>3, <2>1 DEF StepState
<1>4. CASE ~Bad(k, B)
  BY <1>1, <1>4 DEF StepState
<1> QED BY <1>3, <1>4

\* Every step preserves it; a restart drops the entries without an event and
\* keeps the others with their start.
LEMMA ClearStep == ClearInv /\ [Next]_vars => ClearInv'
<1> SUFFICES ASSUME ClearInv, [Next]_vars PROVE ClearInv'
  OBVIOUS
<1>0. TableInv' /\ TableInv /\ TypeOK /\ StateMatchesTable /\ now \in Nat
  BY TableStep DEF ClearInv, TableInv, TypeOK
<1>1. CASE \E B, G, quiet : JudgeRound(B, G, quiet)
  <2>1. PICK B, G, quiet : JudgeRound(B, G, quiet)
    BY <1>1
  <2> QED BY <1>0, <2>1, StepClear DEF JudgeRound, Judge, ClearInv, SinceLastClear, ClearPast
<1>2. CASE \E s \in Servers : ForgetServer(s)
  BY <1>0, <1>2 DEF ForgetServer, ClearInv, SinceLastClear, ClearPast
<1>3. CASE \/ \E kind \in Kinds, row \in RuleSettings : UpdateRule(kind, row)
           \/ Prune \/ UNCHANGED vars
  BY <1>0, <1>3 DEF UpdateRule, Prune, vars, ClearInv, SinceLastClear, ClearPast
<1>4. CASE Restart
  <2>1. \A k \in Keys : state'[k] = Nil \/ state'[k] = state[k]
    BY <1>0, <1>4, SeedValue DEF Restart
  <2> QED BY <1>0, <1>4, <2>1 DEF Restart, ClearInv, SinceLastClear, ClearPast
<1>5. CASE Tick
  <2>1. \A k \in Keys : clear[k] \in Nat
    BY <1>0 DEF TypeOK
  <2> QED BY <1>0, <1>5, <2>1 DEF Tick, ClearInv, SinceLastClear, ClearPast
<1> QED BY <1>0, <1>1, <1>2, <1>3, <1>4, <1>5, NextCases DEF OtherAction

\* alerts.py: the time a condition is counted from never reaches back over a
\* good reading, whatever callers, rule edits and restarts come in between.
THEOREM CountsFromClear == Spec => []SinceLastClear
<1>1. Init => ClearInv
  BY TableInit DEF Init, ClearInv, SinceLastClear, ClearPast
<1>2. ClearInv => SinceLastClear
  BY DEF ClearInv
<1> QED BY <1>1, <1>2, ClearStep, PTL DEF Spec

-----------------------------------------------------------------------------
(***************************************************************************)
(* What ends a disk or container alert. Only EvaluateSample steps such     *)
(* keys, and only those of its server.                                     *)
(***************************************************************************)
SampleKeys(s) == DiskKeys(s) \cup ContainerKeys(s)

\* A key that no call steps, or that is bad, keeps its open rows.
LEMMA KeepsOpen ==
  ASSUME TableInv, NEW B, NEW G, NEW quiet, Judge(B, G, quiet), NEW k \in Keys,
         k \notin B \cup G \/ Bad(k, B), OpenRows(k) # {}
  PROVE  OpenRows(k)' # {}
<1>1. ~Closes(k, B, G)
  BY DEF Closes, Bad
<1>2. events[k] \subseteq events'[k]
  BY <1>1 DEF Judge, StepRows
<1> QED BY <1>2 DEF OpenRows

\* The keys of samples are keys, and of no other family.
LEMMA SampleKey ==
  ASSUME NEW s \in Servers, NEW k \in SampleKeys(s)
  PROVE  /\ k \in Keys /\ k[1] \in {"disk", "disk_full", "inodes", "container"} /\ k[1] \in Kinds /\ k[2] = s
         /\ \A q \in Servers : k \notin CertKeys(q) /\ k # OfflineKey(q) /\ \A p \in Plans : k # BackupKey(q, p)
         /\ \A c \in Checks : k # CheckKey(c) /\ k # CheckCertKey(c)
         /\ \A q \in Servers : k \notin HostKeys(q)
         /\ \A q \in Servers \ {s} : k \notin SampleKeys(q)
<1>1. k \in Keys
  BY DEF SampleKeys, Keys
<1>2. k[1] \in {"disk", "disk_full", "inodes", "container"} /\ k[2] = s
  BY KindsAssumption DEF SampleKeys, DiskKeys, ContainerKeys
<1>3. \A q \in Servers : k \notin CertKeys(q) /\ k # OfflineKey(q) /\ \A p \in Plans : k # BackupKey(q, p)
  BY <1>2 DEF CertKeys, OfflineKey, BackupKey
<1>4. \A c \in Checks : k # CheckKey(c) /\ k # CheckCertKey(c)
  BY <1>2 DEF CheckKey, CheckCertKey
<1>5. \A q \in Servers : k \notin HostKeys(q)
  BY <1>2, KindsAssumption DEF HostKeys
<1>6. \A q \in Servers \ {s} : k \notin SampleKeys(q)
  BY <1>2 DEF SampleKeys, DiskKeys, ContainerKeys
<1> QED BY <1>1, <1>2, <1>3, <1>4, <1>5, <1>6, KeyKind

\* What the property asks of the merged sample m.
Evidence(k, s, m) ==
    \/ /\ k \in DiskKeys(s) /\ m.disks # Nil
       /\ k[3] \in DOMAIN m.disks => Reading(k[1], m.disks[k[3]]) < rules[k[1]].threshold
    \/ /\ k \in ContainerKeys(s) /\ DockerAnswered(m)
       /\ k[3] \in DOMAIN m.containers => ~m.containers[k[3]]

\* A sample ends an event of its server on evidence, and none of another.
LEMMA SampleEvidence ==
  ASSUME TableInv, NEW q \in Servers, NEW host, NEW refresh \in BOOLEAN, NEW parts \in SlowParts,
         EvaluateSample(q, host, refresh, parts),
         NEW s \in Servers, NEW k \in SampleKeys(s), OpenRows(k) # {}, OpenRows(k)' = {}, rules[k[1]].enabled
  PROVE  Evidence(k, s, slow'[s])
<1> DEFINE m == Merge(q, refresh, parts)
           B == BadHost(q, host) \cup BadDisks(q, m) \cup BadContainers(q, m)
           G == GoodKeys(q, m, B)
<1>1. m \in SlowParts /\ slow'[q] = m /\ Judge(B, G, FALSE)
  BY DEF EvaluateSample, Merge, TableInv, TypeOK
<1>2. k \in Keys /\ k[1] \in Kinds /\ (\A p \in Servers : k \notin HostKeys(p))
      /\ (\A p \in Servers \ {s} : k \notin SampleKeys(p))
  BY SampleKey
<1>3. k \in G /\ k \notin B
  <2>1. k \in B \cup G /\ ~Bad(k, B)
    BY <1>1, <1>2, KeepsOpen
  <2> QED BY <2>1 DEF Bad
<1> HIDE DEF m
<1>4. q = s
  BY <1>2, <1>3 DEF GoodKeys, SampleKeys
<1>5. CASE k \in DiskKeys(s)
  <2>1. k \notin ContainerKeys(s)
    BY <1>5, KindsAssumption DEF DiskKeys, ContainerKeys
  <2>2. m.disks # Nil
    BY <1>2, <1>3, <1>4, <2>1 DEF GoodKeys
  <2>3. ASSUME k[3] \in DOMAIN m.disks PROVE Reading(k[1], m.disks[k[3]]) < rules[k[1]].threshold
    <3>1. ~(Reading(k[1], m.disks[k[3]]) >= rules[k[1]].threshold)
      BY <1>3, <1>4, <1>5, <2>2, <2>3 DEF BadDisks
    <3>2. rules[k[1]].threshold \in Nat
      BY <1>2 DEF TableInv, TypeOK, RuleType
    <3>3. m.disks \in {Nil} \cup UNION {[M -> Disk] : M \in SUBSET Mounts}
      BY <1>1 DEF SlowParts
    <3>4. m.disks[k[3]] \in Disk
      BY <2>2, <2>3, <3>3
    <3>5. k[1] \in DiskKinds
      BY <1>5 DEF DiskKeys
    <3>6. Reading(k[1], m.disks[k[3]]) \in Nat
      BY <3>4, <3>5, BoundsAssumption DEF Reading, Disk, Levels
    <3> QED BY <3>1, <3>2, <3>6
  <2> QED BY <1>1, <1>4, <1>5, <2>2, <2>3 DEF Evidence
<1>6. CASE k \in ContainerKeys(s)
  <2>1. k \notin DiskKeys(s)
    BY <1>6, KindsAssumption DEF DiskKeys, ContainerKeys
  <2>2. DockerAnswered(m)
    BY <1>2, <1>3, <1>4, <2>1 DEF GoodKeys
  <2>3. k[3] \in DOMAIN m.containers => ~m.containers[k[3]]
    BY <1>3, <1>4, <1>6, <2>2 DEF BadContainers
  <2> QED BY <1>1, <1>4, <1>6, <2>2, <2>3 DEF Evidence
<1> QED BY <1>5, <1>6 DEF SampleKeys

\* The other callers step no such key.
LEMMA OthersKeepOpen ==
  ASSUME TableInv, Ticker \/ CheckProbed \/ CheckForgotten \/ CertsListed \/ BackupEnded \/ PlanDeleted,
         NEW s \in Servers, NEW k \in SampleKeys(s), OpenRows(k) # {}
  PROVE  OpenRows(k)' # {}
<1>1. /\ k \in Keys
      /\ \A q \in Servers : k \notin CertKeys(q) /\ k # OfflineKey(q) /\ \A p \in Plans : k # BackupKey(q, p)
      /\ \A c \in Checks : k # CheckKey(c) /\ k # CheckCertKey(c)
  BY SampleKey
<1> HIDE DEF CertKeys, OfflineKey, BackupKey, CheckKey, CheckCertKey
<1>2. CASE Ticker
  <2>1. PICK S \in SUBSET Servers, silent \in SUBSET Servers : silent \subseteq S /\ EvaluateOffline(S, silent)
    BY <1>2 DEF Ticker
  <2> DEFINE B == {OfflineKey(q) : q \in silent}
             G == {OfflineKey(q) : q \in S \ silent}
  <2>2. Judge(B, G, FALSE) /\ k \notin B \cup G
    BY <1>1, <2>1 DEF EvaluateOffline
  <2> HIDE DEF B, G
  <2> QED BY <1>1, <2>2, KeepsOpen
<1>3. CASE CheckProbed
  <2>1. PICK c \in Checks, fails \in Levels, days \in Levels \cup {Nil} : EvaluateCheck(c, fails, days)
    BY <1>3 DEF CheckProbed
  <2> DEFINE B == {x \in {CheckKey(c)} : fails >= rules["check"].threshold}
                    \cup {x \in {CheckCertKey(c)} : days # Nil /\ days <= rules["cert"].threshold}
             G == ({CheckKey(c)} \cup {x \in {CheckCertKey(c)} : days # Nil}) \ B
  <2>2. Judge(B, G, FALSE)
    BY <2>1 DEF EvaluateCheck
  <2>3. k \notin B \cup G
    BY <1>1
  <2> HIDE DEF B, G
  <2> QED BY <1>1, <2>2, <2>3, KeepsOpen
<1>4. CASE CheckForgotten
  <2>1. PICK c \in Checks : Judge({}, {CheckKey(c), CheckCertKey(c)}, TRUE)
    BY <1>4 DEF CheckForgotten, ForgetCheck
  <2>2. k \notin {} \cup {CheckKey(c), CheckCertKey(c)}
    BY <1>1
  <2> QED BY <1>1, <2>1, <2>2, KeepsOpen
<1>5. CASE CertsListed
  <2>1. PICK q \in Servers, C \in SUBSET Certs : \E certs \in [C -> Levels] : AlertCerts(q, certs)
    BY <1>5 DEF CertsListed
  <2>2. PICK certs \in [C -> Levels] : AlertCerts(q, certs)
    BY <2>1
  <2> DEFINE B == {x \in CertKeys(q) : x[3] \in DOMAIN certs /\ certs[x[3]] <= rules["cert"].threshold}
             G == CertKeys(q) \ B
  <2>3. Judge(B, G, FALSE)
    BY <2>2 DEF AlertCerts
  <2>4. k \notin B \cup G
    BY <1>1
  <2> HIDE DEF B, G
  <2> QED BY <1>1, <2>3, <2>4, KeepsOpen
<1>6. CASE BackupEnded
  <2>1. PICK q \in Servers, p \in Plans, failed \in BOOLEAN : BackupEnds(q, p, failed)
    BY <1>6 DEF BackupEnded
  <2> DEFINE B == IF failed THEN {BackupKey(q, p)} ELSE {}
             G == IF failed THEN {} ELSE {BackupKey(q, p)}
  <2>2. Judge(B, G, FALSE)
    BY <2>1 DEF BackupEnds
  <2>3. k \notin B \cup G
    BY <1>1
  <2> HIDE DEF B, G
  <2> QED BY <1>1, <2>2, <2>3, KeepsOpen
<1>7. CASE PlanDeleted
  <2>1. PICK p \in Plans : ForgetPlan(p)
    BY <1>7 DEF PlanDeleted
  <2> DEFINE G == {BackupKey(q, p) : q \in Servers}
  <2>2. Judge({}, G, TRUE) /\ k \notin {} \cup G
    BY <1>1, <2>1 DEF ForgetPlan
  <2> HIDE DEF G
  <2> QED BY <1>1, <2>2, KeepsOpen
<1> QED BY <1>2, <1>3, <1>4, <1>5, <1>6, <1>7

\* evaluate_sample and settle: whatever the engine is called for, while the
\* rule is enabled and the server there, a disk or container alert ends only on
\* a merged sample in which its subject is fine or gone.
THEOREM OnlyEvidenceEnds == Spec => EndsOnEvidence
<1> DEFINE Ends ==
      \A s \in Servers : \A k \in DiskKeys(s) \cup ContainerKeys(s) :
          /\ OpenRows(k) # {} /\ OpenRows(k)' = {} /\ rules[k[1]].enabled
          => \/ /\ k \in DiskKeys(s) /\ slow'[s].disks # Nil
                /\ k[3] \in DOMAIN slow'[s].disks =>
                     Reading(k[1], slow'[s].disks[k[3]]) < rules[k[1]].threshold
             \/ /\ k \in ContainerKeys(s) /\ DockerAnswered(slow'[s])
                /\ k[3] \in DOMAIN slow'[s].containers => ~slow'[s].containers[k[3]]
             \/ ForgetServer(s)
<1>1. TableInv /\ [Next]_vars => [Ends]_vars
  <2> SUFFICES ASSUME TableInv, Next, NEW s \in Servers, NEW k \in SampleKeys(s),
                      OpenRows(k) # {}, OpenRows(k)' = {}, rules[k[1]].enabled
               PROVE  Evidence(k, s, slow'[s]) \/ ForgetServer(s)
    BY DEF SampleKeys, Evidence
  <2>1. k \in Keys /\ k[2] = s
    BY SampleKey
  <2>2. CASE Sample
    <3>1. PICK q \in Servers, host \in [HostKinds -> Levels] :
             \/ EvaluateSample(q, host, FALSE, NoSlow)
             \/ \E parts \in SlowParts : EvaluateSample(q, host, TRUE, parts)
      BY <2>2 DEF Sample
    <3>2. PICK refresh \in BOOLEAN, parts \in SlowParts : EvaluateSample(q, host, refresh, parts)
      BY <3>1, NoSlowType
    <3> QED BY <3>2, SampleEvidence
  <2>3. CASE Ticker \/ CheckProbed \/ CheckForgotten \/ CertsListed \/ BackupEnded \/ PlanDeleted
    BY <2>3, OthersKeepOpen
  <2>4. CASE ServerDeleted
    <3>1. PICK q \in Servers : ForgetServer(q)
      BY <2>4 DEF ServerDeleted
    <3>2. CASE q # s
      <4>1. events'[k] = events[k]
        BY <2>1, <3>1, <3>2 DEF ForgetServer
      <4> QED BY <4>1 DEF OpenRows
    <3> QED BY <3>1, <3>2
  <2>5. CASE RuleEdited \/ Restart \/ Tick
    <3>1. events' = events
      BY <2>5 DEF RuleEdited, UpdateRule, Restart, Tick
    <3> QED BY <3>1 DEF OpenRows
  <2>6. CASE Prune
    <3>1. OpenRows(k)' = OpenRows(k)
      BY <2>1, <2>6 DEF Prune, OpenRows
    <3> QED BY <3>1
  <2> QED BY <2>2, <2>3, <2>4, <2>5, <2>6 DEF Next
<1>2. [][Ends]_vars => EndsOnEvidence
  BY DEF EndsOnEvidence
<1>3. Spec => []TableInv
  BY TableInit, TableStep, PTL DEF Spec
<1> HIDE DEF Ends
<1> QED BY <1>1, <1>2, <1>3, PTL DEF Spec
=============================================================================
