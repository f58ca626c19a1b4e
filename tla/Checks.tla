------------------------------- MODULE Checks -------------------------------
(***************************************************************************)
(* The URL checks of the hub (hub/icsd_hub/checks.py run_due, forget and   *)
(* edited, and the handlers of api.py): the ticker reads the checks that   *)
(* are due, awaits all their probes, then applies the results one by one,  *)
(* awaiting a look at the certificate in between. Checks are edited,       *)
(* disabled, deleted and created during both awaits.                       *)
(*                                                                         *)
(* Time is left out: a check that was probed becomes due again at some     *)
(* moment, and so does the look at its certificate. The rule "check"      *)
(* acts at once (for_s is 0) and is not edited. What cert_days returns is  *)
(* left out: module Alerts has the engine in full.                         *)
(***************************************************************************)
EXTENDS Integers, Sequences, SequencesExt

CONSTANTS
    MaxChecks,     \* bound: checks at one time
    Threshold,     \* of the rule "check": failures in a row
    Nil,
    MaxHubRestarts \* bound: restarts of the hub

ASSUME ChecksAssumption == MaxChecks \in Nat /\ Threshold \in Nat \ {0} /\ MaxHubRestarts \in Nat

CheckIds == 1 .. MaxChecks

VARIABLES
    rows,     \* the table "checks": Nil or a kind of row
    st,       \* _state: Nil or an entry
    round,    \* results still to be applied: [id, kind, ok]
    place,    \* of run_due: "sleep", "probing", "applying", "cert"
    held,     \* the entry run_due works on while it looks at the certificate
    attached, \* held is still the one in _state
    open,     \* ids with an open "check" event
    streak,   \* history: failed results in a row that were evaluated, per id
    restarts

checksVars == <<rows, st, round, place, held, attached, open, streak, restarts>>

\* A row is disabled, or its URL is an https or http one that httpx accepts,
\* or one that it refuses (validate lets some of these pass).
Kinds == {"https", "http", "refused", "disabled"}

\* due: `next` has come; look: the certificate was last looked at CERT_EVERY
\* ago. Failures are counted up to Threshold.
Entry == [fails : 0 .. Threshold, due : BOOLEAN, look : BOOLEAN]

ASSUME NilIsNoEntry == Nil \notin Entry

ChecksInit ==
    /\ rows = [c \in CheckIds |-> Nil]
    /\ st = [c \in CheckIds |-> Nil]
    /\ round = <<>> /\ place = "sleep" /\ held = Nil /\ attached = FALSE
    /\ open = {}
    /\ streak = [c \in CheckIds |-> 0]
    /\ restarts = 0

Exists(c) == rows[c] # Nil

-----------------------------------------------------------------------------
(***************************************************************************)
(* The API.                                                                *)
(***************************************************************************)

\* Mutant: run_due looks its entry up again after the await.
M_Forget(c) ==
    /\ st' = [st EXCEPT ![c] = Nil]
    /\ open' = open \ {c}
    /\ UNCHANGED <<held, attached>>

\* checks.forget. run_due keeps the entry it holds, which is no longer in
\* _state then.
Forget(c) ==
    /\ st' = [st EXCEPT ![c] = Nil]
    /\ open' = open \ {c}
    /\ IF place = "cert" /\ Head(round).id = c /\ attached
       THEN held' = st[c] /\ attached' = FALSE
       ELSE UNCHANGED <<held, attached>>

\* add_check: the largest id plus one.
Add(c, kind) ==
    /\ \A d \in CheckIds : Exists(d) <=> d < c
    /\ rows' = [rows EXCEPT ![c] = kind]
    /\ UNCHANGED <<st, round, place, held, attached, open, streak, restarts>>

\* edit_check with enabled: probed again right away, the failures stay.
Edit(c, kind) ==
    /\ Exists(c) /\ kind # "disabled"
    /\ rows' = [rows EXCEPT ![c] = kind]
    /\ st' = [st EXCEPT ![c] = IF @ = Nil THEN Nil ELSE [@ EXCEPT !.due = TRUE, !.look = TRUE]]
    /\ UNCHANGED <<round, place, held, attached, open, streak, restarts>>

Disable(c) ==
    /\ Exists(c)
    /\ rows' = [rows EXCEPT ![c] = "disabled"]
    /\ Forget(c)
    /\ UNCHANGED <<round, place, streak, restarts>>

Delete(c) ==
    /\ rows' = [rows EXCEPT ![c] = Nil]
    /\ Forget(c)
    /\ UNCHANGED <<round, place, streak, restarts>>

-----------------------------------------------------------------------------
(***************************************************************************)
(* run_due.                                                                *)
(***************************************************************************)
Enabled(c) == Exists(c) /\ rows[c] # "disabled"

Due(c) == Enabled(c) /\ (st[c] = Nil \/ st[c].due)

DueIds == {c \in CheckIds : Due(c)}

\* The rows that are due are read, in the order of their ids, and all their
\* probes are started.
Start ==
    /\ place = "sleep" /\ DueIds # {}
    /\ place' = "probing"
    /\ \E ids \in SetToSeqs(DueIds) :
          /\ \A i, j \in DOMAIN ids : i < j => ids[i] < ids[j]
          /\ round' = [i \in DOMAIN ids |-> [id |-> ids[i], kind |-> rows[ids[i]], ok |-> Nil]]
    /\ UNCHANGED <<rows, st, held, attached, open, streak, restarts>>

\* gather returns their results ...
Probed(ok) ==
    /\ place = "probing" /\ \A i \in DOMAIN round : round[i].kind # "refused"
    /\ place' = "applying"
    /\ round' = [i \in DOMAIN round |-> [round[i] EXCEPT !.ok = ok[round[i].id]]]
    /\ UNCHANGED <<rows, st, held, attached, open, streak, restarts>>

\* Mutant: the exception ends the ticker.
M_ProbeRaises == FALSE /\ UNCHANGED checksVars

\* ... or raises what probe() does not catch: the tick is over.
ProbeRaises ==
    /\ place = "probing" /\ \E i \in DOMAIN round : round[i].kind = "refused"
    /\ place' = "sleep" /\ round' = <<>>
    /\ UNCHANGED <<rows, st, held, attached, open, streak, restarts>>

\* Mutant: the count starts from nothing.
M_NewEntry(c) == [fails |-> 0, due |-> FALSE, look |-> TRUE]

\* The first result of c after a start: an open event means that it failed
\* before.
NewEntry(c) ==
    [fails |-> IF c \in open THEN Threshold ELSE 0, due |-> FALSE, look |-> TRUE]

\* Mutant: a success does not reset the count.
M_Counted(e, ok) == [e EXCEPT !.due = FALSE, !.fails = IF ok \/ @ = Threshold THEN @ ELSE @ + 1]

Counted(e, ok) ==
    [e EXCEPT !.due = FALSE, !.fails = IF ok THEN 0 ELSE IF @ = Threshold THEN @ ELSE @ + 1]

\* evaluate_check: the result ok of c, with the entry e.
Evaluate(c, e, ok) ==
    /\ open' = IF e.fails >= Threshold THEN open \cup {c} ELSE open \ {c}
    /\ streak' = [streak EXCEPT ![c] = IF ok THEN 0 ELSE IF @ = Threshold THEN @ ELSE @ + 1]

\* On to the next result, or back to the ticker.
Proceed ==
    /\ round' = Tail(round)
    /\ place' = IF Len(round) = 1 THEN "sleep" ELSE "applying"

\* The next result is taken up; the certificate is looked at first, if it is
\* time, and then the result is logged and evaluated.
Apply ==
    /\ place = "applying"
    /\ LET b == Head(round)
           e == Counted(IF st[b.id] = Nil THEN NewEntry(b.id) ELSE st[b.id], b.ok)
       IN IF b.kind = "https" /\ e.look
          THEN /\ st' = [st EXCEPT ![b.id] = [e EXCEPT !.look = FALSE]]
               /\ place' = "cert" /\ attached' = TRUE
               /\ UNCHANGED <<round, open, streak>>
          ELSE /\ st' = [st EXCEPT ![b.id] = e]
               /\ Evaluate(b.id, e, b.ok)
               /\ Proceed
               /\ UNCHANGED attached
    /\ UNCHANGED <<rows, held, restarts>>

\* cert_days returns or raises. The entry may have left _state meanwhile.
CertLooked ==
    /\ place = "cert"
    /\ LET b == Head(round)
       IN Evaluate(b.id, IF attached THEN st[b.id] ELSE held, b.ok)
    /\ Proceed
    /\ held' = Nil /\ attached' = FALSE
    /\ UNCHANGED <<rows, st, restarts>>

\* The interval, or CERT_EVERY, is over for the entry of c.
TimePasses(c) ==
    /\ st[c] # Nil
    /\ \/ st' = [st EXCEPT ![c].due = TRUE]
       \/ st' = [st EXCEPT ![c].look = TRUE]
    /\ UNCHANGED <<rows, round, place, held, attached, open, streak, restarts>>

\* The hub is restarted: the open events are in the table.
Restart ==
    /\ restarts < MaxHubRestarts
    /\ restarts' = restarts + 1
    /\ st' = [c \in CheckIds |-> Nil]
    /\ place' = "sleep" /\ round' = <<>> /\ held' = Nil /\ attached' = FALSE
    /\ UNCHANGED <<rows, open, streak>>

-----------------------------------------------------------------------------
Admin == \E c \in CheckIds :
            \/ Delete(c) \/ Disable(c)
            \/ \E kind \in Kinds : Add(c, kind) \/ Edit(c, kind)

RunDue ==
    \/ Start \/ ProbeRaises \/ Apply \/ CertLooked
    \/ \E ok \in [CheckIds -> BOOLEAN] : Probed(ok)

ChecksNext == Admin \/ RunDue \/ Restart \/ \E c \in CheckIds : TimePasses(c)

ChecksSpec == ChecksInit /\ [][ChecksNext]_checksVars

(***************************************************************************)
(* Fairness: the ticker never stops, and probes and looks have time-outs.  *)
(***************************************************************************)
ChecksFairSpec == ChecksSpec /\ WF_checksVars(RunDue)

-----------------------------------------------------------------------------
(***************************************************************************)
(* Properties.                                                             *)
(***************************************************************************)

\* The type of every variable; a held entry is one that left _state.
ChecksTyped ==
    /\ rows \in [CheckIds -> {Nil} \cup Kinds]
    /\ st \in [CheckIds -> {Nil} \cup Entry]
    /\ round \in Seq([id : CheckIds, kind : Kinds, ok : BOOLEAN \cup {Nil}])
    /\ place \in {"sleep", "probing", "applying", "cert"}
    /\ held \in {Nil} \cup Entry /\ attached \in BOOLEAN
    /\ place = "sleep" <=> round = <<>>
    /\ place = "cert" => IF attached THEN st[Head(round).id] # Nil ELSE held # Nil
    /\ open \subseteq CheckIds
    /\ streak \in [CheckIds -> 0 .. Threshold] /\ restarts \in 0 .. MaxHubRestarts

\* An alert opens on Threshold failed probes in a row, never on fewer and not
\* on failures from before a success; and "one more failure does not look
\* like a recovery": while the check is enabled it ends only with a probe that
\* succeeded, whatever restarts, edits and deletions came in between.
AlertsFollowProbes ==
    [][\A c \in CheckIds :
          /\ c \notin open /\ c \in open' => streak'[c] = Threshold
          /\ c \in open /\ c \notin open' => ~Enabled(c)' \/ streak'[c] = 0]_checksVars

\* While no URL is one httpx refuses, every due check is probed in the end:
\* run_due does not lose one by an edit, a deletion or a result it drops.
EveryCheckProbed ==
    <>[](\A c \in CheckIds : rows[c] # "refused")
      => \A c \in CheckIds : []<>~Due(c)
=============================================================================
