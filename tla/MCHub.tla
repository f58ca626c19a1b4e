-------------------------------- MODULE MCHub --------------------------------
(***************************************************************************)
(* What the hub makes of samples, for TLC: alerts and history. The two     *)
(* share no state here, so that each behaviour is one of either.           *)
(*                                                                         *)
(* Two keys of alerts never share an entry of _state or a row of the       *)
(* table, so a behaviour of theirs exercises the callers of one family of  *)
(* keys: the slow parts of samples (disks and containers), URL checks      *)
(* through two episodes, or the other callers of step() on one server. The *)
(* family is chosen at the start, and rule edits, forgetting, pruning, the *)
(* clock and restarts run in all three.                                    *)
(*                                                                         *)
(* The rows an administrator may store are a rule that fires at once, one  *)
(* that waits a tick, and one switched off.                                *)
(***************************************************************************)
EXTENDS Alerts, Samples

VARIABLE family    \* the callers this behaviour exercises, or "history"

hubVars == <<vars, samplesVars, family>>

Immediate == [threshold |-> 1, for_s |-> 0, enabled |-> TRUE]
Delayed   == [threshold |-> 1, for_s |-> 1, enabled |-> TRUE]
Disabled  == [threshold |-> 1, for_s |-> 0, enabled |-> FALSE]

MCRuleSettings == {Immediate, Delayed, Disabled}
MCDefaultRule  == [kind \in Kinds |-> IF kind \in {"container", "cpu"} THEN Delayed ELSE Immediate]

\* Bounds: how far the clock runs and how many events a key opens.
LastTick   == [samples |-> 1, checks |-> 2, others |-> 1]
LastEvent  == [samples |-> 1, checks |-> 2, others |-> 1]

HubInit == Init /\ SamplesInit /\ family \in DOMAIN LastTick \cup {"history"}

\* Slow samples of a host that is otherwise fine.
SlowSamples ==
    \E s \in Servers : LET host == [kind \in HostKinds |-> 0]
                       IN \/ EvaluateSample(s, host, FALSE, NoSlow)
                          \/ \E parts \in SlowParts : EvaluateSample(s, host, TRUE, parts)

\* Fast samples of a server that has reported no slow part.
FastSamples ==
    \E s \in Servers, host \in [HostKinds -> Levels] : EvaluateSample(s, host, FALSE, NoSlow)

Edited(kinds) == \E kind \in EditedKinds \cap kinds, rule \in RuleSettings : UpdateRule(kind, rule)

Callers ==
    CASE family = "samples" -> SlowSamples \/ ServerDeleted \/ Edited(DiskKinds)
      [] family = "checks"  -> CheckProbed \/ CheckForgotten \/ Edited({"check"})
      [] family = "others"  -> \/ FastSamples \/ Ticker \/ CertsListed \/ BackupEnded
                               \/ PlanDeleted \/ ServerDeleted

Engine ==
    /\ Callers \/ Prune \/ Restart \/ Tick
    /\ now' <= LastTick[family]
    /\ \A k \in Keys : lastId'[k] <= LastEvent[family]

HubNext ==
    /\ UNCHANGED family
    /\ \/ family # "history" /\ UNCHANGED samplesVars /\ Engine
       \/ family = "history" /\ UNCHANGED vars /\ SamplesNext

HubSpec == HubInit /\ [][HubNext]_hubVars
=============================================================================
