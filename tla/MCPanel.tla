------------------------------- MODULE MCPanel -------------------------------
(* Accounts and plans of backups for TLC. They share no state: each behaviour *)
(* is one of either, and the variables of the other keep their initial        *)
(* values.                                                                    *)
EXTENDS Auth, BackupPlans

VARIABLE part

panelVars == <<part, authVars, vars>>

PanelInit ==
    /\ part \in {"accounts", "plans"}
    /\ AuthInit /\ Init

PanelNext ==
    /\ UNCHANGED part
    /\ \/ part = "accounts" /\ UNCHANGED vars     /\ AuthNext
       \/ part = "plans"    /\ UNCHANGED authVars /\ Next

PanelSpec == PanelInit /\ [][PanelNext]_panelVars
==============================================================================
