------------------------------- MODULE MCAgent -------------------------------
(* Three parts for TLC that all must get on with their work, one in each      *)
(* behaviour: the sender of an agent's samples, the connections of an agent   *)
(* at the hub, and the runs of a backup plan.                                 *)
EXTENDS AgentQueue, AgentLink, BackupRun

VARIABLE part

partVars == <<part, vars, linkVars, runVars>>

MCInit ==
    /\ part \in {"queue", "link", "run"}
    /\ Init /\ LinkInit /\ RunInit
    /\ part # "run" => mode = "local"

MCNext ==
    /\ UNCHANGED part
    /\ \/ part = "queue" /\ UNCHANGED <<linkVars, runVars>> /\ Next
       \/ part = "link"  /\ UNCHANGED <<vars, runVars>> /\ LinkNext
       \/ part = "run"   /\ UNCHANGED <<vars, linkVars>> /\ RunNext

\* The fairness of all three: the actions of two of them are disabled for good.
MCSpec == MCInit /\ [][MCNext]_partVars /\ Fairness /\ LinkFairness /\ WF_runVars(Task)
=============================================================================
