------------------------------- MODULE MCRelay -------------------------------
(* The connections of an agent and the management relay for TLC. They share   *)
(* no state here: each behaviour is one of either, and the variables of the   *)
(* other keep their initial values. Connections are alike, and so are the     *)
(* requests of the panel: they are used in order.                             *)
EXTENDS AgentLink, Manage

CONSTANTS c1, c2, c3, r1, r2

VARIABLE part

relayVars == <<part, linkVars, vars>>

ConnsInOrder ==
    /\ conn[c2] # "idle" => conn[c1] # "idle"
    /\ conn[c3] # "idle" => conn[c2] # "idle"

RequestsInOrder == request[r2].op # "none" => request[r1].op # "none"

RelayInit ==
    /\ part \in {"link", "manage"}
    /\ LinkInit /\ Init

RelayNext ==
    /\ UNCHANGED part
    /\ \/ part = "link"   /\ UNCHANGED vars     /\ LinkNext /\ ConnsInOrder'
       \/ part = "manage" /\ UNCHANGED linkVars /\ Next     /\ RequestsInOrder'

RelaySpec == RelayInit /\ [][RelayNext]_relayVars
==============================================================================
