------------------------------ MODULE AlertLife ------------------------------
(***************************************************************************)
(* What the alert engine promises to the person who receives the messages, *)
(* with no clock, rule, table or restart: every (rule, server, subject) is *)
(* silent or has one open event. Opening an event announces it, ending it  *)
(* announces the end or (for a deleted thing) says nothing. Nothing else   *)
(* ever sends a message, so a restart of the hub is invisible here.        *)
(***************************************************************************)
EXTENDS Naturals, Sequences

CONSTANTS Keys, Nil

VARIABLES
    open,    \* per key, Nil or the id of its open event
    told     \* per key, the messages sent, in order

lifeVars == <<open, told>>

LifeInit ==
    /\ open = [k \in Keys |-> Nil]
    /\ told = [k \in Keys |-> <<>>]

Stays(k) == open'[k] = open[k] /\ told'[k] = told[k]

\* A silent key fires, with an event never announced before.
Fires(k) ==
    /\ open[k] = Nil /\ open'[k] # Nil
    /\ \A i \in DOMAIN told[k] : told[k][i].id # open'[k]
    /\ told'[k] = Append(told[k], [what |-> "fired", id |-> open'[k]])

\* The open event ends, with one message or with none.
Resolves(k) ==
    /\ open[k] # Nil /\ open'[k] = Nil
    /\ told'[k] = Append(told[k], [what |-> "resolved", id |-> open[k]])

Drops(k) ==
    /\ open[k] # Nil /\ open'[k] = Nil
    /\ told'[k] = told[k]

LifeNext == \A k \in Keys : Stays(k) \/ Fires(k) \/ Resolves(k) \/ Drops(k)

LifeSpec == LifeInit /\ [][LifeNext]_lifeVars
=============================================================================
