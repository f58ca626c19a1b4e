----------------------------- MODULE AgentQueue -----------------------------
(***************************************************************************)
(* How samples leave the agent (agent/internal/link/link.go): the sampler  *)
(* goroutine that pushes them on a bounded queue and signals "wake", and   *)
(* the session goroutine that takes the queue, writes it frame by frame    *)
(* and puts the unsent rest back when a write fails.                       *)
(*                                                                         *)
(* Samples are numbered in the order they are taken. The queue is touched  *)
(* under a mutex, so each access is one step; the two goroutines and the   *)
(* network interleave everywhere else.                                     *)
(***************************************************************************)
EXTENDS Integers, Sequences

CONSTANTS
    MaxBuffered,  \* maxBuffered: samples kept while the hub is away
    MaxSamples    \* bound: samples taken

ASSUME QueueAssumption == MaxBuffered \in Nat \ {0} /\ MaxSamples \in Nat

VARIABLES
    next,      \* the sample the sampler takes next
    queue,     \* a.queue
    wake,      \* the channel a.wake (capacity 1) holds a signal
    sampler,   \* "tick": waits for its ticker; "signal": pushed, not yet signalled
    pc,        \* where session() is, "down" between two sessions
    batch,     \* batch[i:], what session() took and has not sent
    alive,     \* the TCP connection still carries data
    sent,      \* history: the latest sample a write of which succeeded
    born       \* history: the first sample of this agent process

vars == <<next, queue, wake, sampler, pc, batch, alive, sent, born>>

Init ==
    /\ next = 1 /\ queue = <<>> /\ wake = FALSE /\ sampler = "tick"
    /\ pc = "down" /\ batch = <<>>
    /\ alive = FALSE /\ sent = 0 /\ born = 1

\* Mutant: the newest samples are kept from growing the queue.
M_KeepLast(s) == IF Len(s) > MaxBuffered THEN SubSeq(s, 1, MaxBuffered) ELSE s

\* The newest MaxBuffered of s: `if over := len - maxBuffered; over > 0`.
KeepLast(s) ==
    IF Len(s) > MaxBuffered THEN SubSeq(s, Len(s) - MaxBuffered + 1, Len(s)) ELSE s

-----------------------------------------------------------------------------
(***************************************************************************)
(* The sampler.                                                            *)
(***************************************************************************)

\* Mutant: the oldest samples are only dropped when a session ends.
M_Push ==
    /\ sampler = "tick" /\ next <= MaxSamples
    /\ queue' = Append(queue, next)
    /\ next' = next + 1
    /\ sampler' = "signal"
    /\ UNCHANGED <<wake, pc, batch, alive, sent, born>>

\* push, under the mutex.
Push ==
    /\ sampler = "tick" /\ next <= MaxSamples
    /\ queue' = KeepLast(Append(queue, next))
    /\ next' = next + 1
    /\ sampler' = "signal"
    /\ UNCHANGED <<wake, pc, batch, alive, sent, born>>

\* Mutant: the signal is given only to a session that waits for it.
M_Signal ==
    /\ sampler = "signal"
    /\ wake' = (wake \/ pc = "select")
    /\ sampler' = "tick"
    /\ UNCHANGED <<next, queue, pc, batch, alive, sent, born>>

\* push, after the mutex: the signal is dropped if one is there already.
Signal ==
    /\ sampler = "signal"
    /\ wake' = TRUE
    /\ sampler' = "tick"
    /\ UNCHANGED <<next, queue, pc, batch, alive, sent, born>>

-----------------------------------------------------------------------------
(***************************************************************************)
(* The session.                                                            *)
(***************************************************************************)

\* The dial succeeds.
Dial ==
    /\ pc = "down"
    /\ pc' = "hello"
    /\ alive' = TRUE
    /\ UNCHANGED <<next, queue, wake, sampler, batch, sent, born>>

\* The greeting is written ...
Hello ==
    /\ pc = "hello"
    /\ pc' = "take"
    /\ UNCHANGED <<next, queue, wake, sampler, batch, alive, sent, born>>

\* ... or the write fails.
HelloFails ==
    /\ pc = "hello"
    /\ pc' = "down"
    /\ alive' = FALSE
    /\ UNCHANGED <<next, queue, wake, sampler, batch, sent, born>>

\* take, under the mutex.
Take ==
    /\ pc = "take"
    /\ batch' = queue /\ queue' = <<>>
    /\ pc' = IF queue = <<>> THEN "select" ELSE "send"
    /\ UNCHANGED <<next, wake, sampler, alive, sent, born>>

\* One frame is accepted by the socket; on a dead connection that means
\* nothing, until a write or a ping times out.
Send ==
    /\ pc = "send"
    /\ sent' = Head(batch)
    /\ batch' = Tail(batch)
    /\ pc' = IF Len(batch) = 1 THEN "select" ELSE "send"
    /\ UNCHANGED <<next, queue, wake, sampler, alive, born>>

\* Mutant: the unsent rest goes to the end of the queue.
M_Requeue(rest) == queue' = KeepLast(queue \o rest)

\* requeue, under the mutex: before what was pushed meanwhile.
Requeue(rest) == queue' = KeepLast(rest \o queue)

\* A write fails or times out; the frame, which may have gone out all the
\* same, is put back with the rest.
SendFails ==
    /\ pc = "send"
    /\ Requeue(batch)
    /\ batch' = <<>>
    /\ pc' = "down" /\ alive' = FALSE
    /\ UNCHANGED <<next, wake, sampler, sent, born>>

\* `case <-a.wake`
Woken ==
    /\ pc = "select" /\ wake
    /\ wake' = FALSE
    /\ pc' = "take"
    /\ UNCHANGED <<next, queue, sampler, batch, alive, sent, born>>

\* The reader fails or a ping is not answered.
SessionEnds ==
    /\ pc = "select" /\ ~alive
    /\ pc' = "down"
    /\ UNCHANGED <<next, queue, wake, sampler, batch, alive, sent, born>>

\* The agent's process is restarted: what it buffered is gone.
AgentRestarts ==
    /\ queue' = <<>> /\ batch' = <<>> /\ wake' = FALSE
    /\ sampler' = "tick" /\ pc' = "down" /\ alive' = FALSE
    /\ born' = next
    /\ UNCHANGED <<next, sent>>

-----------------------------------------------------------------------------
(***************************************************************************)
(* The network (not in the repository).                                    *)
(***************************************************************************)
\* The connection breaks, without a word to the agent.
Break ==
    /\ alive
    /\ alive' = FALSE
    /\ UNCHANGED <<next, queue, wake, sampler, pc, batch, sent, born>>

-----------------------------------------------------------------------------
Sampler == Push \/ Signal

Session == Dial \/ Hello \/ HelloFails \/ Take \/ Send \/ SendFails \/ Woken \/ SessionEnds

Next == Sampler \/ Session \/ AgentRestarts \/ Break

Spec == Init /\ [][Next]_vars

(***************************************************************************)
(* Fairness: goroutines that can run do run, writes return within their    *)
(* 15 s and a dead connection is found by the ping every 30 s. Nobody owes *)
(* the agent a successful dial.                                            *)
(***************************************************************************)
Fairness ==
    /\ WF_vars(Signal)
    /\ WF_vars(Hello \/ HelloFails) /\ WF_vars(Take) /\ WF_vars(Send \/ SendFails)
    /\ WF_vars(Woken) /\ WF_vars(SessionEnds)

FairSpec == Spec /\ Fairness

-----------------------------------------------------------------------------
(***************************************************************************)
(* Properties.                                                             *)
(***************************************************************************)

\* The type of every variable, and the limit on what the agent holds.
TypeOK ==
    /\ next \in 1 .. MaxSamples + 1
    /\ queue \in Seq(1 .. MaxSamples) /\ Len(queue) <= MaxBuffered
    /\ batch \in Seq(1 .. MaxSamples) /\ Len(batch) <= MaxBuffered
    /\ wake \in BOOLEAN /\ alive \in BOOLEAN
    /\ sampler \in {"tick", "signal"}
    /\ pc \in {"down", "hello", "take", "send", "select"}
    /\ pc = "send" <=> batch # <<>>
    /\ sent \in 0 .. MaxSamples /\ born \in 1 .. MaxSamples + 1

\* What the agent still has to send, in the order it will go out.
Unsent == batch \o queue

\* Samples go out in the order they were taken, through any number of failed
\* writes and reconnects: the unsent ones are in order and newer than all that
\* went out before.
InOrder ==
    /\ \A i, j \in DOMAIN Unsent : i < j => Unsent[i] < Unsent[j]
    /\ \A i \in DOMAIN Unsent : sent < Unsent[i] /\ Unsent[i] < next

\* Of the latest MaxBuffered samples, every one that has not gone out is still
\* there to be sent, whichever of push, take and requeue ran in between. (What a
\* write handed to a connection that was dead by then has gone out all the same.)
NewestKept ==
    \A n \in born .. next - 1 :
        n > sent /\ n > next - 1 - MaxBuffered => \E i \in DOMAIN Unsent : Unsent[i] = n

\* The queue loses, repeats and reorders nothing it has room for. (With the
\* types and the limit.)
QueueWhole == TypeOK /\ InOrder /\ NewestKept

\* No lost wake-up: a session does not go to sleep on samples it could send.
NoSleepOnSamples == pc = "select" /\ queue # <<>> => wake \/ sampler = "signal"

\* Once a session lasts, every sample goes out: it and all that are newer.
EverythingGoesOut ==
    <>[](pc # "down") => \A n \in 1 .. MaxSamples : [](next > n /\ born <= n => <>(sent >= n \/ born > n))
=============================================================================
