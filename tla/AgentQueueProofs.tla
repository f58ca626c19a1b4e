--------------------------- MODULE AgentQueueProofs ---------------------------
(***************************************************************************)
(* Proofs about AgentQueue, for every size of the queue and any number of  *)
(* samples. The inductive invariant says which numbers the two sequences   *)
(* hold: the queue always ends with the latest sample and has no gaps; the *)
(* batch has no gaps either, and there is a gap between the two only while *)
(* the queue is full.                                                      *)
(***************************************************************************)
EXTENDS AgentQueue, SequenceTheorems, TLAPS

\* The number before the first unsent sample, if nothing is missing.
Lo == next - 1 - Len(queue) - Len(batch)

QueueTight == \A i \in 1 .. Len(queue) : queue[i] = next - 1 - Len(queue) + i

BatchTight ==
    /\ Len(queue) < MaxBuffered => \A i \in 1 .. Len(batch) : batch[i] = Lo + i
    /\ \A i \in 1 .. Len(batch) : batch[i] = batch[1] + i - 1 /\ batch[i] < next - Len(queue)

\* What went out is older than what has not.
SentOlder ==
    /\ sent < next - Len(queue)
    /\ \A i \in 1 .. Len(batch) : sent < batch[i]

\* With room to spare, what is neither unsent nor from before the start of
\* the agent went out.
NoneMissing == Len(queue) + Len(batch) < MaxBuffered => sent >= Lo \/ born > Lo

\* A session that sends or sleeps has been, or is about to be, signalled.
Signalled == pc \in {"send", "select"} /\ queue # <<>> => wake \/ sampler = "signal"

\* The type invariant in two parts, the numbers and the modes.
Numbers ==
    /\ next \in 1 .. MaxSamples + 1
    /\ queue \in Seq(1 .. MaxSamples) /\ Len(queue) <= MaxBuffered
    /\ batch \in Seq(1 .. MaxSamples) /\ Len(batch) <= MaxBuffered
    /\ sent \in 0 .. MaxSamples /\ born \in 1 .. MaxSamples + 1

Modes ==
    /\ wake \in BOOLEAN /\ alive \in BOOLEAN
    /\ sampler \in {"tick", "signal"}
    /\ pc \in {"down", "hello", "take", "send", "select"}
    /\ pc = "send" <=> batch # <<>>

QueueInv == TypeOK /\ QueueTight /\ BatchTight /\ SentOlder /\ NoneMissing /\ Signalled

-----------------------------------------------------------------------------
(***************************************************************************)
(* Sequences.                                                              *)
(***************************************************************************)

\* How many samples KeepLast drops from a sequence of length n.
Over(n) == IF n > MaxBuffered THEN n - MaxBuffered ELSE 0

\* KeepLast drops the oldest, as many as needed, and keeps the rest in order
\* (the trimming in push and requeue).
LEMMA KeepLastFacts ==
  ASSUME NEW S, NEW s \in Seq(S)
  PROVE  /\ KeepLast(s) \in Seq(S)
         /\ Len(KeepLast(s)) = Len(s) - Over(Len(s))
         /\ \A i \in 1 .. Len(s) - Over(Len(s)) : KeepLast(s)[i] = s[i + Over(Len(s))]
<1>0. MaxBuffered \in Nat /\ MaxBuffered > 0 /\ Len(s) \in Nat
  BY QueueAssumption
<1>1. CASE Len(s) > MaxBuffered
  <2> DEFINE a == Len(s) - MaxBuffered + 1
  <2>1. a \in Int /\ Len(s) \in Int /\ \A i \in a .. Len(s) : s[i] \in S
    BY <1>0, <1>1
  <2>2. /\ SubSeq(s, a, Len(s)) \in Seq(S)
        /\ Len(SubSeq(s, a, Len(s))) = IF a <= Len(s) THEN Len(s) - a + 1 ELSE 0
        /\ \A i \in 1 .. Len(s) - a + 1 : SubSeq(s, a, Len(s))[i] = s[a + i - 1]
    BY <2>1, SubSeqProperties
  <2>3. a <= Len(s) /\ Len(s) - a + 1 = Len(s) - Over(Len(s)) /\ Over(Len(s)) = a - 1
    BY <1>0, <1>1 DEF Over
  <2>4. KeepLast(s) = SubSeq(s, a, Len(s))
    BY <1>1 DEF KeepLast
  <2> HIDE DEF a
  <2>5. ASSUME NEW i \in 1 .. Len(s) - Over(Len(s))
        PROVE  KeepLast(s)[i] = s[i + Over(Len(s))]
    <3>1. a + i - 1 = i + Over(Len(s))
      BY <2>1, <2>3
    <3> QED BY <2>2, <2>3, <2>4, <3>1
  <2> QED BY <2>2, <2>3, <2>4, <2>5
<1>2. CASE ~(Len(s) > MaxBuffered)
  BY <1>0, <1>2 DEF KeepLast, Over
<1> QED BY <1>1, <1>2

\* The elements of a concatenation.
LEMMA ConcatFacts ==
  ASSUME NEW S, NEW s \in Seq(S), NEW t \in Seq(S)
  PROVE  /\ s \o t \in Seq(S)
         /\ Len(s \o t) = Len(s) + Len(t)
         /\ \A i \in 1 .. Len(s) : (s \o t)[i] = s[i]
         /\ \A i \in 1 .. Len(t) : (s \o t)[Len(s) + i] = t[i]
         /\ \A i \in 1 .. Len(s) + Len(t) :
              (s \o t)[i] = IF i <= Len(s) THEN s[i] ELSE t[i - Len(s)]
  OBVIOUS

\* The elements of a sequence with one more at its end.
LEMMA AppendFacts ==
  ASSUME NEW S, NEW s \in Seq(S), NEW e \in S
  PROVE  /\ Append(s, e) \in Seq(S)
         /\ Len(Append(s, e)) = Len(s) + 1
         /\ \A i \in 1 .. Len(s) + 1 :
              Append(s, e)[i] = IF i <= Len(s) THEN s[i] ELSE e
  OBVIOUS

\* The elements of a sequence without its first.
LEMMA TailFacts ==
  ASSUME NEW S, NEW s \in Seq(S), s # <<>>
  PROVE  /\ Tail(s) \in Seq(S)
         /\ Len(s) \in Nat /\ Len(s) > 0
         /\ Head(s) = s[1] /\ s[1] \in S
         /\ Len(Tail(s)) = Len(s) - 1
         /\ \A i \in 1 .. Len(s) - 1 : Tail(s)[i] = s[i + 1]
  OBVIOUS

-----------------------------------------------------------------------------
(***************************************************************************)
(* The invariant.                                                          *)
(***************************************************************************)
\* An agent that starts has an empty queue and no session (New).
LEMMA QueueInit == Init => QueueInv
<1> SUFFICES ASSUME Init PROVE QueueInv
  OBVIOUS
<1>0. MaxBuffered \in Nat /\ MaxBuffered > 0 /\ MaxSamples \in Nat
  BY QueueAssumption
<1>1. Len(queue) = 0 /\ Len(batch) = 0 /\ next = 1
  BY DEF Init
<1>2. TypeOK
  <2>1. Numbers
    BY <1>0, <1>1 DEF Init, Numbers
  <2>2. Modes
    BY DEF Init, Modes
  <2> QED BY <2>1, <2>2 DEF TypeOK, Numbers, Modes
<1>3. QueueTight /\ BatchTight /\ SentOlder /\ NoneMissing /\ Signalled
  BY <1>0, <1>1 DEF Init, QueueTight, BatchTight, SentOlder, NoneMissing, Signalled, Lo
<1> QED BY <1>2, <1>3 DEF QueueInv

\* Every step of the sampler, the session and the network keeps the invariant.
LEMMA QueueStep == QueueInv /\ [Next]_vars => QueueInv'
<1> SUFFICES ASSUME QueueInv, [Next]_vars PROVE QueueInv'
  OBVIOUS
<1> DEFINE S == 1 .. MaxSamples
<1>0. MaxBuffered \in Nat /\ MaxBuffered > 0 /\ MaxSamples \in Nat
  BY QueueAssumption
<1>t. /\ next \in Nat /\ sent \in Nat /\ born \in Nat
      /\ queue \in Seq(S) /\ batch \in Seq(S)
      /\ Len(queue) \in Nat /\ Len(batch) \in Nat
  BY <1>0 DEF QueueInv, TypeOK
<1>n. next \in Int /\ sent \in Int /\ Len(queue) \in Nat /\ Len(batch) \in Nat
  BY <1>t
<1>e. /\ \A i \in 1 .. Len(queue) : queue[i] \in Int
      /\ \A i \in 1 .. Len(batch) : batch[i] \in Int
  BY <1>0, <1>t
<1> USE DEF QueueInv
<1>1. CASE Push
  <2> DEFINE q == Append(queue, next)
  <2>1. next \in S /\ queue' = KeepLast(q) /\ next' = next + 1 /\ batch' = batch /\ sent' = sent
    BY <1>1, <1>0 DEF Push, TypeOK
  <2>2. /\ q \in Seq(S) /\ Len(q) = Len(queue) + 1
        /\ \A i \in 1 .. Len(queue) + 1 : q[i] = IF i <= Len(queue) THEN queue[i] ELSE next
    BY <2>1, <1>t, AppendFacts
  <2>3. \A i \in 1 .. Len(q) : q[i] = next - Len(q) + i
    BY <2>2, <1>t DEF QueueTight
  <2> DEFINE d == Over(Len(q))
  <2>4. /\ queue' \in Seq(S) /\ Len(queue') = Len(q) - d
        /\ \A i \in 1 .. Len(q) - d : queue'[i] = q[i + d]
    BY <2>1, <2>2, KeepLastFacts
  <2>5. /\ Len(queue) <= MaxBuffered
        /\ d = (IF Len(queue) = MaxBuffered THEN 1 ELSE 0)
    BY <2>2, <1>0, <1>t DEF Over, TypeOK
  <2> HIDE DEF q, d
  <2>6. QueueTight'
    BY <2>1, <2>2, <2>3, <2>4, <2>5, <1>t DEF QueueTight
  <2>7. TypeOK'
    BY <1>1, <2>1, <2>2, <2>4, <2>5, <1>0, <1>t DEF Push, TypeOK
  <2>8. BatchTight'
    <3>1. Len(queue') = IF Len(queue) = MaxBuffered THEN Len(queue) ELSE Len(queue) + 1
      BY <2>2, <2>4, <2>5, <1>t
    <3>2. ASSUME Len(queue') < MaxBuffered, NEW i \in 1 .. Len(batch)
          PROVE  batch[i] = next - Len(queue') - Len(batch) + i
      <4>1. batch[i] = Lo + i
        BY <3>1, <3>2, <2>5, <1>0, <1>t DEF BatchTight
      <4>2. Len(queue') = Len(queue) + 1
        BY <3>1, <3>2, <1>0, <1>n
      <4> QED BY <4>1, <4>2, <1>n DEF Lo
    <3>l. Len(queue') \in Nat /\ Len(queue') <= Len(queue) + 1
      BY <3>1, <1>0, <1>n
    <3>3. ASSUME NEW i \in 1 .. Len(batch)
          PROVE  batch[i] = batch[1] + i - 1 /\ batch[i] < next + 1 - Len(queue')
      <4>1. batch[i] = batch[1] + i - 1 /\ batch[i] < next - Len(queue) /\ batch[i] \in Int
        BY <1>e DEF BatchTight
      <4> QED BY <4>1, <3>l, <1>n
    <3>4. next' - 1 = next
      BY <2>1, <1>t
    <3> QED BY <2>1, <3>2, <3>3, <3>4 DEF BatchTight, Lo
  <2>9. SentOlder'
    BY <2>1, <2>2, <2>4, <2>5, <1>0, <1>t DEF SentOlder
  <2>10. NoneMissing'
    BY <1>1, <2>1, <2>2, <2>4, <2>5, <1>0, <1>t DEF NoneMissing, Lo, Push
  <2>11. Signalled'
    BY <1>1 DEF Signalled, Push
  <2> QED BY <2>6, <2>7, <2>8, <2>9, <2>10, <2>11
<1>2. CASE Signal \/ Dial \/ Hello \/ HelloFails \/ Woken \/ SessionEnds \/ Break \/ UNCHANGED vars
  <2>1. UNCHANGED <<next, queue, batch, sent, born>>
    BY <1>2 DEF Signal, Dial, Hello, HelloFails, Woken, SessionEnds, Break, vars
  <2>2. TypeOK'
    BY <1>2, <2>1 DEF Signal, Dial, Hello, HelloFails, Woken, SessionEnds, Break, vars, TypeOK
  <2>3. QueueTight' /\ BatchTight' /\ SentOlder' /\ NoneMissing'
    BY <2>1 DEF QueueTight, BatchTight, SentOlder, NoneMissing, Lo
  <2>4. Signalled'
    BY <1>2, <2>1 DEF Signal, Dial, Hello, HelloFails, Woken, SessionEnds, Break, vars, Signalled
  <2> QED BY <2>2, <2>3, <2>4
<1>3. CASE Take
  <2>1. /\ batch = <<>> /\ Len(batch) = 0 /\ batch' = queue /\ queue' = <<>> /\ Len(queue') = 0
        /\ UNCHANGED <<next, sent, born>>
    BY <1>3, <1>t DEF Take, TypeOK
  <2>2. TypeOK'
    BY <1>3, <2>1, <1>0, <1>t DEF Take, TypeOK
  <2>3. QueueTight' /\ SentOlder' /\ NoneMissing'
    BY <2>1, <1>0, <1>t DEF QueueTight, SentOlder, NoneMissing, Lo
  <2>4. BatchTight'
    BY <2>1, <1>0, <1>t DEF QueueTight, BatchTight, Lo
  <2>5. Signalled'
    BY <2>1 DEF Signalled
  <2> QED BY <2>2, <2>3, <2>4, <2>5
<1>4. CASE Send
  <2>0. batch # <<>> /\ sent' = Head(batch) /\ batch' = Tail(batch) /\ UNCHANGED <<next, queue, born>>
    BY <1>4 DEF Send, TypeOK
  <2>1. /\ batch' \in Seq(S) /\ Len(batch) > 0 /\ sent' = batch[1] /\ batch[1] \in S
        /\ Len(batch') = Len(batch) - 1
        /\ \A i \in 1 .. Len(batch) - 1 : batch'[i] = batch[i + 1]
    BY <2>0, <1>t, TailFacts
  <2>2. TypeOK'
    <3>1. Numbers'
      BY <2>0, <2>1, <1>0, <1>t DEF TypeOK, Numbers
    <3>2. Modes'
      <4>1. Len(batch) = 1 <=> batch' = <<>>
        BY <2>1, <1>t
      <4> QED BY <1>4, <4>1 DEF Send, TypeOK, Modes
    <3> QED BY <3>1, <3>2 DEF TypeOK, Numbers, Modes
  <2>3. QueueTight' /\ Signalled'
    BY <1>4, <2>0 DEF QueueTight, Signalled, Send
  <2>4. ASSUME NEW i \in 1 .. Len(batch) - 1
        PROVE  /\ batch'[i] = batch'[1] + i - 1
               /\ batch'[i] < next - Len(queue) /\ batch[1] < batch'[i]
               /\ Len(queue) < MaxBuffered => batch'[i] = Lo + 1 + i
    <3>1. /\ i + 1 \in 1 .. Len(batch) /\ 2 \in 1 .. Len(batch) /\ 1 \in 1 .. Len(batch)
          /\ batch'[i] = batch[i + 1] /\ batch'[1] = batch[2]
      BY <2>1, <1>t
    <3>2. /\ batch[i + 1] = batch[1] + i /\ batch[2] = batch[1] + 1
          /\ batch[i + 1] < next - Len(queue)
          /\ Len(queue) < MaxBuffered => batch[i + 1] = Lo + (i + 1)
      BY <3>1, <1>t, <1>e DEF BatchTight
    <3>3. batch[1] \in Int /\ Lo \in Int
      BY <3>1, <1>e, <1>t DEF Lo
    <3> QED BY <3>1, <3>2, <3>3, <1>t
  <2>5. Lo' = Lo + 1 /\ Lo \in Int /\ Len(batch') \in Nat
    BY <2>0, <2>1, <1>t DEF Lo
  <2>6. BatchTight'
    BY <2>0, <2>1, <2>4, <2>5 DEF BatchTight
  <2>7. SentOlder'
    <3>1. batch[1] < next - Len(queue)
      BY <2>1, <1>t DEF BatchTight
    <3> QED BY <2>0, <2>1, <2>4, <3>1 DEF SentOlder
  <2>8. NoneMissing'
    <3>1. Len(queue) < MaxBuffered => batch[1] = Lo + 1
      BY <2>1, <1>t DEF BatchTight
    <3> QED BY <2>0, <2>1, <2>5, <3>1, <1>0, <1>t DEF NoneMissing
  <2> QED BY <2>2, <2>3, <2>6, <2>7, <2>8
<1>5. CASE SendFails
  <2> DEFINE c == batch \o queue
             d == Over(Len(c))
  <2>1. queue' = KeepLast(c) /\ batch' = <<>> /\ Len(batch') = 0 /\ UNCHANGED <<next, sent, born>>
    BY <1>5 DEF SendFails, Requeue
  <2>2. /\ c \in Seq(S) /\ Len(c) = Len(batch) + Len(queue)
        /\ \A i \in 1 .. Len(batch) + Len(queue) :
              c[i] = IF i <= Len(batch) THEN batch[i] ELSE queue[i - Len(batch)]
    BY <1>t, ConcatFacts
  <2>3. /\ queue' \in Seq(S) /\ Len(queue') = Len(c) - d
        /\ \A i \in 1 .. Len(c) - d : queue'[i] = c[i + d]
    BY <2>1, <2>2, KeepLastFacts
  <2>4. /\ d \in Nat
        /\ Len(batch) + Len(queue) > MaxBuffered => d = Len(batch) + Len(queue) - MaxBuffered
        /\ Len(batch) + Len(queue) <= MaxBuffered => d = 0
    BY <2>2, <1>0, <1>n DEF Over
  <2>5. Len(queue) <= MaxBuffered
    BY DEF TypeOK
  <2> DEFINE n == Len(queue')
  <2>l. n \in Int /\ n = Len(batch) + Len(queue) - d
    BY <2>2, <2>3, <2>4, <1>n
  <2>k. n = Len(c) - d
    BY <2>3
  <2> HIDE DEF c, d, n
  <2>6. /\ n \in Nat /\ n <= MaxBuffered /\ n <= Len(batch) + Len(queue) /\ n >= Len(queue)
        /\ n < MaxBuffered => n = Len(batch) + Len(queue)
        /\ n > Len(queue) => Len(queue) < MaxBuffered /\ Len(batch) > 0
    BY <2>l, <2>4, <2>5, <1>0, <1>n
  <2>7. ASSUME NEW i \in 1 .. n
        PROVE  queue'[i] = next - 1 - n + i
    <3>1. queue'[i] = c[i + d] /\ i + d \in 1 .. Len(batch) + Len(queue)
      <4>1. i + d \in 1 .. Len(batch) + Len(queue)
        BY <2>l, <2>4, <1>n
      <4>2. i \in 1 .. Len(c) - d
        BY <2>k
      <4> QED BY <4>1, <4>2, <2>3
    <3>2. CASE i + d <= Len(batch)
      <4>1. Len(queue) < MaxBuffered /\ i + d \in 1 .. Len(batch)
        BY <3>1, <3>2, <2>l, <2>4, <2>5, <2>6, <1>0, <1>t
      <4>2. c[i + d] = batch[i + d]
        BY <3>1, <3>2, <2>2
      <4>3. batch[i + d] = Lo + (i + d)
        BY <4>1 DEF BatchTight
      <4>4. Lo + (i + d) = next - 1 - n + i
        BY <2>l, <2>4, <1>n DEF Lo
      <4> QED BY <3>1, <4>2, <4>3, <4>4
    <3>3. CASE i + d > Len(batch)
      <4>1. i + d - Len(batch) \in 1 .. Len(queue)
        BY <3>1, <3>3, <2>4, <1>t
      <4>2. c[i + d] = queue[i + d - Len(batch)]
        BY <3>1, <3>3, <2>2, <2>4, <1>t
      <4>3. queue[i + d - Len(batch)] = next - 1 - Len(queue) + (i + d - Len(batch))
        BY <4>1 DEF QueueTight
      <4>4. next - 1 - Len(queue) + (i + d - Len(batch)) = next - 1 - n + i
        BY <2>l, <2>4, <1>n
      <4> QED BY <3>1, <4>2, <4>3, <4>4
    <3> QED BY <3>2, <3>3, <2>4, <1>t
  <2>8. QueueTight'
    BY <2>1, <2>7 DEF QueueTight, n
  <2>9. TypeOK'
    <3>1. Numbers'
      BY <2>1, <2>3, <2>6, <1>0 DEF TypeOK, Numbers, n
    <3>2. Modes'
      BY <1>5 DEF SendFails, TypeOK, Modes
    <3> QED BY <3>1, <3>2 DEF TypeOK, Numbers, Modes
  <2>10. BatchTight' /\ Signalled'
    BY <1>5, <2>1 DEF BatchTight, Signalled, SendFails
  <2>11. sent < next - n
    <3>1. CASE n = Len(queue)
      BY <3>1, <1>t DEF SentOlder
    <3>2. CASE n > Len(queue)
      <4>1. batch[1] = Lo + 1 /\ sent < batch[1]
        BY <3>2, <2>6, <1>t DEF BatchTight, SentOlder
      <4> QED BY <4>1, <2>6, <1>t DEF Lo
    <3> QED BY <3>1, <3>2, <2>6, <1>t
  <2>12. SentOlder'
    BY <2>1, <2>11 DEF SentOlder, n
  <2>13. NoneMissing'
    <3>1. n < MaxBuffered => Lo' = Lo
      BY <2>1, <2>6, <1>t DEF Lo, n
    <3>2. n < MaxBuffered => Len(queue) + Len(batch) < MaxBuffered
      BY <2>6, <1>t
    <3>3. Len(queue') + Len(batch') = n
      BY <2>1, <2>6 DEF n
    <3> QED BY <2>1, <3>1, <3>2, <3>3 DEF NoneMissing
  <2> QED BY <2>8, <2>9, <2>10, <2>12, <2>13
<1>6. CASE AgentRestarts
  <2>1. queue' = <<>> /\ batch' = <<>> /\ Len(queue') = 0 /\ Len(batch') = 0
        /\ born' = next /\ UNCHANGED <<next, sent>>
    BY <1>6 DEF AgentRestarts
  <2>2. TypeOK'
    <3>1. Numbers'
      BY <2>1, <1>0 DEF TypeOK, Numbers
    <3>2. Modes'
      BY <1>6 DEF AgentRestarts, TypeOK, Modes
    <3> QED BY <3>1, <3>2 DEF TypeOK, Numbers, Modes
  <2>3. sent < next
    BY <1>t DEF SentOlder
  <2>4. QueueTight' /\ BatchTight' /\ SentOlder' /\ NoneMissing' /\ Signalled'
    BY <2>1, <2>3, <1>0, <1>t
       DEF QueueTight, BatchTight, SentOlder, NoneMissing, Signalled, Lo
  <2> QED BY <2>2, <2>4
<1> QED
  BY <1>1, <1>2, <1>3, <1>4, <1>5, <1>6 DEF Next, Sampler, Session

-----------------------------------------------------------------------------
(***************************************************************************)
(* What follows.                                                           *)
(***************************************************************************)
\* The invariant holds for as long as the agent runs.
LEMMA QueueAlways == Spec => []QueueInv
  BY QueueInit, QueueStep, PTL DEF Spec

\* The unsent samples by their places in batch and queue.
LEMMA UnsentFacts ==
  ASSUME TypeOK
  PROVE  /\ Len(batch) \in Nat /\ Len(queue) \in Nat
         /\ DOMAIN Unsent = 1 .. Len(batch) + Len(queue)
         /\ \A i \in 1 .. Len(batch) : batch[i] \in Int
         /\ \A i \in 1 .. Len(queue) : queue[i] \in Int
         /\ \A i \in 1 .. Len(batch) + Len(queue) :
              Unsent[i] = IF i <= Len(batch) THEN batch[i] ELSE queue[i - Len(batch)]
<1>1. batch \in Seq(1 .. MaxSamples) /\ queue \in Seq(1 .. MaxSamples)
  BY DEF TypeOK
<1>2. /\ Unsent \in Seq(1 .. MaxSamples) /\ Len(Unsent) = Len(batch) + Len(queue)
      /\ \A i \in 1 .. Len(batch) + Len(queue) :
              Unsent[i] = IF i <= Len(batch) THEN batch[i] ELSE queue[i - Len(batch)]
  BY <1>1, ConcatFacts DEF Unsent
<1>3. DOMAIN Unsent = 1 .. Len(batch) + Len(queue)
  BY <1>2
<1>4. /\ Len(batch) \in Nat /\ \A i \in 1 .. Len(batch) : batch[i] \in Int
      /\ Len(queue) \in Nat /\ \A i \in 1 .. Len(queue) : queue[i] \in Int
  BY <1>1, QueueAssumption
<1> QED BY <1>2, <1>3, <1>4

\* The agent never holds more than its limit and its session is in a sound
\* state, whatever the network does.
THEOREM QueueTypeCorrect == Spec => []TypeOK
<1>1. QueueInv => TypeOK
  BY DEF QueueInv
<1> QED BY <1>1, QueueAlways, PTL

\* Samples go out in the order they were taken, for every size of the queue
\* and through any number of failed writes (requeue puts the rest in front).
THEOREM SamplesInOrder == Spec => []InOrder
<1>1. ASSUME QueueInv PROVE InOrder
  <2>0. MaxBuffered \in Nat /\ next \in Nat /\ sent \in Nat /\ TypeOK
    BY <1>1, QueueAssumption DEF QueueInv, TypeOK
  <2>1. Len(batch) \in Nat /\ Len(queue) \in Nat
    BY <2>0, UnsentFacts
  <2>b. ASSUME NEW i \in 1 .. Len(batch)
        PROVE  /\ Unsent[i] = batch[1] + i - 1 /\ batch[1] \in Int
               /\ sent < Unsent[i] /\ Unsent[i] < next - Len(queue)
    <3>1. Unsent[i] = batch[i] /\ batch[1] \in Int
      BY <2>0, <2>1, UnsentFacts
    <3> QED BY <1>1, <3>1 DEF QueueInv, BatchTight, SentOlder
  <2>q. ASSUME NEW i \in 1 .. Len(batch) + Len(queue), i > Len(batch)
        PROVE  Unsent[i] = next - 1 - Len(queue) + (i - Len(batch))
    <3>1. Unsent[i] = queue[i - Len(batch)] /\ i - Len(batch) \in 1 .. Len(queue)
      BY <2>0, <2>1, <2>q, UnsentFacts
    <3> QED BY <1>1, <3>1 DEF QueueInv, QueueTight
  <2>s. sent < next - Len(queue)
    BY <1>1 DEF QueueInv, SentOlder
  <2>2. ASSUME NEW i \in 1 .. Len(batch) + Len(queue)
        PROVE  sent < Unsent[i] /\ Unsent[i] < next
    <3>1. CASE i <= Len(batch)
      BY <2>0, <2>1, <2>b, <3>1
    <3>2. CASE i > Len(batch)
      BY <2>0, <2>1, <2>q, <2>s, <3>2
    <3> QED BY <3>1, <3>2, <2>1
  <2>3. ASSUME NEW i \in 1 .. Len(batch) + Len(queue), NEW j \in 1 .. Len(batch) + Len(queue), i < j
        PROVE  Unsent[i] < Unsent[j]
    <3>1. CASE j <= Len(batch)
      BY <2>0, <2>1, <2>3, <2>b, <3>1
    <3>2. CASE i > Len(batch)
      BY <2>0, <2>1, <2>3, <2>q, <3>2
    <3>3. CASE i <= Len(batch) /\ j > Len(batch)
      BY <2>0, <2>1, <2>3, <2>b, <2>q, <3>3
    <3> QED BY <2>1, <2>3, <3>1, <3>2, <3>3
  <2> QED BY <2>0, <2>2, <2>3, UnsentFacts DEF InOrder
<1> QED BY <1>1, QueueAlways, PTL

\* An outage costs only what does not fit: of the latest MaxBuffered samples
\* every one that has not gone out is still held (push drops the oldest).
THEOREM KeepsNewest == Spec => []NewestKept
<1>1. ASSUME QueueInv PROVE NewestKept
  <2>0. /\ MaxBuffered \in Nat /\ MaxBuffered > 0
        /\ next \in Nat /\ sent \in Nat /\ born \in Nat /\ TypeOK
        /\ Len(queue) <= MaxBuffered
    BY <1>1, QueueAssumption DEF QueueInv, TypeOK
  <2>1. SUFFICES ASSUME NEW n \in born .. next - 1, n > sent, n > next - 1 - MaxBuffered
                 PROVE  \E i \in DOMAIN Unsent : Unsent[i] = n
    BY DEF NewestKept
  <2> DEFINE i == n - Lo
  <2>2. CASE n > next - 1 - Len(queue)
    <3>1. i \in 1 .. Len(batch) + Len(queue) /\ i > Len(batch)
          /\ i - Len(batch) \in 1 .. Len(queue)
      BY <2>0, <2>1, <2>2, UnsentFacts DEF Lo
    <3>2. Unsent[i] = n
      <4>1. Unsent[i] = queue[i - Len(batch)]
        BY <2>0, <3>1, UnsentFacts
      <4>2. queue[i - Len(batch)] = next - 1 - Len(queue) + (i - Len(batch))
        BY <1>1, <3>1 DEF QueueInv, QueueTight
      <4> QED BY <2>0, <4>1, <4>2, UnsentFacts DEF Lo
    <3> QED BY <2>0, <3>1, <3>2, UnsentFacts
  <2>3. CASE n <= next - 1 - Len(queue)
    <3>1. Len(queue) < MaxBuffered
      BY <2>0, <2>1, <2>3, UnsentFacts
    <3>2. n > Lo
      BY <1>1, <2>0, <2>1, <3>1, UnsentFacts DEF QueueInv, NoneMissing, Lo
    <3>3. i \in 1 .. Len(batch)
      BY <2>0, <2>1, <2>3, <3>2, UnsentFacts DEF Lo
    <3>4. Unsent[i] = n
      <4>1. Unsent[i] = batch[i] /\ Lo \in Int
        BY <2>0, <3>3, UnsentFacts DEF Lo
      <4>2. batch[i] = Lo + i
        BY <1>1, <3>1, <3>3 DEF QueueInv, BatchTight
      <4> QED BY <4>1, <4>2
    <3> QED BY <2>0, <3>3, <3>4, UnsentFacts
  <2> QED BY <2>0, <2>1, <2>2, <2>3, UnsentFacts
<1> QED BY <1>1, QueueAlways, PTL

\* The queue of the agent keeps its types, its limit, its order and the newest
\* samples, for every size and through any number of failed writes.
THEOREM QueueIsWhole == Spec => []QueueWhole
<1>1. TypeOK /\ InOrder /\ NewestKept => QueueWhole
  BY DEF QueueWhole
<1> QED BY <1>1, QueueTypeCorrect, SamplesInOrder, KeepsNewest, PTL

\* No lost wake-up between push, which signals after it unlocked, and the
\* session, which takes and then waits.
THEOREM NoLostWakeUp == Spec => []NoSleepOnSamples
<1>1. QueueInv => NoSleepOnSamples
  BY DEF QueueInv, Signalled, NoSleepOnSamples
<1> QED BY <1>1, QueueAlways, PTL
=============================================================================
