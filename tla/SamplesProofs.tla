---------------------------- MODULE SamplesProofs ----------------------------
(***************************************************************************)
(* Proofs about Samples, for every length of the hour, the window and the  *)
(* retention that satisfies the assumptions: the type invariant, that      *)
(* every sample is averaged in its minute exactly once, that an hour's row *)
(* is final once the rollup has run in the second hour after it, and that  *)
(* the long chart has no hole.                                             *)
(***************************************************************************)
EXTENDS Samples, WellFoundedInduction, TLAPS

(***************************************************************************)
(* MinuteExact is about minutes the pruning has not reached. A flush must  *)
(* not write below that line, and a crash must not take more from kept     *)
(* than it holds: both need that what waits in memory is recent, which is  *)
(* what the assumption on silent agents gives.                             *)
(***************************************************************************)
AccRecent ==
    /\ acc.n # 0 => accMinute >= clock - Late - 1
    /\ heard => accMinute >= clock - Late
    /\ acc.n = 0 => acc = NoRow
    /\ clock <= LastMinute

SamplesInv == SamplesTypes /\ AccRecent /\ MinuteExact

LEMMA HourIsNat == ASSUME NEW m \in Nat PROVE Hour(m) \in Nat
  BY LengthsAssumption DEF Hour

LEMMA PlusIsRow == \A r, s \in MinuteRow : Plus(r, s) \in MinuteRow
  BY DEF Plus, MinuteRow

LEMMA PlusNoRow == \A r \in MinuteRow : Plus(r, NoRow) = r
  BY DEF Plus, NoRow, MinuteRow

LEMMA PlusAssoc == \A r, s, q \in MinuteRow : Plus(r, Plus(s, q)) = Plus(Plus(r, s), q)
  BY DEF Plus, MinuteRow

LEMMA MinusUndoes == \A r, s, q \in MinuteRow : Plus(r, s) = q => Minus(q, s) = r
  BY DEF Plus, Minus, MinuteRow

LEMMA NoRowIsRow == NoRow \in MinuteRow
  BY DEF NoRow, MinuteRow

\* A sample is counted in a minute the pruning does not reach.
LEMMA DatedRecent ==
  ASSUME NEW t \in Minutes, SamplesTypes, AccRecent
  PROVE  Dated(t) \in Minutes /\ Dated(t) >= clock - Late
  BY LengthsAssumption DEF Dated, Minutes, SamplesTypes, AccRecent

\* A flush keeps the rows rows.
LEMMA FlushedType == ASSUME SamplesTypes PROVE Flushed \in [Minutes -> MinuteRow]
  BY PlusIsRow DEF Flushed, SamplesTypes

\* After a flush the rows alone hold what rows and memory held.
LEMMA FlushedExact ==
  ASSUME SamplesTypes, AccRecent, NEW m \in Minutes
  PROVE  Flushed[m] = Plus(minutes[m], Pending(m))
  BY PlusNoRow DEF Flushed, Pending, SamplesTypes, AccRecent

LEMMA InitInv == SamplesInit => SamplesInv
  <1> SUFFICES ASSUME SamplesInit PROVE SamplesInv OBVIOUS
  <1>0. 0 \in Minutes BY LengthsAssumption DEF Minutes
  <1>1. SamplesTypes
    <2>1. acc.n = 0 BY DEF SamplesInit, NoRow
    <2>2. [m \in Minutes |-> NoRow] \in [Minutes -> MinuteRow] BY NoRowIsRow
    <2> QED BY <1>0, <2>1, <2>2, NoRowIsRow DEF SamplesInit, SamplesTypes
  <1>2. AccRecent BY LengthsAssumption DEF SamplesInit, AccRecent, NoRow
  <1>3. MinuteExact BY NoRowIsRow, PlusNoRow DEF SamplesInit, MinuteExact, Pending
  <1> QED BY <1>1, <1>2, <1>3 DEF SamplesInv

LEMMA IngestInv ==
  ASSUME SamplesInv, NEW t \in Minutes, NEW v \in 0 .. MaxValue, Ingest(t, v)
  PROVE  SamplesInv'
  <1> DEFINE minute == Dated(t)
             one == [n |-> 1, cpu |-> v]
             turn == acc.n # 0 /\ minute # accMinute
  <1>1. minute \in Minutes /\ minute >= clock - Late
    BY DatedRecent DEF SamplesInv
  <1>2. one \in MinuteRow BY LengthsAssumption DEF MinuteRow
  <1>3. SamplesTypes /\ AccRecent /\ MinuteExact BY DEF SamplesInv
  <1>4. /\ up
        /\ minutes' = IF turn THEN Flushed ELSE minutes
        /\ acc' = IF turn THEN one ELSE Plus(acc, one)
        /\ accMinute' = minute /\ heard' = TRUE /\ count' = count + 1
        /\ kept' = [kept EXCEPT ![minute] = Plus(@, one)]
        /\ UNCHANGED <<clock, up, hours, rolled>>
    BY DEF Ingest
  <1> HIDE DEF minute, one
  <1>5. SamplesTypes'
    <2>1. minutes' \in [Minutes -> MinuteRow] BY <1>3, <1>4, FlushedType DEF SamplesTypes
    <2>2. acc' \in MinuteRow BY <1>2, <1>3, <1>4, PlusIsRow DEF SamplesTypes
    <2>3. kept' \in [Minutes -> MinuteRow] BY <1>1, <1>2, <1>3, <1>4, PlusIsRow DEF SamplesTypes
    <2>4. accMinute' \in Minutes /\ count' \in Nat BY <1>1, <1>3, <1>4 DEF SamplesTypes
    <2>5. clock' \in Nat /\ up' \in BOOLEAN /\ heard' \in BOOLEAN /\ hours' \in [Minutes -> MinuteRow]
          /\ rolled' \in Nat /\ up'
      BY <1>3, <1>4 DEF SamplesTypes
    <2> QED BY <2>1, <2>2, <2>3, <2>4, <2>5 DEF SamplesTypes
  <1>6. AccRecent'
    <2>1. acc'.n # 0
      <3>1. one.n = 1 BY DEF one
      <3>2. Plus(acc, one).n = acc.n + 1 BY <3>1 DEF Plus
      <3> QED BY <1>3, <1>4, <3>1, <3>2 DEF SamplesTypes, MinuteRow
    <2>2. clock \in Nat /\ minute \in Int /\ Late \in Nat
      BY <1>1, <1>3, LengthsAssumption DEF SamplesTypes, Minutes
    <2> QED BY <1>1, <1>3, <1>4, <2>1, <2>2 DEF AccRecent
  <1>7. MinuteExact'
    <2> SUFFICES ASSUME NEW m \in Minutes, m >= clock - KeepMinutes
                 PROVE  Plus(minutes'[m], Pending(m)') = kept'[m]
      BY <1>4 DEF MinuteExact
    <2>1. Plus(minutes[m], Pending(m)) = kept[m] BY <1>3 DEF MinuteExact
    <2>2. /\ minutes[m] \in MinuteRow /\ acc \in MinuteRow /\ kept[m] \in MinuteRow /\ NoRow \in MinuteRow
          /\ Flushed[m] \in MinuteRow
      BY <1>3, NoRowIsRow, FlushedType DEF SamplesTypes
    <2>3. Pending(m)' = IF m = minute THEN acc' ELSE NoRow BY <1>4 DEF Pending
    <2>4. kept'[m] = IF m = minute THEN Plus(kept[m], one) ELSE kept[m]
      BY <1>1, <1>3, <1>4 DEF SamplesTypes
    <2>5. CASE turn
      <3>1. Flushed[m] = kept[m] BY <1>3, <2>1, FlushedExact
      <3> QED BY <1>4, <2>2, <2>3, <2>4, <2>5, <3>1, PlusNoRow
    <2>6. CASE ~turn
      <3>1. minutes'[m] = minutes[m] /\ acc' = Plus(acc, one) BY <1>4, <2>6
      <3>2. CASE m = minute
        <4>1. Pending(m) = acc
          BY <1>3, <2>6, <3>2 DEF Pending, AccRecent
        <4> QED BY <1>2, <2>1, <2>2, <2>3, <2>4, <3>1, <3>2, <4>1, PlusAssoc
      <3>3. CASE m # minute
        <4>1. Pending(m) = NoRow
          BY <1>3, <2>6, <3>3 DEF Pending, AccRecent
        <4> QED BY <2>1, <2>3, <2>4, <3>1, <3>3, <4>1
      <3> QED BY <3>2, <3>3
    <2> QED BY <2>5, <2>6
  <1> QED BY <1>5, <1>6, <1>7 DEF SamplesInv

\* Disconnect and Stop write what waits in memory and empty it.
LEMMA FlushInv ==
  ASSUME SamplesInv, minutes' = Flushed, acc' = NoRow, up' \in BOOLEAN,
         UNCHANGED <<clock, accMinute, hours, rolled, heard, count, kept>>
  PROVE  SamplesInv'
  <1>1. SamplesTypes'
    BY FlushedType, NoRowIsRow DEF SamplesInv, SamplesTypes, NoRow
  <1>2. AccRecent' BY DEF SamplesInv, AccRecent, NoRow
  <1>3. MinuteExact'
    <2> SUFFICES ASSUME NEW m \in Minutes, m >= clock - KeepMinutes
                 PROVE  Plus(Flushed[m], NoRow) = kept[m]
      BY DEF MinuteExact, Pending
    <2>1. Flushed[m] = kept[m] BY FlushedExact DEF SamplesInv, MinuteExact
    <2>2. kept[m] \in MinuteRow BY DEF SamplesInv, SamplesTypes
    <2> QED BY <2>1, <2>2, PlusNoRow
  <1> QED BY <1>1, <1>2, <1>3 DEF SamplesInv

LEMMA CrashInv == ASSUME SamplesInv, Crash PROVE SamplesInv'
  <1>1. SamplesTypes /\ AccRecent /\ MinuteExact BY DEF SamplesInv
  <1>2. /\ up' = FALSE /\ acc' = NoRow
        /\ kept' = [kept EXCEPT ![accMinute] = Minus(@, acc)]
        /\ UNCHANGED <<clock, accMinute, minutes, hours, rolled, heard, count>>
    BY DEF Crash
  <1>3. kept[accMinute] \in MinuteRow /\ minutes[accMinute] \in MinuteRow /\ acc \in MinuteRow /\ accMinute \in Minutes
    BY <1>1 DEF SamplesTypes
  <1>4. /\ Minus(kept[accMinute], acc) \in MinuteRow
        /\ accMinute >= clock - KeepMinutes => Minus(kept[accMinute], acc) = minutes[accMinute]
    <2>1. CASE acc.n # 0
      <3>1. accMinute >= clock - KeepMinutes
        BY <1>1, <2>1, LengthsAssumption, WindowAssumption DEF AccRecent, SamplesTypes, Minutes
      <3>2. Plus(minutes[accMinute], acc) = kept[accMinute]
        BY <1>1, <1>3, <3>1 DEF MinuteExact, Pending
      <3> QED BY <1>3, <3>2, MinusUndoes
    <2>2. CASE acc.n = 0
      <3>1. acc = NoRow BY <1>1, <2>2 DEF AccRecent
      <3>2. Minus(kept[accMinute], NoRow) = kept[accMinute]
        BY <1>3, NoRowIsRow, PlusNoRow, MinusUndoes
      <3>3. accMinute >= clock - KeepMinutes => minutes[accMinute] = kept[accMinute]
        BY <1>1, <1>3, <3>1, PlusNoRow DEF MinuteExact, Pending
      <3> QED BY <1>3, <3>1, <3>2, <3>3
    <2> QED BY <2>1, <2>2
  <1>5. SamplesTypes'
    BY <1>1, <1>2, <1>3, <1>4, NoRowIsRow DEF SamplesTypes, NoRow
  <1>6. AccRecent' BY <1>1, <1>2 DEF AccRecent, NoRow
  <1>7. MinuteExact'
    <2> SUFFICES ASSUME NEW m \in Minutes, m >= clock - KeepMinutes
                 PROVE  Plus(minutes[m], NoRow) = kept'[m]
      BY <1>2 DEF MinuteExact, Pending
    <2>1. minutes[m] \in MinuteRow BY <1>1 DEF SamplesTypes
    <2>2. CASE m = accMinute BY <1>1, <1>2, <1>4, <2>1, <2>2, PlusNoRow DEF SamplesTypes
    <2>3. CASE m # accMinute
      <3>1. kept'[m] = kept[m] BY <1>1, <1>2, <2>3 DEF SamplesTypes
      <3>2. Plus(minutes[m], NoRow) = kept[m] BY <1>1, <2>3 DEF MinuteExact, Pending
      <3> QED BY <3>1, <3>2
    <2> QED BY <2>2, <2>3
  <1> QED BY <1>5, <1>6, <1>7 DEF SamplesInv

\* Pruning deletes only what MinuteExact no longer speaks of.
LEMMA PruneInv == ASSUME SamplesInv, PruneRows PROVE SamplesInv'
  <1>1. SamplesTypes' BY NoRowIsRow DEF SamplesInv, SamplesTypes, PruneRows
  <1>2. AccRecent' BY DEF SamplesInv, AccRecent, PruneRows
  <1>3. MinuteExact'
    <2> SUFFICES ASSUME NEW m \in Minutes, m >= clock - KeepMinutes
                 PROVE  Plus(minutes'[m], Pending(m)) = kept[m]
      BY DEF MinuteExact, Pending, PruneRows
    <2>1. minutes'[m] = minutes[m]
      <3>1. m \in Int /\ clock \in Int /\ KeepMinutes \in Int
        BY LengthsAssumption DEF SamplesInv, SamplesTypes, Minutes
      <3> QED BY <3>1 DEF PruneRows
    <2> QED BY <2>1 DEF SamplesInv, MinuteExact
  <1> QED BY <1>1, <1>2, <1>3 DEF SamplesInv

\* Rollup and the start of the hub touch neither rows nor memory.
LEMMA RollupInv == ASSUME SamplesInv, Rollup \/ HubStarts PROVE SamplesInv'
  <1>1. SamplesTypes'
    <2>1. CASE Rollup
      <3>1. rolled' \in Nat BY <2>1, HourIsNat DEF SamplesInv, SamplesTypes, Rollup
      <3> QED BY <2>1, <3>1 DEF SamplesInv, SamplesTypes, Rollup
    <2>2. CASE HubStarts BY <2>2 DEF SamplesInv, SamplesTypes, HubStarts
    <2> QED BY <2>1, <2>2
  <1>2. AccRecent' BY DEF SamplesInv, AccRecent, Rollup, HubStarts
  <1>3. MinuteExact' BY DEF SamplesInv, MinuteExact, Pending, Rollup, HubStarts
  <1> QED BY <1>1, <1>2, <1>3 DEF SamplesInv

LEMMA ClockInv == ASSUME SamplesInv, Clock PROVE SamplesInv'
  <1>1. SamplesTypes'
    <2>1. clock' \in Nat BY DEF SamplesInv, SamplesTypes, Clock
    <2> QED BY <2>1 DEF SamplesInv, SamplesTypes, Clock
  <1>2. clock \in Nat /\ accMinute \in Int /\ Late \in Nat /\ KeepMinutes \in Nat /\ LastMinute \in Nat
    BY LengthsAssumption DEF SamplesInv, SamplesTypes, Minutes
  <1>3. AccRecent' BY <1>2 DEF SamplesInv, AccRecent, Clock
  <1>4. MinuteExact'
    <2> SUFFICES ASSUME NEW m \in Minutes, m >= clock' - KeepMinutes
                 PROVE  Plus(minutes[m], Pending(m)) = kept[m]
      BY DEF MinuteExact, Pending, Clock
    <2>1. m >= clock - KeepMinutes BY <1>2, LengthsAssumption DEF Clock, Minutes
    <2> QED BY <2>1 DEF SamplesInv, MinuteExact
  <1> QED BY <1>1, <1>3, <1>4 DEF SamplesInv

LEMMA NextInv == SamplesInv /\ [SamplesNext]_samplesVars => SamplesInv'
  <1> SUFFICES ASSUME SamplesInv, [SamplesNext]_samplesVars PROVE SamplesInv' OBVIOUS
  <1>1. CASE \E t \in Minutes, v \in 0 .. MaxValue : Ingest(t, v) BY <1>1, IngestInv
  <1>2. CASE Disconnect
    <2>1. up' \in BOOLEAN BY <1>2 DEF Disconnect, SamplesInv, SamplesTypes
    <2> QED BY <1>2, <2>1, FlushInv DEF Disconnect
  <1>3. CASE Stop BY <1>3, FlushInv DEF Stop
  <1>4. CASE Crash BY <1>4, CrashInv
  <1>5. CASE PruneRows BY <1>5, PruneInv
  <1>6. CASE Rollup \/ HubStarts BY <1>6, RollupInv
  <1>7. CASE Clock BY <1>7, ClockInv
  <1>8. CASE UNCHANGED samplesVars
    BY <1>8 DEF samplesVars, SamplesInv, SamplesTypes, AccRecent, MinuteExact, Pending
  <1> QED BY <1>1, <1>2, <1>3, <1>4, <1>5, <1>6, <1>7, <1>8 DEF SamplesNext

LEMMA InvHolds == SamplesSpec => []SamplesInv
  BY InitInv, NextInv, PTL DEF SamplesSpec

\* The types of the variables hold, and samples wait in memory only while the
\* hub runs: live.py leaves nothing accumulated when the process ends.
THEOREM SamplesTypeCorrect == SamplesSpec => []SamplesTypes
  <1>1. SamplesInv => SamplesTypes BY DEF SamplesInv
  <1> QED BY <1>1, InvHolds, PTL

\* Every sample live.ingest accepts is averaged in its minute exactly once,
\* for every retention and however late, repeated or interrupted the samples
\* of an agent are, but for what a crash of the hub takes from memory.
THEOREM SamplesCountedOnce == SamplesSpec => []MinuteExact
  <1>1. SamplesInv => MinuteExact BY DEF SamplesInv
  <1> QED BY <1>1, InvHolds, PTL

\* The minutes of live.ingest, in memory and in the table, are right.
THEOREM MinutesAreRight == SamplesSpec => []MinutesRight
  <1>1. SamplesTypes /\ MinuteExact => MinutesRight BY DEF MinutesRight
  <1> QED BY <1>1, SamplesTypeCorrect, SamplesCountedOnce, PTL

-----------------------------------------------------------------------------
(***************************************************************************)
(* HourFinal. A rollup in hour r makes every row of its window equal to    *)
(* the minutes; for the hours before r - 1 that is all that was received,  *)
(* since late samples and what waits in memory are of the last two hours.  *)
(* Hours before the window were final already, because the rollups are     *)
(* less than Window hours apart. An hour without minute rows is skipped by *)
(* GROUP BY, hence the conjunct that it has no row to keep.                *)
(***************************************************************************)
EmptyRows == \A m \in Minutes : minutes[m].n = 0 => minutes[m] = NoRow

RowsFromMinutes ==
    \A m \in Minutes : m >= clock - KeepMinutes /\ minutes[m].n = 0 => hours[m] = NoRow

RolledLately == rolled <= Hour(clock) /\ Hour(clock) < rolled + Window

HourInv == EmptyRows /\ RowsFromMinutes /\ RolledLately /\ HourFinal

LEMMA HourBounds ==
  ASSUME NEW m \in Nat
  PROVE  Hour(m) \in Nat /\ Hour(m) * HourLen <= m /\ m < Hour(m) * HourLen + HourLen
  BY LengthsAssumption DEF Hour

LEMMA Product ==
  ASSUME NEW x \in Int, NEW y \in Int, NEW L \in Nat, x >= y
  PROVE  x * L >= y * L
  OBVIOUS

\* A minute at most an hour back is of this hour or the one before.
LEMMA HourRecent ==
  ASSUME NEW m \in Nat, NEW n \in Nat, m >= n - HourLen
  PROVE  Hour(m) >= Hour(n) - 1
  <1> DEFINE a == Hour(m)
             b == Hour(n)
  <1>1. a \in Nat /\ b \in Nat /\ m < a * HourLen + HourLen /\ b * HourLen <= n
    BY HourBounds
  <1> HIDE DEF a, b
  <1>2. ASSUME a < b - 1 PROVE FALSE
    <2>1. b >= a + 2 BY <1>1, <1>2
    <2>2. b * HourLen >= (a + 2) * HourLen BY <1>1, <2>1, Product, LengthsAssumption
    <2>3. (a + 2) * HourLen = a * HourLen + HourLen + HourLen BY <1>1, LengthsAssumption
    <2> QED BY <1>1, <2>2, <2>3, LengthsAssumption
  <1>3. a >= b - 1 BY <1>1, <1>2
  <1> QED BY <1>3 DEF a, b

LEMMA HourMonotone ==
  ASSUME NEW m \in Nat, NEW n \in Nat, m <= n
  PROVE  Hour(m) <= Hour(n)
  <1> DEFINE a == Hour(m)
             b == Hour(n)
  <1>1. a \in Nat /\ b \in Nat /\ a * HourLen <= m /\ n < b * HourLen + HourLen
    BY HourBounds
  <1> HIDE DEF a, b
  <1>2. ASSUME a > b PROVE FALSE
    <2>1. a >= b + 1 BY <1>1, <1>2
    <2>2. a * HourLen >= (b + 1) * HourLen BY <1>1, <2>1, Product, LengthsAssumption
    <2>3. (b + 1) * HourLen = b * HourLen + HourLen BY <1>1, LengthsAssumption
    <2> QED BY <1>1, <2>2, <2>3, LengthsAssumption
  <1>3. a <= b BY <1>1, <1>2
  <1> QED BY <1>3 DEF a, b

\* Pruning does not reach the window.
LEMMA WindowKept ==
  ASSUME NEW m \in Nat, NEW n \in Nat, Hour(m) >= Hour(n) - Window
  PROVE  m >= n - KeepMinutes
  <1> DEFINE a == Hour(m)
             b == Hour(n)
  <1>1. a \in Nat /\ b \in Nat /\ a * HourLen <= m /\ n < b * HourLen + HourLen /\ a >= b - Window
    BY HourBounds
  <1> HIDE DEF a, b
  <1>2. a * HourLen >= (b - Window) * HourLen BY <1>1, Product, LengthsAssumption
  <1>3. (b - Window) * HourLen = b * HourLen - Window * HourLen BY <1>1, LengthsAssumption
  <1>4. (Window + 1) * HourLen = Window * HourLen + HourLen BY LengthsAssumption
  <1>5. /\ a * HourLen \in Int /\ b * HourLen \in Int /\ Window * HourLen \in Int
        /\ HourLen \in Int /\ KeepMinutes \in Int /\ KeepMinutes >= Window * HourLen + HourLen
    BY <1>1, <1>4, LengthsAssumption, WindowAssumption
  <1> QED BY <1>1, <1>2, <1>3, <1>5

\* What waits in memory is of the last two hours.
LEMMA PendingRecent ==
  ASSUME SamplesInv, acc.n # 0
  PROVE  Hour(accMinute) >= Hour(clock) - 1
  <1>1. accMinute \in Nat /\ clock \in Nat BY LengthsAssumption DEF SamplesInv, SamplesTypes, Minutes
  <1>2. accMinute >= clock - HourLen
    BY <1>1, LengthsAssumption, WindowAssumption DEF SamplesInv, AccRecent
  <1> QED BY <1>1, <1>2, HourRecent

LEMMA HourTypes ==
  ASSUME SamplesTypes
  PROVE  /\ clock \in Nat /\ rolled \in Nat /\ Hour(clock) \in Nat
         /\ \A m \in Minutes : m \in Nat /\ Hour(m) \in Nat
         /\ Window \in Nat /\ Window >= 2 /\ KeepMinutes \in Nat /\ KeepHours \in Nat
  BY LengthsAssumption, HourIsNat DEF SamplesTypes, Minutes

LEMMA HourInit == SamplesInit => HourInv
  <1> SUFFICES ASSUME SamplesInit PROVE HourInv OBVIOUS
  <1>1. 0 \in Nat /\ Hour(0) \in Nat /\ Hour(0) * HourLen <= 0 BY HourBounds
  <1>2. Hour(0) = 0
    <2> DEFINE a == Hour(0)
    <2>1. a \in Nat /\ a * HourLen <= 0 BY <1>1
    <2> HIDE DEF a
    <2>2. a >= 1 => a * HourLen >= 1 * HourLen BY <2>1, Product, LengthsAssumption
    <2>3. a = 0 BY <2>1, <2>2, LengthsAssumption
    <2> QED BY <2>3 DEF a
  <1>3. EmptyRows BY DEF SamplesInit, EmptyRows
  <1>4. RowsFromMinutes BY DEF SamplesInit, RowsFromMinutes
  <1>5. RolledLately BY <1>2, LengthsAssumption DEF SamplesInit, RolledLately
  <1>6. HourFinal BY DEF SamplesInit, HourFinal
  <1> QED BY <1>3, <1>4, <1>5, <1>6 DEF HourInv

\* A flush empties no row.
LEMMA FlushedRows ==
  ASSUME SamplesInv, EmptyRows, NEW m \in Minutes
  PROVE  /\ Flushed[m].n = 0 => Flushed[m] = NoRow
         /\ Flushed[m].n = 0 => minutes[m].n = 0
  <1>1. minutes[m] \in MinuteRow /\ acc \in MinuteRow /\ minutes \in [Minutes -> MinuteRow] /\ accMinute \in Minutes
    BY DEF SamplesInv, SamplesTypes
  <1>2. CASE acc.n # 0 /\ m = accMinute
    <2>1. Flushed[m] = Plus(minutes[m], acc) BY <1>1, <1>2 DEF Flushed
    <2>2. Plus(minutes[m], acc).n = minutes[m].n + acc.n BY DEF Plus
    <2>3. minutes[m].n \in Nat /\ acc.n \in Nat BY <1>1 DEF MinuteRow
    <2> QED BY <1>2, <2>1, <2>2, <2>3
  <1>3. CASE ~(acc.n # 0 /\ m = accMinute)
    <2>1. Flushed[m] = minutes[m] BY <1>1, <1>3 DEF Flushed
    <2> QED BY <2>1 DEF EmptyRows
  <1> QED BY <1>2, <1>3

LEMMA HourIngest ==
  ASSUME SamplesInv, HourInv, NEW t \in Minutes, NEW v \in 0 .. MaxValue, Ingest(t, v)
  PROVE  HourInv'
  <1>1. /\ minutes' = Flushed \/ minutes' = minutes
        /\ UNCHANGED <<clock, hours, rolled>>
    BY DEF Ingest
  <1>2. Dated(t) \in Minutes /\ Dated(t) >= clock - Late BY DatedRecent DEF SamplesInv
  <1>3. \A m \in Minutes : m # Dated(t) => kept'[m] = kept[m]
    BY DEF Ingest, SamplesInv, SamplesTypes
  <1>4. Hour(Dated(t)) >= Hour(clock) - 1
    <2>1. Dated(t) \in Nat /\ clock \in Nat BY <1>2, HourTypes DEF SamplesInv
    <2>2. Dated(t) >= clock - HourLen BY <1>2, <2>1, LengthsAssumption, WindowAssumption
    <2> QED BY <2>1, <2>2, HourRecent
  <1>5. HourFinal'
    <2> SUFFICES ASSUME NEW m \in Minutes, Hour(m) < rolled - 1, Hour(m) * HourLen >= clock - KeepHours
                 PROVE  hours[m] = kept'[m]
      BY <1>1 DEF HourFinal
    <2>1. m # Dated(t)
      <3> SUFFICES ASSUME m = Dated(t) PROVE FALSE OBVIOUS
      <3>1. Hour(m) \in Nat /\ Hour(clock) \in Nat /\ rolled \in Nat BY HourTypes DEF SamplesInv
      <3> QED BY <1>4, <3>1 DEF HourInv, RolledLately
    <2> QED BY <1>3, <2>1 DEF HourInv, HourFinal
  <1>6. EmptyRows' /\ RowsFromMinutes'
    BY <1>1, FlushedRows DEF HourInv, EmptyRows, RowsFromMinutes
  <1>7. RolledLately' BY <1>1 DEF HourInv, RolledLately
  <1> QED BY <1>5, <1>6, <1>7 DEF HourInv

LEMMA HourFlush ==
  ASSUME SamplesInv, HourInv, minutes' = Flushed,
         UNCHANGED <<clock, hours, rolled, kept>>
  PROVE  HourInv'
  <1>1. EmptyRows' /\ RowsFromMinutes'
    BY FlushedRows DEF HourInv, EmptyRows, RowsFromMinutes
  <1>2. RolledLately' /\ HourFinal' BY DEF HourInv, RolledLately, HourFinal
  <1> QED BY <1>1, <1>2 DEF HourInv

LEMMA HourCrash == ASSUME SamplesInv, HourInv, Crash PROVE HourInv'
  <1>1. UNCHANGED <<clock, minutes, hours, rolled>> /\ kept' = [kept EXCEPT ![accMinute] = Minus(@, acc)]
    BY DEF Crash
  <1>2. kept \in [Minutes -> MinuteRow] /\ accMinute \in Minutes /\ kept[accMinute] \in MinuteRow
    BY DEF SamplesInv, SamplesTypes
  <1>3. EmptyRows' /\ RowsFromMinutes' /\ RolledLately'
    BY <1>1 DEF HourInv, EmptyRows, RowsFromMinutes, RolledLately
  <1>4. HourFinal'
    <2> SUFFICES ASSUME NEW m \in Minutes, Hour(m) < rolled - 1, Hour(m) * HourLen >= clock - KeepHours
                 PROVE  hours[m] = kept'[m]
      BY <1>1 DEF HourFinal
    <2>1. hours[m] = kept[m] BY DEF HourInv, HourFinal
    <2>2. kept'[m] = kept[m]
      <3>1. CASE acc.n = 0
        <4>1. acc = NoRow BY <3>1 DEF SamplesInv, AccRecent
        <4>2. Minus(kept[accMinute], NoRow) = kept[accMinute]
          BY <1>2, NoRowIsRow, PlusNoRow, MinusUndoes
        <4> QED BY <1>1, <1>2, <4>1, <4>2
      <3>2. CASE acc.n # 0
        <4>1. Hour(accMinute) >= Hour(clock) - 1 BY <3>2, PendingRecent
        <4>2. Hour(m) \in Nat /\ Hour(clock) \in Nat /\ rolled \in Nat BY HourTypes DEF SamplesInv
        <4>3. m # accMinute BY <4>1, <4>2 DEF HourInv, RolledLately
        <4> QED BY <1>1, <1>2, <4>3
      <3> QED BY <3>1, <3>2
    <2> QED BY <2>1, <2>2
  <1> QED BY <1>3, <1>4 DEF HourInv

LEMMA HourPrune == ASSUME SamplesInv, HourInv, PruneRows PROVE HourInv'
  <1>1. UNCHANGED <<clock, rolled, kept>> BY DEF PruneRows
  <1>2. \A m \in Minutes : /\ minutes'[m] = IF m < clock - KeepMinutes THEN NoRow ELSE minutes[m]
                           /\ hours'[m] = IF Hour(m) * HourLen < clock - KeepHours THEN NoRow ELSE hours[m]
    BY DEF PruneRows
  <1>3. EmptyRows' BY <1>2 DEF HourInv, EmptyRows
  <1>4. RowsFromMinutes'
    <2> SUFFICES ASSUME NEW m \in Minutes, m >= clock - KeepMinutes, minutes'[m].n = 0
                 PROVE  hours'[m] = NoRow
      BY <1>1 DEF RowsFromMinutes
    <2>1. minutes'[m] = minutes[m] BY <1>2, HourTypes DEF SamplesInv
    <2> QED BY <1>2, <2>1 DEF HourInv, RowsFromMinutes
  <1>5. RolledLately' BY <1>1 DEF HourInv, RolledLately
  <1>6. HourFinal'
    <2> SUFFICES ASSUME NEW m \in Minutes, Hour(m) < rolled - 1, Hour(m) * HourLen >= clock - KeepHours
                 PROVE  hours'[m] = kept[m]
      BY <1>1 DEF HourFinal
    <2>1. Hour(m) * HourLen \in Int /\ clock - KeepHours \in Int
      BY HourTypes, LengthsAssumption DEF SamplesInv
    <2>2. hours'[m] = hours[m] BY <1>2, <2>1
    <2> QED BY <2>2 DEF HourInv, HourFinal
  <1> QED BY <1>3, <1>4, <1>5, <1>6 DEF HourInv

LEMMA HourRollup == ASSUME SamplesInv, HourInv, Rollup PROVE HourInv'
  <1>1. UNCHANGED <<clock, minutes, acc, accMinute, kept>> /\ rolled' = Hour(clock) BY DEF Rollup
  <1>2. \A m \in Minutes : hours'[m] = IF Rolls(Hour(m)) /\ HasMinutes(Hour(m))
                                       THEN minutes[m] ELSE hours[m]
    BY DEF Rollup
  <1>3. EmptyRows' BY <1>1 DEF HourInv, EmptyRows
  <1>4. RowsFromMinutes' BY <1>1, <1>2 DEF HourInv, RowsFromMinutes, EmptyRows
  <1>5. RolledLately' BY <1>1, HourTypes DEF SamplesInv, RolledLately
  <1>6. HourFinal'
    <2> SUFFICES ASSUME NEW m \in Minutes, Hour(m) < Hour(clock) - 1, Hour(m) * HourLen >= clock - KeepHours
                 PROVE  hours'[m] = kept[m]
      BY <1>1 DEF HourFinal
    <2>1. Hour(m) \in Nat /\ Hour(clock) \in Nat /\ rolled \in Nat /\ m \in Nat /\ clock \in Nat
          /\ Window \in Nat /\ Window >= 2
      BY HourTypes DEF SamplesInv
    <2>2. CASE Hour(m) >= Hour(clock) - Window
      <3>1. m >= clock - KeepMinutes BY <2>1, <2>2, WindowKept
      <3>2. Pending(m) = NoRow
        <4>1. CASE acc.n = 0 BY <4>1 DEF SamplesInv, AccRecent, Pending
        <4>2. CASE acc.n # 0
          <5>1. Hour(accMinute) >= Hour(clock) - 1 BY <4>2, PendingRecent
          <5>2. m # accMinute BY <2>1, <5>1
          <5> QED BY <5>2 DEF Pending
        <4> QED BY <4>1, <4>2
      <3>3. minutes[m] = kept[m]
        <4>1. minutes[m] \in MinuteRow BY DEF SamplesInv, SamplesTypes
        <4> QED BY <3>1, <3>2, <4>1, PlusNoRow DEF SamplesInv, MinuteExact
      <3>4. Rolls(Hour(m)) BY <2>1, <2>2 DEF Rolls
      <3>5. CASE HasMinutes(Hour(m)) BY <1>2, <3>3, <3>4, <3>5
      <3>6. CASE ~HasMinutes(Hour(m))
        <4>1. minutes[m].n = 0
          <5>1. minutes[m].n \in Nat BY DEF SamplesInv, SamplesTypes, MinuteRow
          <5> QED BY <3>6, <5>1 DEF HasMinutes
        <4>2. hours[m] = NoRow /\ minutes[m] = NoRow
          BY <3>1, <4>1 DEF HourInv, RowsFromMinutes, EmptyRows
        <4> QED BY <1>2, <3>3, <3>6, <4>2
      <3> QED BY <3>5, <3>6
    <2>3. CASE Hour(m) < Hour(clock) - Window
      <3>1. ~Rolls(Hour(m)) BY <2>1, <2>3 DEF Rolls
      <3>2. Hour(m) < rolled - 1 BY <2>1, <2>3 DEF HourInv, RolledLately
      <3> QED BY <1>2, <3>1, <3>2 DEF HourInv, HourFinal
    <2> QED BY <2>1, <2>2, <2>3
  <1> QED BY <1>3, <1>4, <1>5, <1>6 DEF HourInv

LEMMA HourClock == ASSUME SamplesInv, HourInv, Clock PROVE HourInv'
  <1>1. UNCHANGED <<minutes, hours, rolled, kept>> /\ clock' = clock + 1 /\ Hour(clock + 1) < rolled + Window
    BY DEF Clock
  <1>2. clock \in Nat /\ rolled \in Nat /\ KeepMinutes \in Nat /\ KeepHours \in Nat
        /\ Hour(clock) \in Nat /\ Hour(clock + 1) \in Nat
    BY HourTypes, HourIsNat DEF SamplesInv
  <1>3. EmptyRows' BY <1>1 DEF HourInv, EmptyRows
  <1>4. RowsFromMinutes'
    <2> SUFFICES ASSUME NEW m \in Minutes, m >= clock' - KeepMinutes, minutes[m].n = 0
                 PROVE  hours[m] = NoRow
      BY <1>1 DEF RowsFromMinutes
    <2>1. m >= clock - KeepMinutes BY <1>1, <1>2, HourTypes DEF SamplesInv
    <2> QED BY <2>1 DEF HourInv, RowsFromMinutes
  <1>5. RolledLately'
    <2>1. Hour(clock) <= Hour(clock + 1) BY <1>2, HourMonotone
    <2>2. rolled <= Hour(clock + 1) BY <1>2, <2>1 DEF HourInv, RolledLately
    <2> QED BY <1>1, <2>2 DEF RolledLately
  <1>6. HourFinal'
    <2> SUFFICES ASSUME NEW m \in Minutes, Hour(m) < rolled - 1,
                        Hour(m) * HourLen >= clock' - KeepHours
                 PROVE  hours[m] = kept[m]
      BY <1>1 DEF HourFinal
    <2>1. Hour(m) * HourLen \in Int BY HourTypes, LengthsAssumption DEF SamplesInv
    <2>2. Hour(m) * HourLen >= clock - KeepHours BY <1>1, <1>2, <2>1
    <2> QED BY <2>2 DEF HourInv, HourFinal
  <1> QED BY <1>3, <1>4, <1>5, <1>6 DEF HourInv

LEMMA HourNext == SamplesInv /\ HourInv /\ [SamplesNext]_samplesVars => HourInv'
  <1> SUFFICES ASSUME SamplesInv, HourInv, [SamplesNext]_samplesVars PROVE HourInv' OBVIOUS
  <1>1. CASE \E t \in Minutes, v \in 0 .. MaxValue : Ingest(t, v) BY <1>1, HourIngest
  <1>2. CASE Disconnect \/ Stop BY <1>2, HourFlush DEF Disconnect, Stop
  <1>3. CASE Crash BY <1>3, HourCrash
  <1>4. CASE PruneRows BY <1>4, HourPrune
  <1>5. CASE Rollup BY <1>5, HourRollup
  <1>6. CASE Clock BY <1>6, HourClock
  <1>7. CASE HubStarts \/ UNCHANGED samplesVars
    BY <1>7 DEF HubStarts, samplesVars, HourInv, EmptyRows, RowsFromMinutes, RolledLately, HourFinal
  <1> QED BY <1>1, <1>2, <1>3, <1>4, <1>5, <1>6, <1>7 DEF SamplesNext

\* The row metrics.rollup writes for an hour is final once a rollup has run in
\* the second hour after it: for every length of the hour, the lateness ingest
\* accepts, the window and the retention that satisfy the assumptions.
THEOREM HourRowsFinal == SamplesSpec => []HourFinal
  <1>1. HourInv => HourFinal BY DEF HourInv
  <1> QED BY <1>1, InitInv, NextInv, HourInit, HourNext, PTL DEF SamplesSpec

-----------------------------------------------------------------------------
(***************************************************************************)
(* ChartWhole. An hour before rolled - 1 is final, so it has its row; a    *)
(* later one has its minutes, which the window keeps from the pruning. The *)
(* chart goes on with the minutes an hour after the last row, and that is  *)
(* not too late because no row is of an hour the rollup has not passed.    *)
(***************************************************************************)
RowsRolled == \A m \in Minutes : hours[m].n > 0 => Hour(m) < rolled

LEMMA RowsInit == SamplesInit => RowsRolled
  BY DEF SamplesInit, RowsRolled, NoRow

LEMMA RowsNext == SamplesInv /\ HourInv /\ RowsRolled /\ [SamplesNext]_samplesVars => RowsRolled'
  <1> SUFFICES ASSUME SamplesInv, HourInv, RowsRolled, [SamplesNext]_samplesVars PROVE RowsRolled' OBVIOUS
  <1>1. CASE Rollup
    <2> SUFFICES ASSUME NEW m \in Minutes, hours'[m].n > 0 PROVE Hour(m) < Hour(clock)
      BY <1>1 DEF RowsRolled, Rollup
    <2>1. hours'[m] = IF Rolls(Hour(m)) /\ HasMinutes(Hour(m)) THEN minutes[m] ELSE hours[m]
      BY <1>1 DEF Rollup
    <2>2. CASE Rolls(Hour(m)) BY <2>2 DEF Rolls
    <2>3. CASE ~Rolls(Hour(m))
      <3>1. Hour(m) < rolled /\ rolled <= Hour(clock)
        BY <2>1, <2>3 DEF RowsRolled, HourInv, RolledLately
      <3> QED BY <3>1, HourTypes DEF SamplesInv
    <2> QED BY <2>2, <2>3
  <1>2. CASE PruneRows
    <2>1. rolled' = rolled /\ \A m \in Minutes : hours'[m] = hours[m] \/ hours'[m] = NoRow
      BY <1>2 DEF PruneRows
    <2>2. ~(NoRow.n > 0) BY DEF NoRow
    <2> QED BY <2>1, <2>2 DEF RowsRolled
  <1>3. CASE UNCHANGED <<hours, rolled>> BY <1>3 DEF RowsRolled
  <1> QED BY <1>1, <1>2, <1>3 DEF SamplesNext, Ingest, Disconnect, Stop, Crash, HubStarts, Clock, samplesVars

\* The hours with a row in the range have a last one.
LEMMA LastRow ==
  ASSUME NEW S \in SUBSET Nat, NEW b \in Nat, \A h \in S : h <= b, S # {}
  PROVE  \E g \in S : \A h \in S : h <= g
  <1> DEFINE T == {b - h : h \in S}
  <1>1. T \in SUBSET Nat /\ T # {}
    <2>1. \A h \in S : b - h \in Nat OBVIOUS
    <2>2. \E h \in S : TRUE OBVIOUS
    <2>3. T \in SUBSET Nat BY <2>1, Zenon
    <2>4. T # {} BY <2>2, Zenon
    <2> QED BY <2>3, <2>4
  <1> HIDE DEF T
  <1>2. PICK x \in T : \A y \in T : ~(<<y, x>> \in OpToRel(<, Nat))
    <2> HIDE DEF OpToRel
    <2> QED BY <1>1, NatLessThanWellFounded, WFMin, Zenon
  <1>3. \A y \in T : x <= y
    <2>1. \A y \in T : ~(y < x) BY <1>1, <1>2 DEF OpToRel
    <2> QED BY <1>1, <2>1
  <1>4. PICK g \in S : x = b - g BY DEF T
  <1>5. ASSUME NEW h \in S PROVE h <= g
    <2>1. x <= b - h BY <1>3 DEF T
    <2> QED BY <1>4, <2>1
  <1> QED BY <1>5

\* A minute of the hours the rollup may still compute is an hour or more into
\* the range of the chart.
LEMMA WindowCharted ==
  ASSUME NEW m \in Nat, NEW n \in Nat, Hour(m) >= Hour(n) - Window
  PROVE  m >= (n - Span) + HourLen
  <1> DEFINE a == Hour(m)
             b == Hour(n)
  <1>1. a \in Nat /\ b \in Nat /\ a * HourLen <= m /\ n < b * HourLen + HourLen /\ a >= b - Window
    BY HourBounds
  <1> HIDE DEF a, b
  <1>2. a * HourLen >= (b - Window) * HourLen BY <1>1, Product, LengthsAssumption
  <1>3. (b - Window) * HourLen = b * HourLen - Window * HourLen BY <1>1, LengthsAssumption
  <1>4. (Window + 2) * HourLen = Window * HourLen + HourLen + HourLen BY LengthsAssumption
  <1>5. /\ a * HourLen \in Int /\ b * HourLen \in Int /\ Window * HourLen \in Int
        /\ HourLen \in Int /\ Span \in Int /\ Span >= Window * HourLen + HourLen + HourLen
    BY <1>1, <1>4, LengthsAssumption, WindowAssumption
  <1> QED BY <1>1, <1>2, <1>3, <1>5

\* The minutes of the chart begin no later than an hour the rollup may still
\* compute, unless that hour has its row.
LEMMA RestInTime ==
  ASSUME SamplesInv, HourInv, RowsRolled, NEW m \in Minutes, Hour(m) >= rolled - 1,
         Hour(m) \notin HourRows(clock - Span)
  PROVE  RestFrom(clock - Span) <= m
  <1> DEFINE s == clock - Span
             R == HourRows(s)
  <1>1. m \in Nat /\ Hour(m) \in Nat /\ clock \in Nat /\ rolled \in Nat /\ Hour(clock) \in Nat
        /\ Window \in Nat /\ HourLen \in Nat /\ s \in Int
    BY HourTypes, LengthsAssumption DEF SamplesInv
  <1>2. CASE R = {}
    <2>1. Hour(m) >= Hour(clock) - Window BY <1>1 DEF HourInv, RolledLately
    <2>2. m >= s + HourLen BY <1>1, <2>1, WindowCharted
    <2>3. RestFrom(s) = s + HourLen BY <1>2 DEF RestFrom
    <2> QED BY <1>1, <2>2, <2>3
  <1>3. CASE R # {}
    <2>1. \A h \in R : h \in Nat /\ h < rolled
      <3> SUFFICES ASSUME NEW h \in R PROVE h \in Nat /\ h < rolled OBVIOUS
      <3>1. PICK i \in Minutes : Hour(i) = h /\ hours[i].n > 0 BY DEF HourRows
      <3> QED BY <3>1, HourTypes DEF SamplesInv, RowsRolled
    <2>2. \E g \in R : \A h \in R : h <= g
      <3> HIDE DEF R
      <3>1. R \in SUBSET Nat /\ \A h \in R : h <= rolled BY <1>1, <2>1
      <3> QED BY <1>1, <1>3, <3>1, LastRow
    <2> DEFINE g == CHOOSE h \in R : \A k \in R : k <= h
    <2>3. g \in R BY <2>2
    <2>4. RestFrom(s) = g * HourLen + HourLen BY <1>3 DEF RestFrom
    <2> HIDE DEF g
    <2>5. g \in Nat /\ g < rolled /\ g # Hour(m) BY <2>1, <2>3
    <2>6. Hour(m) >= g + 1 BY <1>1, <2>5
    <2>7. Hour(m) * HourLen >= (g + 1) * HourLen BY <1>1, <2>5, <2>6, Product
    <2>8. (g + 1) * HourLen = g * HourLen + HourLen BY <1>1, <2>5
    <2>9. Hour(m) * HourLen <= m /\ Hour(m) * HourLen \in Int /\ g * HourLen \in Int
      BY <1>1, <2>5, HourBounds
    <2> QED BY <1>1, <2>4, <2>7, <2>8, <2>9
  <1> QED BY <1>2, <1>3

LEMMA ChartFromRows == ASSUME SamplesInv, HourInv, RowsRolled PROVE ChartWhole
  <1> DEFINE s == clock - Span
  <1> SUFFICES ASSUME NEW m \in Minutes, kept[m].n > Pending(m).n, Hour(m) * HourLen >= s
               PROVE  Hour(m) \in Charted
    BY DEF ChartWhole
  <1>1. m \in Nat /\ Hour(m) \in Nat /\ clock \in Nat /\ rolled \in Nat /\ Hour(clock) \in Nat
        /\ Window \in Nat /\ KeepHours \in Nat /\ Span \in Nat /\ Hour(m) * HourLen \in Int
    BY HourTypes, LengthsAssumption DEF SamplesInv
  <1>2. minutes[m] \in MinuteRow /\ kept[m] \in MinuteRow /\ Pending(m) \in MinuteRow
    BY NoRowIsRow DEF SamplesInv, SamplesTypes, Pending
  <1>3. minutes[m].n \in Nat /\ kept[m].n \in Nat /\ Pending(m).n \in Nat BY <1>2 DEF MinuteRow
  <1>4. CASE Hour(m) < rolled - 1
    <2>1. Hour(m) * HourLen >= clock - KeepHours BY <1>1, WindowAssumption
    <2>2. hours[m] = kept[m] BY <1>4, <2>1 DEF HourInv, HourFinal
    <2>3. hours[m].n > 0 BY <1>3, <2>2
    <2>4. Hour(m) \in HourRows(s) BY <2>3 DEF HourRows
    <2> QED BY <2>4 DEF Charted
  <1>5. CASE Hour(m) >= rolled - 1
    <2>1. Hour(m) >= Hour(clock) - Window BY <1>1, <1>5 DEF HourInv, RolledLately
    <2>2. m >= clock - KeepMinutes BY <1>1, <2>1, WindowKept
    <2>3. Plus(minutes[m], Pending(m)) = kept[m] BY <2>2 DEF SamplesInv, MinuteExact
    <2>4. minutes[m].n + Pending(m).n = kept[m].n BY <2>3 DEF Plus
    <2>5. minutes[m].n > 0 BY <1>3, <2>4
    <2>6. CASE Hour(m) \in HourRows(s) BY <2>6 DEF Charted
    <2>7. CASE Hour(m) \notin HourRows(s)
      <3>1. RestFrom(s) <= m BY <1>5, <2>7, RestInTime
      <3>2. m \in {i \in Minutes : i >= RestFrom(s) /\ minutes[i].n > 0} BY <2>5, <3>1
      <3> QED BY <3>2 DEF Charted
    <2> QED BY <2>6, <2>7
  <1> QED BY <1>1, <1>4, <1>5

\* The long chart metrics.series draws has no hole, also while the rollup lags
\* behind and after the minutes are pruned.
THEOREM ChartStaysWhole == SamplesSpec => []ChartWhole
  <1>1. SamplesInv /\ HourInv /\ RowsRolled => ChartWhole BY ChartFromRows
  <1> QED BY <1>1, InitInv, NextInv, HourInit, HourNext, RowsInit, RowsNext, PTL DEF SamplesSpec
=============================================================================
