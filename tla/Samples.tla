------------------------------- MODULE Samples -------------------------------
(***************************************************************************)
(* The history of one server on the hub: samples accumulated in memory     *)
(* (live.py), one row per minute in samples_1m, one row per hour in        *)
(* samples_1h (metrics.py), and the long chart drawn from both tables.     *)
(* Late and misdated samples, reconnects, the rollup and pruning of the    *)
(* ticker, orderly stops and crashes of the hub come in any order.         *)
(*                                                                         *)
(* The clock counts minutes. A row of samples_1m is the number of samples  *)
(* averaged in it and their total (its average times n; the rounding to    *)
(* two digits is left out), n = 0 standing for no row. An hour's row is    *)
(* AVG over minute rows: it is kept as the minute rows it was computed     *)
(* from. Rows of different servers never meet, so one server is enough.    *)
(***************************************************************************)
EXTENDS Integers

CONSTANTS
    HourLen,     \* minutes in an hour
    Late,        \* ingest trusts a sample up to Late minutes old (900 s) ...
    Ahead,       \* ... or Ahead minutes in the future (60 s)
    Window,      \* complete hours rolled up each time (6)
    KeepMinutes, \* keep_minutes_days, in minutes
    KeepHours,   \* keep_hours_days, in minutes
    Span,        \* the range of the long chart (7 or 30 days), in minutes
    MaxValue,    \* bound: readings are 0..MaxValue
    LastMinute,  \* bound: the clock stops here
    MaxSamples   \* bound: samples received

ASSUME LengthsAssumption ==
    /\ HourLen \in Nat \ {0} /\ Window \in Nat \ {0, 1}
    /\ Late \in Nat /\ Ahead \in Nat
    /\ KeepMinutes \in Nat /\ KeepHours \in Nat /\ Span \in Nat
    /\ MaxValue \in Nat /\ LastMinute \in Nat /\ MaxSamples \in Nat

\* The window is reached by no pruning, and late samples do not outrun it:
\* 15 days against 6 hours, 15 minutes against 6 hours.
ASSUME WindowAssumption ==
    /\ KeepMinutes >= (Window + 1) * HourLen
    /\ Late < HourLen /\ Late < KeepMinutes
    /\ Span >= (Window + 2) * HourLen /\ KeepHours >= Span

Minutes   == 0 .. LastMinute + Ahead
MinuteRow == [n : Nat, cpu : Nat]
NoRow     == [n |-> 0, cpu |-> 0]
Hour(m)   == m \div HourLen

VARIABLES
    clock,     \* the clock of the hub
    up,        \* the hub is running
    accMinute, \* lv.acc_minute
    acc,       \* lv.acc_n and lv.acc
    minutes,   \* samples_1m
    hours,     \* samples_1h: per minute, the row that entered its hour's average
    rolled,    \* the hour in which rollup ran last
    heard,     \* a sample came in this minute
    count,     \* samples received
    kept       \* history: per minute, all samples received but for those a crash took

samplesVars == <<clock, up, accMinute, acc, minutes, hours, rolled, heard, count, kept>>

SamplesInit ==
    /\ clock = 0 /\ up = TRUE /\ accMinute = 0 /\ acc = NoRow
    /\ minutes = [m \in Minutes |-> NoRow]
    /\ hours = [m \in Minutes |-> NoRow]
    /\ rolled = 0 /\ heard = FALSE /\ count = 0
    /\ kept = [m \in Minutes |-> NoRow]

Plus(r, s)  == [n |-> r.n + s.n, cpu |-> r.cpu + s.cpu]
Minus(r, s) == [n |-> r.n - s.n, cpu |-> r.cpu - s.cpu]

-----------------------------------------------------------------------------
(***************************************************************************)
(* live.py                                                                 *)
(***************************************************************************)

\* Mutant: the row of the minute is replaced.
M_Flushed == IF acc.n = 0 THEN minutes ELSE [minutes EXCEPT ![accMinute] = acc]

\* The table after flush: an existing row is merged, weighted by n.
Flushed == IF acc.n = 0 THEN minutes ELSE [minutes EXCEPT ![accMinute] = Plus(@, acc)]

\* Mutant: what an agent says is trusted.
M_Dated(t) == t

\* The minute a sample dated t by its agent is counted in.
Dated(t) == IF t > clock + Ahead \/ t < clock - Late THEN clock ELSE t

\* ingest and _accumulate: another minute than the accumulated one writes
\* that one first.
Ingest(t, v) ==
    LET minute == Dated(t)
        one    == [n |-> 1, cpu |-> v]
        turn   == acc.n # 0 /\ minute # accMinute
    IN /\ up /\ count < MaxSamples
       /\ minutes' = IF turn THEN Flushed ELSE minutes
       /\ acc' = IF turn THEN one ELSE Plus(acc, one)
       /\ accMinute' = minute
       /\ kept' = [kept EXCEPT ![minute] = Plus(@, one)]
       /\ heard' = TRUE /\ count' = count + 1
       /\ UNCHANGED <<clock, up, hours, rolled>>

\* The end of the agent's connection: agent_ws flushes.
Disconnect ==
    /\ up /\ acc.n # 0
    /\ minutes' = Flushed /\ acc' = NoRow
    /\ UNCHANGED <<clock, up, accMinute, hours, rolled, heard, count, kept>>

-----------------------------------------------------------------------------
(***************************************************************************)
(* metrics.py, called by the ticker.                                       *)
(***************************************************************************)

\* The hours a rollup computes.
Rolls(h) == Hour(clock) - Window <= h /\ h < Hour(clock)

HasMinutes(h) == \E m \in Minutes : Hour(m) = h /\ minutes[m].n > 0

\* INSERT OR REPLACE ... GROUP BY: hours without a minute row keep theirs.
Rollup ==
    /\ up
    /\ hours' = [m \in Minutes |-> IF Rolls(Hour(m)) /\ HasMinutes(Hour(m))
                                   THEN minutes[m] ELSE hours[m]]
    /\ rolled' = Hour(clock)
    /\ UNCHANGED <<clock, up, accMinute, acc, minutes, heard, count, kept>>

\* Two of the DELETEs of prune.
PruneRows ==
    /\ up
    /\ minutes' = [m \in Minutes |-> IF m < clock - KeepMinutes THEN NoRow ELSE minutes[m]]
    /\ hours' = [m \in Minutes |-> IF Hour(m) * HourLen < clock - KeepHours THEN NoRow ELSE hours[m]]
    /\ UNCHANGED <<clock, up, accMinute, acc, rolled, heard, count, kept>>

\* The hour rows of the chart since s.
HourRows(s) == {h \in {Hour(m) : m \in Minutes} :
                  h * HourLen >= s /\ \E m \in Minutes : Hour(m) = h /\ hours[m].n > 0}

\* Mutant: the rest is taken to begin with the current hour.
M_RestFrom(s) == Hour(clock) * HourLen

\* Where series goes on with the minutes: an hour after its last row, or
\* after the start of the range if it has none.
RestFrom(s) ==
    LET shown == HourRows(s)
    IN (IF shown = {} THEN s ELSE (CHOOSE h \in shown : \A g \in shown : g <= h) * HourLen) + HourLen

\* series: the hours on the long chart.
Charted ==
    LET s    == clock - Span
        rest == RestFrom(s)
    IN HourRows(s) \cup {Hour(m) : m \in {i \in Minutes : i >= rest /\ minutes[i].n > 0}}

-----------------------------------------------------------------------------
(***************************************************************************)
(* The hub's process, and time.                                            *)
(***************************************************************************)

\* Mutant: the accumulator is not reset by a flush.
M_Stop ==
    /\ up /\ up' = FALSE
    /\ minutes' = Flushed
    /\ UNCHANGED <<clock, accMinute, acc, hours, rolled, heard, count, kept>>

\* The end of lifespan: flush_all, then the database is closed.
Stop ==
    /\ up /\ up' = FALSE
    /\ minutes' = Flushed /\ acc' = NoRow
    /\ UNCHANGED <<clock, accMinute, hours, rolled, heard, count, kept>>

\* The process dies, and with it the samples not yet written.
Crash ==
    /\ up /\ up' = FALSE
    /\ acc' = NoRow
    /\ kept' = [kept EXCEPT ![accMinute] = Minus(@, acc)]
    /\ UNCHANGED <<clock, accMinute, minutes, hours, rolled, heard, count>>

HubStarts ==
    /\ ~up /\ up' = TRUE
    /\ UNCHANGED <<clock, accMinute, acc, minutes, hours, rolled, heard, count, kept>>

(***************************************************************************)
(* A minute passes. Two assumptions on the environment: an agent that is   *)
(* silent for a minute has been disconnected (it samples every few seconds *)
(* and the socket is pinged), and the ticker, which rolls up every ten     *)
(* minutes, never pauses for as long as the window (the hub is not down    *)
(* for five hours on end).                                                 *)
(***************************************************************************)
Clock ==
    /\ clock < LastMinute
    /\ acc.n # 0 => heard
    /\ Hour(clock + 1) < rolled + Window
    /\ clock' = clock + 1 /\ heard' = FALSE
    /\ UNCHANGED <<up, accMinute, acc, minutes, hours, rolled, count, kept>>

SamplesNext ==
    \/ \E t \in Minutes, v \in 0 .. MaxValue : Ingest(t, v)
    \/ Disconnect \/ Rollup \/ PruneRows \/ Stop \/ Crash \/ HubStarts \/ Clock

SamplesSpec == SamplesInit /\ [][SamplesNext]_samplesVars

-----------------------------------------------------------------------------
(***************************************************************************)
(* Properties.                                                             *)
(***************************************************************************)

\* The type of every variable; samples accumulate only in a running hub.
SamplesTypes ==
    /\ clock \in Nat /\ up \in BOOLEAN /\ heard \in BOOLEAN
    /\ accMinute \in Minutes /\ acc \in MinuteRow
    /\ minutes \in [Minutes -> MinuteRow] /\ hours \in [Minutes -> MinuteRow]
    /\ kept \in [Minutes -> MinuteRow]
    /\ rolled \in Nat /\ count \in Nat
    /\ acc.n # 0 => up

\* What waits in memory for the row of minute m.
Pending(m) == IF m = accMinute THEN acc ELSE NoRow

\* Every sample is averaged in its minute exactly once, whatever the order of
\* late samples, reconnects, restarts and pruning: the row and what waits for
\* it are all that came for this minute, but for what a crash took.
MinuteExact ==
    \A m \in Minutes : m >= clock - KeepMinutes => Plus(minutes[m], Pending(m)) = kept[m]

\* The minutes are right, in the memory of the hub and in its table. (With the
\* types: nothing waits in the memory of a hub that is down.)
MinutesRight == SamplesTypes /\ MinuteExact

\* The row of an hour is final once the rollup has run in the second hour
\* after it: it averages every sample of that hour, the late ones too, although
\* the rollup only ever computes the last Window hours and may lag.
HourFinal ==
    \A m \in Minutes :
        Hour(m) < rolled - 1 /\ Hour(m) * HourLen >= clock - KeepHours => hours[m] = kept[m]

\* The long chart has no hole: each hour of its range with a written minute is
\* on it, through its hour row or through its minutes, also while the rollup
\* lags behind and after the minutes are pruned.
ChartWhole ==
    LET charted == Charted
    IN \A m \in Minutes :
          kept[m].n > Pending(m).n /\ Hour(m) * HourLen >= clock - Span => Hour(m) \in charted
=============================================================================
