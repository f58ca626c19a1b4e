------------------------------- MODULE NextRun -------------------------------
(***************************************************************************)
(* When a backup plan is due (hub/icsd_hub/backups.py next_run). Time is   *)
(* counted from a midnight in Tehran (a fixed offset, no DST), HourLen     *)
(* units to the hour.                                                      *)
(***************************************************************************)
EXTENDS Integers

CONSTANT HourLen

ASSUME HourAssumption == HourLen \in Nat \ {0}

DayLen == 24 * HourLen

\* The latest start hour that is not after `after`: today's or yesterday's.
Anchor(start_hour, after) ==
    LET today == (after \div DayLen) * DayLen + (start_hour % 24) * HourLen
    IN IF today > after THEN today - DayLen ELSE today

Step(every_hours) == (IF every_hours < 1 THEN 1 ELSE every_hours) * HourLen

\* Mutant: the step is added to the moment of the call, not to the anchor.
M_NextRunDrifts(every_hours, start_hour, after) == after + Step(every_hours)

\* Mutant: the loop ends one step early, at a time that may be now.
M_NextRunEarly(every_hours, start_hour, after) ==
    LET loop[t \in Int] == IF t < after THEN loop[t + Step(every_hours)] ELSE t
    IN loop[Anchor(start_hour, after)]

\* `while t <= after: t += step`, from the anchor on.
NextRunAt(every_hours, start_hour, after) ==
    LET loop[t \in Int] == IF t <= after THEN loop[t + Step(every_hours)] ELSE t
    IN loop[Anchor(start_hour, after)]
=============================================================================
