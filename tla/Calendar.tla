------------------------------ MODULE Calendar ------------------------------
(***************************************************************************)
(* When a schedule is due: its recurrence, read by the clock on the wall   *)
(* of its time zone, which goes forward or back now and then.  Time is     *)
(* counted in moments of UTC; a day on the wall has DayLength of them.     *)
(***************************************************************************)
EXTENDS Integers, Sequences, FiniteSets, FiniteSetsExt

CONSTANTS
    DayLength, WeekLength,  \* moments of a day, days of a week
    LookAhead,          \* how far a time that is skipped is looked for (180 minutes)
    Window,             \* how far the next occurrence is looked for (370 days)
    Rules, Shifts,      \* recurrences, and what a zone adds to its clock
    ChangesAt, Starts,  \* moments at which a zone may do so, and a schedule be made
    MaxFired

ASSUME CalendarAssumption ==
    /\ {DayLength, WeekLength, LookAhead, Window} \subseteq Nat \ {0} /\ MaxFired \in Nat
    /\ LookAhead < DayLength
    /\ Shifts \subseteq -LookAhead .. LookAhead /\ ChangesAt \subseteq Nat /\ Starts \subseteq Nat
    /\ \A rule \in Rules :
          IF rule.kind = "one_shot" THEN rule.moment \in Nat ELSE rule.time \in 0 .. DayLength - 1

VARIABLES
    zone,               \* when its clock changes, and by how much
    recurrence,
    start, last,        \* when the schedule was made, and when it was last due
    fired               \* the dates it was due for

calendarVars == <<zone, recurrence, start, last, fired>>

CalendarTypeOK ==
    /\ zone \in [at : ChangesAt, by : Shifts] /\ recurrence \in Rules
    /\ start \in Starts /\ last >= start /\ Len(fired) <= MaxFired

CalendarInit ==
    /\ zone \in [at : ChangesAt, by : Shifts] /\ recurrence \in Rules
    /\ start \in Starts /\ last = start /\ fired = <<>>

\* What the clock on the wall shows; and the moments at which it shows something.
Wall(moment) == IF moment < zone.at THEN moment ELSE moment + zone.by
Moments(wall) == {moment \in {wall, wall - zone.by} : Wall(moment) = wall}
DateOf(moment) == Wall(moment) \div DayLength

\* resolve_local: of two the earlier; of none, that of the next time there is
ResolveLocal(wall) ==
    LET skipped == Min({n \in 0 .. LookAhead : Moments(wall + n) # {}})
    IN  Min(Moments(wall + skipped))

\* local_time_on, and validate_recurrence of the intervals and anchors
OccursOn(date) ==
    CASE recurrence.kind = "daily" -> TRUE
      [] recurrence.kind = "weekly" -> date % WeekLength = recurrence.weekday
      [] recurrence.kind = "every_n_days" ->
            date >= recurrence.anchor /\ (date - recurrence.anchor) % recurrence.interval = 0
      [] OTHER -> FALSE

At(date) == ResolveLocal(date * DayLength + recurrence.time)

\* due_between: date after date, and of each date what is inside the window
DatesDue(after, through) ==
    {date \in DateOf(after) .. DateOf(through) :
        OccursOn(date) /\ At(date) > after /\ At(date) <= through}

OneShotDue(after, through) ==
    recurrence.kind = "one_shot" /\ recurrence.moment > after /\ recurrence.moment <= through

\* next_after: the first date of what is due
Fire ==
    /\ Len(fired) < MaxFired
    /\ \/ /\ OneShotDue(last, last + Window)
          /\ last' = recurrence.moment /\ fired' = Append(fired, DateOf(recurrence.moment))
       \/ LET dates == DatesDue(last, last + Window)
          IN  /\ dates # {}
              /\ last' = At(Min(dates)) /\ fired' = Append(fired, Min(dates))
    /\ UNCHANGED <<zone, recurrence, start>>

CalendarNext == Fire

\* The first moment at which the clock on the wall has come to a time.
Reached(wall) == Min({moment \in wall - LookAhead .. wall + LookAhead : Wall(moment) >= wall})

\* A schedule is due once for each of its dates, in order, the first time the clock
\* has come to its time that day, although the clock skips the time, shows it twice,
\* or changes its date with it.
EachDateIsDueOnce ==
    LET dates == {date \in DateOf(start) - 1 .. DateOf(last) + 1 :
                    OccursOn(date) /\ Reached(date * DayLength + recurrence.time) \in start + 1 .. last}
    IN  IF recurrence.kind = "one_shot"
        THEN Len(fired) = IF start < recurrence.moment /\ recurrence.moment <= last THEN 1 ELSE 0
        ELSE /\ {fired[n] : n \in DOMAIN fired} = dates
             /\ \A n \in 2 .. Len(fired) : fired[n - 1] < fired[n]
=============================================================================
