--------------------------- MODULE WorkingCalendar ---------------------------
(***************************************************************************)
(* The due date of a job and the windows of its stages, from the shop's    *)
(* working time: jobs/timing.py over the configuration of                  *)
(* jobs/timing_config.py, and the due date timing_services.py places when  *)
(* a quote is accepted.                                                    *)
(*                                                                         *)
(* An instant is a number of ticks since a Monday midnight of the shop's   *)
(* time zone, which has no summer time.  Hours are ticks, too.             *)
(***************************************************************************)
EXTENDS Integers, Sequences, FiniteSets

CONSTANTS Day,       \* ticks of a day
          Minute,    \* ticks of a minute
          Opens,     \* WORK_DAY_START
          Closes,    \* WORK_DAY_END
          Holidays,  \* the days, counted from day 0, nobody works
          Sla,       \* sla_working_hours of the stages, in STAGES' order
          Buffer,    \* DUE_DATE_BUFFER_WORKING_HOURS
          Starts,    \* bound: instants at which a quote is accepted
          Spans      \* bound: working times to add

ASSUME CalendarAssumption ==
    /\ {Day, Minute} \subseteq Nat \ {0}
    /\ Opens \in Nat /\ Closes \in Nat /\ Opens < Closes /\ Closes < Day
    /\ Holidays \subseteq Nat /\ IsFiniteSet(Holidays)
    /\ Sla \in Seq(Nat \ {0}) /\ Sla # <<>> /\ Buffer \in Nat
    /\ Starts \subseteq Nat /\ Spans \subseteq Nat

Unset == -1     \* a date or an event that is null: no instant

-----------------------------------------------------------------------------
(* Working time *)

DayOf(t) == t \div Day
Clock(t) == t % Day
At(day, clock) == day * Day + clock

\* Saturday and Sunday are days 5 and 6 of a week.
IsWorkingDay(day) == day % 7 \in 0 .. 4 /\ day \notin Holidays

\* The loop goes on from the opening of the next day.
NextWorkingInstant[t \in Nat] ==
    IF ~IsWorkingDay(DayOf(t)) \/ Clock(t) >= Closes
      THEN NextWorkingInstant[At(DayOf(t) + 1, Opens)]
      ELSE IF Clock(t) < Opens THEN At(DayOf(t), Opens) ELSE t

\* Mutant: a span that ends with the day runs into the next one.
RunsOver[task \in Nat \X Nat] ==
    LET cursor    == task[1]
        left      == task[2]
        dayEnd    == At(DayOf(cursor), Closes)
        available == dayEnd - cursor
    IN  IF available > left THEN cursor + left
        ELSE RunsOver[<<NextWorkingInstant[dayEnd + 1], left - available>>]

\* A task is the cursor and the hours left: what is left of the day is used up first.
WorkOff[task \in Nat \X Nat] ==
    LET cursor    == task[1]
        left      == task[2]
        dayEnd    == At(DayOf(cursor), Closes)
        available == dayEnd - cursor
    IN  IF available >= left THEN cursor + left
        ELSE WorkOff[<<NextWorkingInstant[dayEnd + 1], left - available>>]

RunOver(start, hours) ==
    IF hours = 0 THEN start ELSE RunsOver[<<NextWorkingInstant[start], hours>>]

AddWorkingHours(start, hours) ==
    IF hours = 0 THEN start ELSE WorkOff[<<NextWorkingInstant[start], hours>>]

-----------------------------------------------------------------------------
(* Stages and due dates *)

Stages == DOMAIN Sla

\* The working hours of the first i stages.
SlaUpTo[i \in 0 .. Len(Sla)] == IF i = 0 THEN 0 ELSE SlaUpTo[i - 1] + Sla[i]

ComputeDueDate(start) == AddWorkingHours(start, SlaUpTo[Len(Sla)] + Buffer)

\* Each window starts where the one before it ends.
StageEnds(start) ==
    LET end[i \in 0 .. Len(Sla)] == IF i = 0 THEN start ELSE AddWorkingHours(end[i - 1], Sla[i])
    IN  end

StageWindows(start) ==
    LET end == StageEnds(start) IN [i \in Stages |-> [start |-> end[i - 1], end |-> end[i]]]

\* set_due_date_at_acceptance: a due date that is there is kept.
DueDateAtAcceptance(placed, acceptedAt) ==
    IF placed # Unset THEN placed ELSE ComputeDueDate(acceptedAt)

WholeMinutes(from, to) == IF to < from THEN 0 ELSE (to - from) \div Minute

\* stage_timeline: a completed stage is judged by the minutes it took, all of
\* them, against its working minutes; another one by its window.
StageOverdue(i, window, completedAt, now) ==
    IF completedAt # Unset
      THEN WholeMinutes(window.start, completedAt) > Sla[i] \div Minute
      ELSE window.start <= now /\ now > window.end

\* is_late of job_timing, which knows whole minutes, and of stage_timeline.
LateByMinutes(dueAt, now) == WholeMinutes(dueAt, now) > 0
LateAtAll(dueAt, now) == now > dueAt

-----------------------------------------------------------------------------
(* Properties *)

IsWorking(t) == IsWorkingDay(DayOf(t)) /\ Opens <= Clock(t) /\ Clock(t) < Closes

\* The reference: working time is counted tick by tick.
WorkedBetween(from, to) == Cardinality({t \in from .. (to - 1) : IsWorking(t)})

\* The sums that are not exactly working time with the last of it worked.
WrongSums ==
    {sum \in Starts \X Spans :
       LET end == AddWorkingHours(sum[1], sum[2]) IN
       ~ /\ WorkedBetween(sum[1], end) = sum[2]
         /\ sum[2] = 0 \/ IsWorking(end - 1)}

\* A second acceptance keeps the due date of the first, while the stages of its
\* job are counted from the second: they should end by the due date exactly if
\* the working time between the two fits the buffer.
WrongDueDates ==
    {pair \in Starts \X Starts :
       /\ pair[1] <= pair[2]
       /\ LET kept == DueDateAtAcceptance(DueDateAtAcceptance(Unset, pair[1]), pair[2])
              last == StageWindows(pair[2])[Len(Sla)].end
          IN  (last <= kept) # (WorkedBetween(pair[1], pair[2]) <= Buffer)}

\* A stage completed a minute or more after its window should be overdue, as one
\* under way whose window is over; the two lateness answers should differ for
\* less than a minute.
WrongLateness ==
    {stage \in Starts \X Stages :
       LET window == StageWindows(stage[1])[stage[2]] IN
       \E t \in window.start .. (window.end + Day) :
          ~ /\ t >= window.end + Minute => StageOverdue(stage[2], window, t, t)
            /\ StageOverdue(stage[2], window, Unset, t) <=> t > window.end
            /\ LateByMinutes(window.end, t) => LateAtAll(window.end, t)
            /\ LateAtAll(window.end, t) => t < window.end + Minute \/ LateByMinutes(window.end, t)}

\* Due dates, stage windows and lateness agree with the working time they are
\* made of, over week ends, holidays and the edges of a working day.
CalendarIsSound == WrongSums = {} /\ WrongDueDates = {} /\ WrongLateness = {}
=============================================================================
