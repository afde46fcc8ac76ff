-------------------------- MODULE MCJobFulfilment --------------------------
(* Model checking of JobFulfilment, and of the calendar its due date comes  *)
(* from.                                                                    *)
EXTENDS JobFulfilment, WorkingCalendar, TLC

RequestSymmetry == Permutations(Requests)

\* A day of 12 ticks of which 4 are worked, and five stages that last as many
\* days as the shop's (four hours to four days); the job is accepted at any tick
\* of two weeks, with a week end made longer by a Friday and a Monday.
ShopSla    == <<2, 5, 16, 3, 6>>
ShopStarts == 0 .. 167
ShopSpans  == 0 .. 20

\* A job whose due date is set (timing_services.py:86, :98) has one that agrees,
\* like the windows of its stages and the answers whether it is late, with the
\* working time of its stages, wherever the acceptance falls among week ends,
\* holidays and the edges of a working day, and where it is a second one.
DueDatesKeepWorkingTime == due => CalendarIsSound
=============================================================================
