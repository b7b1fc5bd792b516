---------------------------- MODULE MCWeeklyJobs ----------------------------
(***************************************************************************)
(* Model values for WeeklyJobs: two Saturdays, the first with a window     *)
(* long enough for all three attempts at a job, the second so short that   *)
(* a job can be late; jobs of the first may outlive their day.             *)
(***************************************************************************)
EXTENDS WeeklyJobs

CONSTANT a1

Delays == <<1, 2>>

\* The clock is at date 6 (a Saturday) up to 4, then on Sunday, Saturday and Sunday.
MCDates == [c \in 0..7 |-> CASE c <= 4 -> 6 [] c = 5 -> 7 [] c = 6 -> 13 [] c = 7 -> 14]
MCOpen  == [c \in 0..7 |-> c \in {1, 2, 3, 4, 6}]
=============================================================================
