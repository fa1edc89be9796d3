---------------------------- MODULE AttendanceDay ----------------------------
(***************************************************************************)
(* What the attendance of one date promises, without handlers, copies of   *)
(* rows or transactions: per employee the earliest connect and the latest  *)
(* disconnect heard so far, to the second, and the clock-in queued, its    *)
(* fraction cut off, at the moment a connect became the earliest.          *)
(***************************************************************************)
EXTENDS Naturals

CONSTANTS Employees, Times, NoTime,
  Rounded(_),     \* a time as a record keeps it
  Truncated(_)    \* a time as a report tells it

VARIABLES first, last, queued

dayVars == <<first, last, queued>>

DayInit ==
  /\ first = [emp \in Employees |-> NoTime]
  /\ last = [emp \in Employees |-> NoTime]
  /\ queued = {}

\* A connect earlier than any other becomes the clock-in and is queued
Connect(emp, time) ==
  /\ first[emp] = NoTime \/ time < first[emp]
  /\ first' = [first EXCEPT ![emp] = Rounded(time)]
  /\ queued' = queued \cup {<<emp, Truncated(time)>>}
  /\ UNCHANGED last

\* A disconnect later than any other becomes the candidate for the clock-out
Disconnect(emp, time) ==
  /\ last[emp] = NoTime \/ time > last[emp]
  /\ last' = [last EXCEPT ![emp] = Rounded(time)]
  /\ UNCHANGED <<first, queued>>

DayNext ==
  \E emp \in Employees, time \in Times : Connect(emp, time) \/ Disconnect(emp, time)

DaySpec == DayInit /\ [][DayNext]_dayVars
=============================================================================
