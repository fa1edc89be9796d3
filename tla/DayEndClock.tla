---------------------------- MODULE DayEndClock ----------------------------
(***************************************************************************)
(* When the day end runs: DayEndDispatcher polls once a minute, reads the  *)
(* clock twice and the cutoff from the settings, and finalizes the day     *)
(* once the cutoff has passed and no run of the day is recorded.  What     *)
(* finalizing does to the records is Attendance.tla's DayEnd.              *)
(*                                                                         *)
(* Time is counted in minutes; days have MinutesPerDay of them.            *)
(***************************************************************************)
EXTENDS Settings

CONSTANTS
  MinutesPerDay,
  LastMinute,   \* bound: the clock stops here, in a day's last minute
  Blank,        \* a day_end_time that is empty or white space
  Invalid       \* one that is not a time of day

\* What day_end_time may be: "15:04" gives a minute of a day
DayEndTimes == 0..(MinutesPerDay - 1) \cup {Blank, Invalid}

ASSUME ClockAssumption ==
  /\ MinutesPerDay \in Nat \ {0}
  /\ LastMinute \in Nat
  /\ Blank \notin Nat /\ Invalid \notin Nat /\ Blank # Invalid
  /\ Seeds[DayEndTime] \in DayEndTimes
  /\ DayEndTime \in DOMAIN OldSettings => OldSettings[DayEndTime] \in DayEndTimes
  /\ \A items \in Updates : \A i \in DOMAIN items :
       items[i].key = DayEndTime => items[i].value \in DayEndTimes

VARIABLES
  now,          \* the clock
  due,          \* the ticker's channel, which holds one tick
  poll,         \* what RunOnce is doing
  runs          \* day_end_runs: a function from days

clockVars == <<now, due, poll, runs>>

Day(t) == t \div MinutesPerDay
MinuteOf(t) == t % MinutesPerDay

NoPoll == [pc |-> "idle", now |-> 0, cutoff |-> Blank]

ClockInit ==
  /\ now = 0
  /\ due = FALSE
  /\ poll = NoPoll
  /\ runs = [d \in {} |-> 0]

\* The default is the day's last minute, 23:59
DefaultDayEndTime == MinutesPerDay - 1

\* GetByKey, trimmed; a missing row or a blank value leaves the default
CutoffText ==
  IF DayEndTime \notin DOMAIN settings \/ settings[DayEndTime] = Blank
    THEN DefaultDayEndTime
    ELSE settings[DayEndTime]

-----------------------------------------------------------------------------
\* The clock stops at its bound and the ticker goes on
Tick ==
  /\ now' = IF now < LastMinute THEN now + 1 ELSE now
  /\ UNCHANGED <<poll, runs>>

\* RunOnce's own reading of the clock
ReadClock ==
  /\ poll.pc = "idle"
  /\ due
  /\ due' = FALSE
  /\ poll' = [NoPoll EXCEPT !.pc = "cutoff", !.now = now]
  /\ UNCHANGED <<now, runs>>

\* loadCutoffTime reads it again, for the cutoff's day, and the setting
Cutoff == Day(now) * MinutesPerDay + CutoffText

\* Mutant: the run waits until after the cutoff's minute
BeforeOrAtCutoff == poll.now <= Cutoff

BeforeCutoff == poll.now < Cutoff

LoadCutoff ==
  /\ poll.pc = "cutoff"
  /\ CutoffText # Invalid
  /\ poll' = IF BeforeCutoff THEN NoPoll
             ELSE [poll EXCEPT !.pc = "find", !.cutoff = CutoffText]
  /\ UNCHANGED <<now, due, runs>>

\* The error that ends the loop and with it the process
CutoffFails == poll.pc = "cutoff" /\ CutoffText = Invalid

\* Mutant: the date is taken in a time zone that is ahead
BusinessDateAhead == Day(poll.now + MinutesPerDay)

\* Mutant: the date is that of the moment, read once more
BusinessDateNow == Day(now)

BusinessDate == Day(poll.now)

\* Mutant: the date's run is not looked for
FindNoRun ==
  /\ poll.pc = "find"
  /\ poll' = [poll EXCEPT !.pc = "save"]
  /\ UNCHANGED <<now, due, runs>>

FindRun ==
  /\ poll.pc = "find"
  /\ poll' = IF BusinessDate \in DOMAIN runs THEN NoPoll
             ELSE [poll EXCEPT !.pc = "save"]
  /\ UNCHANGED <<now, due, runs>>

\* After the records; a run of the date that is there would be replaced
SaveRun ==
  /\ poll.pc = "save"
  /\ runs' = [d \in DOMAIN runs \cup {BusinessDate} |->
                IF d = BusinessDate THEN [cutoff |-> poll.cutoff, at |-> poll.now]
                ELSE runs[d]]
  /\ poll' = NoPoll
  /\ UNCHANGED <<now, due>>

PollStep == ReadClock \/ LoadCutoff \/ FindRun \/ SaveRun

-----------------------------------------------------------------------------
ClockTypeOK ==
  /\ now \in 0..LastMinute
  /\ due \in BOOLEAN
  /\ poll.pc \in {"idle", "cutoff", "find", "save"}
  /\ poll.now \in 0..now
  /\ DOMAIN runs \subseteq 0..Day(now)

\* A day's run was executed on that day, at or after the cutoff it records,
\* though the clock is read twice and midnight, or a new cutoff, may come
\* in between
RunAfterCutoff ==
  \A d \in DOMAIN runs :
    /\ Day(runs[d].at) = d
    /\ MinuteOf(runs[d].at) >= runs[d].cutoff

\* A day is finalized once: no later poll, new cutoff or restart runs it again
RunsKept ==
  [][\A d \in DOMAIN runs : d \in DOMAIN runs' /\ runs'[d] = runs[d]]_runs

\* Past today's cutoff, and today has no run
Overdue ==
  /\ CutoffText # Invalid
  /\ MinuteOf(now) >= CutoffText
  /\ Day(now) \notin DOMAIN runs

\* The day end is not overdue for ever: polls go on, and one finds the cutoff
\* past, through restarts and changes of the cutoff, as long as it is a time
OverdueDayEnds == []<>~Overdue
=============================================================================
