------------------------------ MODULE Workers ------------------------------
(***************************************************************************)
(* The process's workers and the settings they go by: the day-end loop,    *)
(* the dispatchers that call Feishu, and the settings page's requests,     *)
(* under one clock.  The process may stop at any moment; systemd starts    *)
(* it again.                                                               *)
(***************************************************************************)
EXTENDS FeishuToken

CONSTANTS
  MaxUpdates,   \* bound: requests of the settings page
  MaxCrashes    \* bound: stops of the process other than by its own error

ASSUME WorkersAssumption == MaxUpdates \in Nat /\ MaxCrashes \in Nat

VARIABLES
  up,           \* the process runs
  updates,      \* requests so far
  crashes       \* stops so far

vars == <<settingsVars, clockVars, tokenVars, up, updates, crashes>>

Init ==
  /\ SettingsInit
  /\ ClockInit
  /\ TokenInit
  /\ up = FALSE
  /\ updates = 0
  /\ crashes = 0

\* What is in memory is lost: the ticker, the cache, every call and request
Stop ==
  /\ up
  /\ up' = FALSE
  /\ due' = FALSE
  /\ poll' = NoPoll
  /\ cache' = EmptyCache
  /\ caller' = [c \in Dispatchers |-> NoCall]
  /\ StopUpdates
  /\ UNCHANGED <<now, runs, updates>>

Crash == Stop /\ crashes < MaxCrashes /\ crashes' = crashes + 1

\* An error of any worker stops the process
DayEndFails == Stop /\ CutoffFails /\ UNCHANGED crashes

\* The migration, and the loop's first poll at once
Start ==
  /\ ~up
  /\ up' = TRUE
  /\ due' = TRUE
  /\ MigrateSettings
  /\ UNCHANGED <<now, poll, runs, tokenVars, updates, crashes>>

\* The ticker drops a tick when one is waiting
Minute ==
  /\ WithinTimeout
  /\ Tick
  /\ due' = up
  /\ UNCHANGED <<settingsVars, tokenVars, up, updates, crashes>>

DayEnd ==
  /\ PollStep
  /\ UNCHANGED <<settingsVars, tokenVars, up, updates, crashes>>

Dispatch(c) ==
  /\ up
  /\ DispatchStep(c)
  /\ UNCHANGED <<settingsVars, clockVars, up, updates, crashes>>

SettingsPage(w) ==
  /\ \/ /\ up
        /\ updates < MaxUpdates
        /\ updates' = updates + 1
        /\ \E items \in Updates : BeginUpdate(w, items)
     \/ ContinueUpdate(w) /\ UNCHANGED updates
  /\ UNCHANGED <<clockVars, tokenVars, up, crashes>>

Next ==
  \/ Crash
  \/ DayEndFails
  \/ Start
  \/ Minute
  \/ DayEnd
  \/ \E c \in Dispatchers : Dispatch(c)
  \/ \E w \in Writers : SettingsPage(w)

Spec == Init /\ [][Next]_vars

\* systemd restarts the process, the day-end loop goes on, calls time out and
\* time passes
FairSpec ==
  /\ Spec
  /\ WF_vars(Start) /\ WF_vars(DayEnd) /\ WF_vars(DayEndFails) /\ WF_vars(Minute)
  /\ \A c \in Dispatchers : WF_vars(Dispatch(c) /\ EndCall(c))

-----------------------------------------------------------------------------
TypeOK ==
  /\ SettingsTypeOK
  /\ ClockTypeOK
  /\ TokenTypeOK
  /\ up \in BOOLEAN
  /\ updates \in 0..MaxUpdates
  /\ crashes \in 0..MaxCrashes
=============================================================================
