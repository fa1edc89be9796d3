--------------------------- MODULE WorkersProofs ---------------------------
(***************************************************************************)
(* Proofs about the workers, for any settings, dispatchers, apps, lives of *)
(* tokens and lengths of a day.                                            *)
(*                                                                         *)
(* The day end's cutoff is compared with a clock that is read twice: a     *)
(* poll that goes on has found both readings on the same day (PollInv).    *)
(* A cached token is believed to live longer than it does, by as much as   *)
(* its answer took (CacheInv); what a call still has of its token follows  *)
(* from how long ago it began (CallInv).                                   *)
(***************************************************************************)
EXTENDS Workers, TLAPS

\* Division and remainder
LEMMA DivMod ==
  ASSUME NEW m \in Nat \ {0}, NEW a \in Nat
  PROVE  /\ a \div m \in Nat
         /\ a % m \in 0..(m - 1)
         /\ a = (a \div m) * m + (a % m)
  OBVIOUS

\* Days go by in order
LEMMA DivMonotone ==
  ASSUME NEW m \in Nat \ {0}, NEW a \in Nat, NEW b \in Nat, a <= b
  PROVE  a \div m <= b \div m
  BY DivMod

\* A moment past a later moment's cutoff is past it on the same day
LEMMA CutoffPassed ==
  ASSUME NEW m \in Nat \ {0}, NEW a \in Nat, NEW b \in Nat, a <= b,
         NEW c \in Nat, a >= (b \div m) * m + c
  PROVE  a % m >= c
  BY DivMod

-----------------------------------------------------------------------------
(* The invariant, in four parts *)

Updating == [pc : {"idle", "save"}, items : Updates \cup {<<>>}, next : Nat]

SettingsInv ==
  /\ SettingsTypeOK
  /\ writer \in [Writers -> Updating]
  /\ DayEndTime \in DOMAIN settings => settings[DayEndTime] \in DayEndTimes

Polls == [pc : {"idle", "cutoff", "find", "save"}, now : Nat, cutoff : DayEndTimes]

PollInv ==
  /\ ClockTypeOK
  /\ poll \in Polls
  /\ poll.pc \in {"find", "save"} =>
       poll.cutoff \in Nat /\ MinuteOf(poll.now) >= poll.cutoff
  /\ poll.pc = "save" => BusinessDate \notin DOMAIN runs
  /\ RunAfterCutoff

\* The fields of a call, whatever apps and secrets are
CallShape(call) ==
  call = [pc |-> call.pc, app |-> call.app, secret |-> call.secret,
          since |-> call.since, token |-> call.token]

CacheInv ==
  cache.token # NoToken =>
    /\ cache.token.app = cache.app
    /\ cache.token.secret = cache.secret
    /\ cache.expires <= cache.token.expires + Timeout

CallInv(c) ==
  LET call == caller[c] IN
  call.pc \in {"ask", "call"} =>
    /\ call.token.app = call.app
    /\ call.token.secret = call.secret
    /\ now <= call.since + Longest(call.pc)
    /\ call.token.expires > call.since + (IF call.pc = "ask" THEN 3 ELSE 2) * Timeout

TokenInv ==
  /\ TokenTypeOK
  /\ caller = [c \in Dispatchers |-> caller[c]]
  /\ \A c \in Dispatchers : CallShape(caller[c])
  /\ CacheInv
  /\ \A c \in Dispatchers : CallInv(c)

ProcessInv ==
  /\ up \in BOOLEAN
  /\ updates \in 0..MaxUpdates
  /\ crashes \in 0..MaxCrashes

Inv == SettingsInv /\ PollInv /\ TokenInv /\ ProcessInv

-----------------------------------------------------------------------------
(* Settings *)

\* No step of a request of the settings page, of a start or a stop leaves a
\* day_end_time of another kind or a request in an impossible place
LEMMA SettingsStep ==
  ASSUME SettingsInv, [Next]_vars
  PROVE  SettingsInv'
<1> USE SettingsAssumption, ClockAssumption DEF SettingsInv, SettingsTypeOK, Updating
<1>1. ASSUME UNCHANGED settingsVars
      PROVE  SettingsInv'
  BY <1>1 DEF settingsVars
<1>2. CASE Crash \/ DayEndFails
  BY <1>2 DEF Crash, DayEndFails, Stop, StopUpdates, NoUpdate
<1>3. CASE Start
  BY <1>3 DEF Start, MigrateSettings, Seeded
<1>4. ASSUME NEW w \in Writers, SettingsPage(w)
      PROVE  SettingsInv'
  <2>1. CASE \E items \in Updates : BeginUpdate(w, items)
    <3>1. PICK items \in Updates : BeginUpdate(w, items)
      BY <2>1
    <3>2. /\ writer' = [writer EXCEPT ![w] = [pc |-> "save", items |-> items, next |-> 1]]
          /\ settings' = settings
      BY <3>1 DEF BeginUpdate, Writing
    <3>3. writer' \in [Writers -> Updating]
      BY <3>2
    <3>4. \A v \in Writers : writer'[v].next \in 1..(Len(writer'[v].items) + 1)
      BY <3>2
    <3>5. QED
      BY <3>2, <3>3, <3>4
  <2>2. CASE SaveSetting(w)
    <3>1. /\ writer' = [writer EXCEPT ![w] = [writer[w] EXCEPT !.next = @ + 1]]
          /\ settings' = settings
          /\ writer[w].next <= Len(writer[w].items)
      BY <2>2 DEF SaveSetting, Advance, Pending
    <3>2. Len(writer[w].items) \in Nat
      OBVIOUS
    <3>3. writer' \in [Writers -> Updating]
      <4>1. [writer[w] EXCEPT !.next = @ + 1] \in Updating
        OBVIOUS
      <4>2. QED
        BY <3>1, <4>1
    <3>4. \A v \in Writers : writer'[v].next \in 1..(Len(writer'[v].items) + 1)
      BY <3>1, <3>2
    <3>5. QED
      BY <3>1, <3>3, <3>4
  <2>3. CASE AbortUpdate(w)
    BY <2>3 DEF AbortUpdate, NoUpdate
  <2>4. CASE CommitUpdate(w)
    <3> DEFINE items == writer[w].items
    <3>1. items \in Updates \cup {<<>>}
      OBVIOUS
    <3>2. DayEndTime \in KeysOf(items) =>
            items[CHOOSE i \in DOMAIN items : items[i].key = DayEndTime].value
              \in DayEndTimes
      BY <3>1 DEF KeysOf
    <3>3. /\ settings' = WithItems(settings, items)
          /\ writer' = [writer EXCEPT ![w] = NoUpdate]
      BY <2>4 DEF CommitUpdate
    <3>4. /\ DOMAIN settings' = DOMAIN settings
          /\ DayEndTime \in DOMAIN settings' => settings'[DayEndTime] \in DayEndTimes
      BY <3>2, <3>3 DEF WithItems, ValueIn
    <3>5. writer' \in [Writers -> Updating]
      BY <3>3 DEF NoUpdate
    <3>6. \A v \in Writers : writer'[v].next \in 1..(Len(writer'[v].items) + 1)
      BY <3>3 DEF NoUpdate
    <3>7. QED
      BY <3>4, <3>5, <3>6
  <2>5. QED
    BY <1>4, <2>1, <2>2, <2>3, <2>4 DEF SettingsPage, ContinueUpdate
<1>5. QED
  BY <1>1, <1>2, <1>3, <1>4
     DEF Next, vars, Minute, DayEnd, Dispatch

-----------------------------------------------------------------------------
(* The day end *)

\* Days and minutes of days are numbers, and days go by in order
LEMMA DayFacts ==
  /\ \A t \in Nat : Day(t) \in Nat /\ MinuteOf(t) \in Nat
  /\ \A s, t \in Nat : s <= t => Day(s) <= Day(t)
  BY DivMod, DivMonotone, ClockAssumption DEF Day, MinuteOf

\* A poll that goes on has read the clock for its cutoff on the day it began
LEMMA CutoffHasPassed ==
  ASSUME SettingsInv, poll.now \in Nat, now \in Nat, poll.now <= now,
         CutoffText # Invalid, ~BeforeCutoff
  PROVE  CutoffText \in Nat /\ MinuteOf(poll.now) >= CutoffText
<1>1. CutoffText \in 0..(MinutesPerDay - 1)
  BY ClockAssumption DEF CutoffText, DefaultDayEndTime, SettingsInv, DayEndTimes
<1>2. (now \div MinutesPerDay) * MinutesPerDay \in Nat
  <2>1. now \div MinutesPerDay \in Nat
    BY DivMod, ClockAssumption
  <2>2. QED
    BY <2>1, ClockAssumption
<1>3. poll.now >= (now \div MinutesPerDay) * MinutesPerDay + CutoffText
  BY <1>1, <1>2 DEF BeforeCutoff, Cutoff, Day
<1>4. MinutesPerDay \in Nat \ {0} /\ CutoffText \in Nat
  BY <1>1, ClockAssumption
<1>5. poll.now % MinutesPerDay >= CutoffText
  <2>1. \A m \in Nat \ {0}, a, b, c \in Nat :
          a <= b /\ a >= (b \div m) * m + c => a % m >= c
    BY CutoffPassed
  <2>2. QED
    BY <1>3, <1>4, <2>1, ZenonT(30)
<1>6. QED
  BY <1>4, <1>5 DEF MinuteOf

\* No step of a poll, of the clock or of a restart leaves a poll past a cutoff
\* that is still ahead, or a run of another day or before its cutoff
LEMMA PollStepKeeps ==
  ASSUME SettingsInv, PollInv, up \in BOOLEAN, [Next]_vars
  PROVE  PollInv'
<1> USE ClockAssumption DEF PollInv, ClockTypeOK, Polls
<1>1. ASSUME UNCHANGED clockVars
      PROVE  PollInv'
  BY <1>1 DEF clockVars, RunAfterCutoff, BusinessDate
<1>2. ASSUME poll' = NoPoll, UNCHANGED <<now, runs>>, due' \in BOOLEAN
      PROVE  PollInv'
  BY <1>2 DEF NoPoll, RunAfterCutoff, DayEndTimes
<1>3. CASE Start
  BY <1>3 DEF Start, RunAfterCutoff, BusinessDate
<1>4. CASE Minute
  <2>1. /\ now \in Nat /\ now' \in Nat
        /\ now' \in 0..LastMinute /\ now <= now'
        /\ poll' = poll /\ runs' = runs
    BY <1>4 DEF Minute, Tick
  <2>2. due' \in BOOLEAN
    BY <1>4 DEF Minute
  <2>3. poll'.now \in 0..now'
    BY <2>1
  <2>4. DOMAIN runs' \subseteq 0..Day(now')
    BY <2>1, DayFacts
  <2>5. QED
    BY <2>1, <2>2, <2>3, <2>4 DEF RunAfterCutoff, BusinessDate
<1>5. CASE DayEnd /\ ReadClock
  <2>1. /\ poll' = [pc |-> "cutoff", now |-> now, cutoff |-> Blank]
        /\ due' = FALSE /\ now' = now /\ runs' = runs
    BY <1>5 DEF ReadClock, NoPoll
  <2>2. poll' \in Polls /\ poll'.now \in 0..now'
    BY <2>1 DEF DayEndTimes
  <2>3. RunAfterCutoff'
    BY <2>1 DEF RunAfterCutoff
  <2>4. QED
    BY <2>1, <2>2, <2>3
<1>6. CASE DayEnd /\ LoadCutoff
  <2>1. CASE poll' = NoPoll
    BY <1>6, <2>1, <1>2 DEF LoadCutoff
  <2>2. CASE ~BeforeCutoff /\ poll' = [poll EXCEPT !.pc = "find", !.cutoff = CutoffText]
    <3>1. CutoffText \in Nat /\ MinuteOf(poll.now) >= CutoffText
      BY <1>6, <2>2, CutoffHasPassed DEF LoadCutoff
    <3>2. CutoffText \in DayEndTimes
      BY DEF CutoffText, DefaultDayEndTime, SettingsInv, DayEndTimes
    <3>3. /\ poll' = [pc |-> "find", now |-> poll.now, cutoff |-> CutoffText]
          /\ UNCHANGED <<now, due, runs>>
      BY <1>6, <2>2 DEF LoadCutoff
    <3>4. QED
      BY <3>1, <3>2, <3>3 DEF RunAfterCutoff
  <2>3. QED
    BY <1>6, <2>1, <2>2 DEF LoadCutoff
<1>7. CASE DayEnd /\ FindRun
  <2>1. CASE poll' = NoPoll
    BY <1>7, <2>1, <1>2 DEF FindRun
  <2>2. CASE BusinessDate \notin DOMAIN runs /\ poll' = [poll EXCEPT !.pc = "save"]
    BY <1>7, <2>2 DEF FindRun, RunAfterCutoff, BusinessDate
  <2>3. QED
    BY <1>7, <2>1, <2>2 DEF FindRun
<1>8. CASE DayEnd /\ SaveRun
  <2>1. BusinessDate \in 0..Day(now)
    BY DayFacts DEF BusinessDate
  <2>2. /\ poll' = NoPoll /\ now' = now /\ due' = due
        /\ DOMAIN runs' = DOMAIN runs \cup {BusinessDate}
        /\ \A d \in DOMAIN runs' :
             runs'[d] = IF d = BusinessDate THEN [cutoff |-> poll.cutoff, at |-> poll.now]
                        ELSE runs[d]
    BY <1>8 DEF SaveRun
  <2>3. RunAfterCutoff'
    BY <1>8, <2>2 DEF SaveRun, RunAfterCutoff, BusinessDate
  <2>4. QED
    BY <2>1, <2>2, <2>3 DEF NoPoll, DayEndTimes
<1>9. QED
  BY <1>1, <1>2, <1>3, <1>4, <1>5, <1>6, <1>7, <1>8
     DEF Next, vars, Stop, Crash, DayEndFails, DayEnd, PollStep, Dispatch, SettingsPage

-----------------------------------------------------------------------------
(* The token *)

\* The steps of one dispatcher leave his call within its time, with a token of
\* his app that outlives it, and the cache no more wrong than one answer's delay
LEMMA DispatchKeeps ==
  ASSUME now \in Nat, TokenInv, NEW c \in Dispatchers, DispatchStep(c), UNCHANGED now
  PROVE  TokenInv'
<1> DEFINE CallOK(call) ==
             /\ call = [pc |-> call.pc, app |-> call.app, secret |-> call.secret,
                        since |-> call.since, token |-> call.token]
             /\ call.pc \in {"idle", "ready", "ask", "call"}
             /\ call.since \in 0..now
             /\ call.token.expires \in Nat
             /\ call.pc \in {"ask", "call"} =>
                  /\ call.token.app = call.app
                  /\ call.token.secret = call.secret
                  /\ now <= call.since + Longest(call.pc)
                  /\ call.token.expires
                       > call.since + (IF call.pc = "ask" THEN 3 ELSE 2) * Timeout
           CacheOK == /\ cache'.expires \in Nat
                      /\ cache'.token.expires \in Nat
                      /\ CacheInv'
<1> USE TokenAssumption
<1>1. CallOK(caller[c]) /\ \A d \in Dispatchers : CallOK(caller[d])
  BY DEF TokenInv, TokenTypeOK, CallShape, CallInv
<1>2. ASSUME NEW call, caller' = [caller EXCEPT ![c] = call], CallOK(call), CacheOK
      PROVE  TokenInv'
  <2>1. \A d \in Dispatchers : caller'[d] = IF d = c THEN call ELSE caller[d]
    BY <1>2 DEF TokenInv
  <2>2. \A d \in Dispatchers : CallOK(caller'[d])
    BY <1>1, <1>2, <2>1
  <2>3. caller' = [d \in Dispatchers |-> caller'[d]]
    BY <1>2 DEF TokenInv
  <2>4. QED
    BY <1>2, <2>2, <2>3 DEF TokenInv, TokenTypeOK, CallShape, CallInv, Longest
<1>3. UNCHANGED cache => CacheOK
  BY DEF TokenInv, TokenTypeOK, CacheInv
<1>4. CASE LoadSettings(c)
  <2> DEFINE call == [pc |-> "ready", app |-> settings[AppID],
                      secret |-> settings[AppSecret], since |-> 0, token |-> NoToken]
  <2>1. caller' = [caller EXCEPT ![c] = call] /\ UNCHANGED cache
    BY <1>4 DEF LoadSettings
  <2>2. CallOK(call)
    BY DEF NoToken
  <2>3. QED
    BY <1>2, <1>3, <2>1, <2>2
<1>5. CASE UseCachedToken(c)
  <2> DEFINE call == Busy(c, "call", now, cache.token)
  <2>1. caller' = [caller EXCEPT ![c] = call] /\ UNCHANGED cache
    BY <1>5 DEF UseCachedToken
  <2>2. /\ call.token.app = call.app
        /\ call.token.secret = call.secret
        /\ call.token.expires \in Nat
        /\ call.token.expires > now + 2 * Timeout
    BY <1>5 DEF Busy, UseCachedToken, CacheHit, TokenInv, TokenTypeOK, CacheInv
  <2>3. CallOK(call)
    BY <2>2 DEF Busy, Longest
  <2>4. QED
    BY <1>2, <1>3, <2>1, <2>3
<1>6. CASE \E life \in Lives : AskForToken(c, life)
  <2>1. PICK life \in Lives : AskForToken(c, life)
    BY <1>6
  <2> DEFINE token == [app |-> caller[c].app, secret |-> caller[c].secret,
                       expires |-> now + life]
             call == Busy(c, "ask", now, token)
  <2>2. caller' = [caller EXCEPT ![c] = call] /\ UNCHANGED cache
    BY <2>1 DEF AskForToken
  <2>3. CallOK(call)
    BY DEF Busy, Longest
  <2>4. QED
    BY <1>2, <1>3, <2>2, <2>3
<1>7. CASE StoreToken(c)
  <2> DEFINE old == caller[c]
             call == Busy(c, "call", now, old.token)
  <2>1. /\ caller' = [caller EXCEPT ![c] = call]
        /\ cache' = [token |-> old.token, app |-> old.app, secret |-> old.secret,
                     expires |-> now + (old.token.expires - old.since)]
    BY <1>7 DEF StoreToken, ExpiresAt
  <2>2. /\ old.token.app = old.app
        /\ old.token.secret = old.secret
        /\ old.token.expires \in Nat
        /\ old.since \in 0..now
        /\ now <= old.since + Timeout
        /\ old.token.expires > old.since + 3 * Timeout
    BY <1>1, <1>7 DEF StoreToken, Longest
  <2>3. CallOK(call)
    BY <2>2 DEF Busy, Longest
  <2>4. CacheOK
    BY <2>1, <2>2 DEF CacheInv
  <2>5. QED
    BY <1>2, <2>1, <2>3, <2>4
<1>8. CASE EndCall(c)
  <2> DEFINE call == Busy(c, "ready", 0, NoToken)
  <2>1. caller' = [caller EXCEPT ![c] = call] /\ UNCHANGED cache
    BY <1>8 DEF EndCall
  <2>2. CallOK(call)
    BY DEF Busy, NoToken
  <2>3. QED
    BY <1>2, <1>3, <2>1, <2>2
<1>9. CASE EndDispatch(c)
  <2>1. caller' = [caller EXCEPT ![c] = NoCall] /\ UNCHANGED cache
    BY <1>9 DEF EndDispatch
  <2>2. CallOK(NoCall)
    BY DEF NoCall, NoToken
  <2>3. QED
    BY <1>2, <1>3, <2>1, <2>2
<1>10. QED
  BY <1>4, <1>5, <1>6, <1>7, <1>8, <1>9 DEF DispatchStep

\* Time passes within the calls' timeouts, and a stop forgets calls and cache
LEMMA TokenStep ==
  ASSUME PollInv, TokenInv, [Next]_vars
  PROVE  TokenInv'
<1>1. ASSUME UNCHANGED <<now, tokenVars>>
      PROVE  TokenInv'
  BY <1>1 DEF TokenInv, TokenTypeOK, CallShape, CacheInv, CallInv, tokenVars
<1>2. ASSUME Stop
      PROVE  TokenInv'
  BY <1>2 DEF Stop, TokenInv, TokenTypeOK, CallShape, CacheInv, CallInv, NoCall,
              EmptyCache, NoToken, PollInv, ClockTypeOK
<1>3. CASE Minute
  <2>1. now \in Nat /\ now' \in Nat /\ now <= now' /\ now' <= now + 1
    BY <1>3, ClockAssumption DEF Minute, Tick, PollInv, ClockTypeOK
  <2>2. UNCHANGED <<cache, caller>>
    BY <1>3 DEF Minute, tokenVars
  <2>3. \A c \in Dispatchers :
          /\ caller[c].since \in 0..now'
          /\ CallInv(c)'
    BY <1>3, <2>1, <2>2, TokenAssumption
       DEF Minute, WithinTimeout, TokenInv, TokenTypeOK, CallInv, Longest
  <2>4. QED
    BY <2>2, <2>3 DEF TokenInv, TokenTypeOK, CallShape, CacheInv
<1>4. ASSUME NEW c \in Dispatchers, Dispatch(c)
      PROVE  TokenInv'
  BY <1>4, DispatchKeeps, ClockAssumption
     DEF Dispatch, clockVars, PollInv, ClockTypeOK
<1>5. QED
  BY <1>1, <1>2, <1>3, <1>4
     DEF Next, vars, clockVars, Crash, DayEndFails, Start, DayEnd, PollStep, ReadClock,
         LoadCutoff, FindRun, SaveRun, SettingsPage

-----------------------------------------------------------------------------
\* The workers start within the invariant
LEMMA InitInv == Init => Inv
<1> SUFFICES ASSUME Init PROVE Inv
  OBVIOUS
<1>1. SettingsInv
  BY SettingsAssumption, ClockAssumption
     DEF Init, SettingsInit, SettingsInv, SettingsTypeOK, Updating, NoUpdate
<1>2. PollInv
  <2>1. /\ now = 0 /\ due = FALSE /\ DOMAIN runs = {}
        /\ poll = [pc |-> "idle", now |-> 0, cutoff |-> Blank]
    BY DEF Init, ClockInit, NoPoll
  <2>2. poll \in Polls
    BY <2>1 DEF Polls, DayEndTimes
  <2>3. now \in 0..LastMinute /\ poll.now \in 0..now
    BY <2>1, ClockAssumption
  <2>4. QED
    BY <2>1, <2>2, <2>3 DEF PollInv, ClockTypeOK, RunAfterCutoff
<1>3. TokenInv
  BY
     DEF Init, ClockInit, TokenInit, EmptyCache, NoToken, NoCall, TokenInv, TokenTypeOK,
         CallShape, CacheInv, CallInv
<1>4. ProcessInv
  <2>1. up \in BOOLEAN
    BY DEF Init
  <2>2. updates \in 0..MaxUpdates /\ crashes \in 0..MaxCrashes
    BY WorkersAssumption DEF Init
  <2>3. QED
    BY <2>1, <2>2 DEF ProcessInv
<1>5. QED
  BY <1>1, <1>2, <1>3, <1>4 DEF Inv

\* No step leaves it
LEMMA InvStep == Inv /\ [Next]_vars => Inv'
<1> SUFFICES ASSUME Inv, [Next]_vars PROVE Inv'
  OBVIOUS
<1>1. ProcessInv'
  <2>1. up' \in BOOLEAN
    BY Zenon DEF Inv, ProcessInv, Next, vars, Crash, DayEndFails, Stop, Start, Minute,
       DayEnd, Dispatch, SettingsPage
  <2>2. updates' \in 0..MaxUpdates
    BY WorkersAssumption
       DEF Inv, ProcessInv, Next, vars, Crash, DayEndFails, Stop, Start, Minute, DayEnd,
           Dispatch, SettingsPage
  <2>3. crashes' \in 0..MaxCrashes
    BY WorkersAssumption
       DEF Inv, ProcessInv, Next, vars, Crash, DayEndFails, Stop, Start, Minute, DayEnd,
           Dispatch, SettingsPage
  <2>4. QED
    BY <2>1, <2>2, <2>3 DEF ProcessInv
<1>2. up \in BOOLEAN
  BY DEF Inv, ProcessInv
<1>3. QED
  BY <1>1, <1>2, SettingsStep, PollStepKeeps, TokenStep DEF Inv

\* Whatever happens, settings, clock, calls and cache fit together
LEMMA Invariance == Spec => []Inv
  BY InitInv, InvStep, PTL DEF Spec

\* Settings, clock, runs, calls and cache keep their types, through requests,
\* restarts and any order of the workers' steps
THEOREM WorkersTypeCorrect == Spec => []TypeOK
<1>1. Inv => TypeOK
  BY DEF Inv, SettingsInv, PollInv, TokenInv, ProcessInv, TypeOK
<1>2. QED
  BY <1>1, Invariance, PTL

\* For any length of a day and any cutoffs, a day's run was executed on that day
\* and not before the cutoff it records, though RunOnce and loadCutoffTime read
\* the clock separately and the setting may change at any moment
THEOREM RunsAfterCutoff == Spec => []RunAfterCutoff
<1>1. Inv => RunAfterCutoff
  BY DEF Inv, PollInv
<1>2. QED
  BY <1>1, Invariance, PTL

\* For any settings, dispatchers, restarts and midnights, a recorded run is never
\* replaced and never removed
THEOREM RunsAreKept == Spec => RunsKept
<1> DEFINE Kept == \A d \in DOMAIN runs : d \in DOMAIN runs' /\ runs'[d] = runs[d]
<1>1. Inv /\ [Next]_vars => [Kept]_runs
  BY DEF Inv, PollInv, Next, vars, clockVars, Crash, DayEndFails, Stop, Start, Minute,
         Tick, DayEnd, PollStep, ReadClock, LoadCutoff, FindRun, SaveRun, Dispatch,
         SettingsPage
<1>2. Spec => [][Kept]_runs
  BY <1>1, Invariance, PTL DEF Spec
<1>3. QED
  BY <1>2 DEF RunsKept

\* For any number of dispatchers and apps, a call carries a token of the app and
\* the secret it was started with, whoever stored which token in the cache since
THEOREM TokensFit == Spec => []TokenFits
<1>1. Inv => TokenFits
  BY DEF Inv, TokenInv, CallInv, TokenFits, InUse
<1>2. QED
  BY <1>1, Invariance, PTL

\* For any timeout up to a third of the skew, a token outlives the call it is
\* used for, be it cached, fresh, or stored later than a younger one
THEOREM TokensAlive == Spec => []TokenAlive
<1>1. Inv => TokenAlive
  BY TokenAssumption, ClockAssumption
     DEF Inv, PollInv, ClockTypeOK, TokenInv, TokenTypeOK, CallInv, TokenAlive, InUse, Longest
<1>2. QED
  BY <1>1, Invariance, PTL

-----------------------------------------------------------------------------
(* The credentials: a table has those of one app, or not both *)

Credentials(table) == [app |-> table[AppID], secret |-> table[AppSecret]]

Whole(table) ==
  {AppID, AppSecret} \subseteq DOMAIN table =>
    Blank \in {table[AppID], table[AppSecret]} \/ Credentials(table) \in Apps

Both(table) == AppID \in DOMAIN table <=> AppSecret \in DOMAIN table

\* A request changes app and secret together, or neither
Paired(items) ==
  AppID \in KeysOf(items) \/ AppSecret \in KeysOf(items) =>
    /\ {AppID, AppSecret} \subseteq KeysOf(items)
    /\ [app |-> ValueIn(items, AppID), secret |-> ValueIn(items, AppSecret)] \in Apps

CredentialsInv == Whole(settings) /\ Both(settings) /\ CredentialsOfOneApp

\* A request that commits leaves the credentials whole
LEMMA CommitKeepsWhole ==
  ASSUME NEW table, NEW items, Whole(table), Both(table), Paired(items)
  PROVE  Whole(WithItems(table, items)) /\ Both(WithItems(table, items))
<1> DEFINE new == WithItems(table, items)
<1>1. /\ DOMAIN new = DOMAIN table
      /\ \A k \in DOMAIN table :
           new[k] = IF k \in KeysOf(items) THEN ValueIn(items, k) ELSE table[k]
  BY DEF WithItems
<1> HIDE DEF new
<1>2. Both(new)
  BY <1>1 DEF Both
<1>3. ASSUME {AppID, AppSecret} \subseteq KeysOf(items)
      PROVE  Whole(new)
  <2>1. SUFFICES ASSUME {AppID, AppSecret} \subseteq DOMAIN new
                 PROVE  Credentials(new) \in Apps
    BY DEF Whole
  <2>2. /\ new[AppID] = ValueIn(items, AppID)
        /\ new[AppSecret] = ValueIn(items, AppSecret)
    BY <1>1, <1>3, <2>1
  <2>3. [app |-> ValueIn(items, AppID), secret |-> ValueIn(items, AppSecret)] \in Apps
    BY <1>3 DEF Paired
  <2>4. QED
    BY <2>2, <2>3 DEF Credentials
<1>4. ASSUME AppID \notin KeysOf(items), AppSecret \notin KeysOf(items)
      PROVE  Whole(new)
  <2>1. SUFFICES ASSUME {AppID, AppSecret} \subseteq DOMAIN new
                 PROVE  Blank \in {new[AppID], new[AppSecret]} \/ Credentials(new) \in Apps
    BY DEF Whole
  <2>2. new[AppID] = table[AppID] /\ new[AppSecret] = table[AppSecret]
    BY <1>1, <1>4, <2>1
  <2>3. Blank \in {table[AppID], table[AppSecret]} \/ Credentials(table) \in Apps
    BY <1>1, <2>1 DEF Whole
  <2>4. QED
    BY <2>2, <2>3 DEF Credentials
<1>5. Whole(new)
  BY <1>3, <1>4 DEF Paired
<1>6. QED
  BY <1>2, <1>5 DEF new

\* So does the migration
LEMMA MigrationKeepsWhole ==
  ASSUME NEW table, Whole(table), Both(table), Whole(Seeds)
  PROVE  Whole(Seeded(table)) /\ Both(Seeded(table))
<1> DEFINE new == Seeded(table)
<1>1. /\ DOMAIN new = (DOMAIN table \cup DOMAIN Seeds) \ Obsolete
      /\ \A k \in DOMAIN new :
           new[k] = IF k \in DOMAIN table THEN table[k] ELSE Seeds[k]
  BY DEF Seeded
<1> HIDE DEF new
<1>2. {AppID, AppSecret} \subseteq DOMAIN Seeds /\ {AppID, AppSecret} \subseteq DOMAIN new
  BY <1>1, SettingsAssumption
<1>3. QED
  BY <1>1, <1>2 DEF Both, Whole, Credentials, new

(***************************************************************************)
(* When every request that changes the app changes its secret with it,     *)
(* nobody dispatches with the app of one and the secret of another, for    *)
(* any number of requests and dispatchers at once, requests that fail      *)
(* after some of their saves, stops, and migrations of an older table.     *)
(***************************************************************************)
THEOREM CredentialsAreOfOneApp ==
  ASSUME Whole(Seeds), Whole(OldSettings), Both(OldSettings),
         \A items \in Updates : Paired(items)
  PROVE  Spec => []CredentialsOfOneApp
<1>1. Init => CredentialsInv
  <2> SUFFICES ASSUME Init PROVE CredentialsInv
    OBVIOUS
  <2>1. Whole(settings) /\ Both(settings)
    BY DEF Init, SettingsInit, Whole, Both
  <2>2. CredentialsOfOneApp
    BY DEF Init, TokenInit, NoCall, CredentialsOfOneApp
  <2>3. QED
    BY <2>1, <2>2 DEF CredentialsInv
<1>2. ASSUME Inv, CredentialsInv, [Next]_vars
      PROVE  CredentialsInv'
  <2>1. Whole(settings') /\ Both(settings')
    <3>1. ASSUME NEW w \in Writers, CommitUpdate(w)
          PROVE  Whole(settings') /\ Both(settings')
      <4>1. writer[w].items \in Updates \/ writer[w].items = <<>>
        BY <1>2, <3>1 DEF Inv, SettingsInv, SettingsTypeOK
      <4>2. Paired(writer[w].items)
        BY <4>1 DEF Paired, KeysOf
      <4>3. QED
        BY <1>2, <3>1, <4>2, CommitKeepsWhole DEF CommitUpdate, CredentialsInv
    <3>2. CASE MigrateSettings
      BY <1>2, <3>2, MigrationKeepsWhole DEF MigrateSettings, CredentialsInv
    <3>3. CASE UNCHANGED settings
      BY <1>2, <3>3 DEF CredentialsInv
    <3>4. CASE \E w \in Writers : SettingsPage(w)
      BY <3>1, <3>3, <3>4
         DEF SettingsPage, BeginUpdate, ContinueUpdate, SaveSetting, AbortUpdate
    <3>5. CASE Crash \/ DayEndFails
      BY <3>3, <3>5 DEF Crash, DayEndFails, Stop, StopUpdates
    <3>6. CASE \/ Minute
               \/ DayEnd
               \/ \E c \in Dispatchers : Dispatch(c)
               \/ UNCHANGED vars
      BY <3>3, <3>6 DEF Minute, DayEnd, Dispatch, vars, settingsVars
    <3>7. QED
      BY <1>2, <3>2, <3>4, <3>5, <3>6 DEF Next, Start
  <2>2. CredentialsOfOneApp'
    <3>1. CASE UNCHANGED caller
      BY <1>2, <3>1 DEF CredentialsInv, CredentialsOfOneApp
    <3>2. CASE caller' = [c \in Dispatchers |-> NoCall]
      BY <3>2 DEF CredentialsOfOneApp, NoCall
    <3>3. ASSUME NEW c \in Dispatchers, Dispatch(c)
          PROVE  CredentialsOfOneApp'
      <4> DEFINE AppOf(call) == [app |-> call.app, secret |-> call.secret]
      <4>1. /\ \A d \in Dispatchers : caller[d].pc # "idle" => AppOf(caller[d]) \in Apps
            /\ caller = [d \in Dispatchers |-> caller[d]]
        BY <1>2 DEF CredentialsInv, CredentialsOfOneApp, Inv, TokenInv
      <4>2. ASSUME NEW call, caller' = [caller EXCEPT ![c] = call],
                   call.pc # "idle" => AppOf(call) \in Apps
            PROVE  CredentialsOfOneApp'
        <5>1. \A d \in Dispatchers : caller'[d] = IF d = c THEN call ELSE caller[d]
          BY <4>1, <4>2
        <5>2. \A d \in Dispatchers : caller'[d].pc # "idle" => AppOf(caller'[d]) \in Apps
          BY <4>1, <4>2, <5>1
        <5>3. QED
          BY <5>2 DEF CredentialsOfOneApp
      <4>3. CASE LoadSettings(c)
        <5> DEFINE call == [pc |-> "ready", app |-> settings[AppID],
                            secret |-> settings[AppSecret], since |-> 0,
                            token |-> NoToken]
        <5>1. caller' = [caller EXCEPT ![c] = call]
          BY <4>3 DEF LoadSettings
        <5>2. Credentials(settings) \in Apps
          BY <1>2, <4>3 DEF LoadSettings, CredentialsInv, Whole
        <5>3. AppOf(call) \in Apps
          BY <5>2 DEF Credentials
        <5> HIDE DEF call
        <5>4. QED
          BY <4>2, <5>1, <5>3
      <4>4. ASSUME NEW pc, NEW since, NEW token, caller[c].pc # "idle",
                   caller' = [caller EXCEPT ![c] = Busy(c, pc, since, token)]
            PROVE  CredentialsOfOneApp'
        <5> DEFINE call == Busy(c, pc, since, token)
        <5>1. AppOf(call) = AppOf(caller[c])
          BY DEF Busy
        <5>2. AppOf(call) \in Apps
          BY <4>1, <4>4, <5>1
        <5> HIDE DEF call
        <5>3. caller' = [caller EXCEPT ![c] = call]
          BY <4>4 DEF call
        <5>4. QED
          BY <4>2, <5>2, <5>3
      <4>5. CASE UseCachedToken(c)
        BY <4>4, <4>5 DEF UseCachedToken
      <4>6. ASSUME NEW life \in Lives, AskForToken(c, life)
            PROVE  CredentialsOfOneApp'
        <5> DEFINE token == [app |-> caller[c].app, secret |-> caller[c].secret,
                             expires |-> now + life]
        <5>1. caller' = [caller EXCEPT ![c] = Busy(c, "ask", now, token)]
          BY <4>6 DEF AskForToken
        <5>2. caller[c].pc # "idle"
          BY <4>6 DEF AskForToken
        <5> HIDE DEF token
        <5>3. QED
          BY <4>4, <5>1, <5>2
      <4>7. CASE StoreToken(c)
        BY <4>4, <4>7 DEF StoreToken
      <4>8. CASE EndCall(c)
        BY <4>4, <4>8 DEF EndCall
      <4>9. CASE EndDispatch(c)
        <5>1. NoCall.pc = "idle"
          BY DEF NoCall
        <5>2. QED
          BY <4>2, <4>9, <5>1 DEF EndDispatch
      <4>10. QED
        BY <3>3, <4>3, <4>5, <4>6, <4>7, <4>8, <4>9 DEF Dispatch, DispatchStep
    <3>4. CASE Crash \/ DayEndFails
      BY <3>2, <3>4 DEF Crash, DayEndFails, Stop
    <3>5. CASE \E c \in Dispatchers : Dispatch(c)
      BY <3>3, <3>5
    <3>6. CASE \/ Start \/ Minute \/ DayEnd
               \/ \E w \in Writers : SettingsPage(w)
               \/ UNCHANGED vars
      BY <3>1, <3>6 DEF Start, Minute, DayEnd, SettingsPage, tokenVars, vars
    <3>7. QED
      BY <1>2, <3>4, <3>5, <3>6 DEF Next
  <2>3. QED
    BY <2>1, <2>2 DEF CredentialsInv
<1>3. CredentialsInv => CredentialsOfOneApp
  BY DEF CredentialsInv
<1>4. QED
  BY <1>1, <1>2, <1>3, Invariance, PTL DEF Spec
=============================================================================
