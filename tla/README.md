# Attendance from syslog: models, checks and proofs

The backend receives syslog messages of Wi-Fi access points over UDP, turns the
connects and disconnects of employees' devices into one attendance record per
employee and day, and reports clock-ins and clock-outs to Feishu. This directory
holds TLA+ models of the parts of it where order, concurrency and failure matter,
the TLC configurations that check them and TLAPS proofs about them. Source paths
below are relative to `backend/internal/` unless they say otherwise.

## 1. The system

One Go process, one MySQL database. Goroutines: the UDP loop, the HTTP server (one
goroutine per request), the report dispatcher (a tick every 15 s) and the day-end
dispatcher (a tick every minute). An error of any of them but a request stops the
process (`cmd/server/main.go:67-96`); systemd starts it again
(`docs/deploy-ubuntu24.md`, `Restart=always`). Nothing is kept in memory between two
messages, ticks or requests, except the cached Feishu token: components interact
through the tables.

| Component | State | Operations | Meets | What makes it correct |
|---|---|---|---|---|
| Pipeline (`service/syslog_pipeline.go`, `attendance_processor.go`) | `attendance_records`, `attendance_reports` | `Handle`: parse, store, match, load the record, apply the event, look up the key, save | debug injection, corrections, day end | earliest connect, latest disconnect; no clock-in without a report |
| Corrections (`service/admin_services.go:350-508`) | the same | `CorrectAttendance` in a transaction, delete ids read outside it | pipeline, day end, dispatcher | a version per correction; a report per changed time, replacing the delivered one |
| Day end (`service/day_end_dispatcher.go`) | the same, `day_end_runs` | list the day, finalize each record, save the run | pipeline, corrections, restarts | a clock-out for every listed disconnect; a repeated run changes nothing sent |
| Report table (`service/report_service.go`, `repository/report_repository.go`) | `attendance_reports` | build keys and rows, save by key, look-ups, lists | everything | one row per key; the newest delivered flow is found |
| Report dispatcher (`service/attendance_report_dispatcher.go`) | `attendance_reports`, Feishu | two lists, delete, create, notify, failures | debug dispatch, crashes, Feishu | old flow gone before the new one; bounded duplicates; every row settles |
| Feishu client (`service/feishu_attendance_client.go`) | cached token | create, delete, message, token | dispatcher, debug | answers attributed to the right flow; a token no older than its expiry |
| Debug services (`service/debug_admin_service.go`) | the tables above | inject a message, dispatch a record | pipeline, dispatcher | a manual send replaces the automatic one |
| Syslog rules (`service/syslog_rule_*.go`, `repository/syslog_rule_repository.go`) | `syslog_receive_rules` | create, update, delete, move, match; the migration's seeding | pipeline, debug preview, restarts | the first enabled rule that does not miss decides; orders stay distinct; a start keeps what the administrator made |
| Employees (`service/admin_services.go`, `repository/employee_repository.go`) | `employees`, `employee_devices` | create, update, disable, look a MAC up | pipeline, each other | a device has one employee; the tables show whole requests; every request ends |
| Settings (`service/admin_services.go`, `repository/system_setting_repository.go`) | `system_settings` | seed, update several keys, read one or all | dispatcher, day end | a reader sees requests whole |
| Day-end clock (`service/day_end_dispatcher.go`) | ticker, `day_end_runs` | poll, read the cutoff, find the day's run, save it | settings, restarts, midnight | each day ends once, on that day, not before its cutoff |
| Token cache (`service/feishu_attendance_client.go:386-447`) | cached token, its expiry and app | use, ask, store | settings, two dispatchers | a call's own app, and a token that outlives the call |
| Message and event log (`repository/syslog_message_repository.go`, `client_event_repository.go`, `log_query_repository.go`) | `syslog_messages`, `client_events` | save, count, list a page | pipeline, log page | a parsed message has its event; a walk through the pages has no hole |
| Ingest, life cycle (`ingest/udp_listener.go`, `cmd/server/main.go`) | socket, context | read, handle, stop, migrate, start | all | an error of one worker stops all |
| HTTP handlers, configuration, scheduler helper, frontend | | | | see section 7 |

What is hard to test here: whole rows are read, changed in memory and written back
by four concurrent writers without row versions; rows, flows in Feishu and messages
are three stores updated by separate calls, any of which may be the last before a
restart; the answer of a call may be lost after the call took effect. `PROJECT.json`
lists the hazards one by one with their lines and the properties aimed at them.

## 2. Modules

    ReportTable            the table of reports, keys, look-ups          (operators)
      Attendance           records + reports of one date, four writers
        AttendanceDay      what a day promises, abstractly (INSTANCEd by Attendance)
        AttendanceProofs   types, EveryClockInQueued, RunCoversListedRecords
          SerialProofs     ClockInQueueMatches, ClockOutQueueMatches,
                           DeliveredStaysDelivered, the refinement of AttendanceDay
      ReportDispatcher     the loop, the debug dispatch, Feishu
        MCDispatcher       its instances for TLC
        DispatcherProofs   type correctness, MessageMeansFlow
          OldFlowProofs    OldFlowGoneFirst
            LoopProofs     FlowsBoundedByRetries, DeliveredOnce
      ReportTableProofs    lemmas about the table, used by both chains of proofs

    SyslogRules            the rules, their requests, the migration
    EmployeeRegistry       employees, devices, requests that wait for each other
    SyslogLog              messages, events, the log page's reader
      SyslogIngest         all three under one process: Handle up to the stored event
        MCIngest           its instance for TLC
        IngestProofs       types, RegistryAsAsked, ParsedMessagesHaveEvents,
                           LogWalkHasNoGap, OrdersDistinct, StartKeepsRules,
                           MovesExchangeNeighbours, InjectAnswerFits

    Settings               system_settings
      DayEndClock          the day-end loop, its two readings of the clock
        FeishuToken        credentials, calls and the token cache
          Workers          all three under one clock and one process
            MCWorkers      its instance for TLC
            WorkersProofs  types, RunAfterCutoff, RunsKept, TokenFits, TokenAlive,
                           CredentialsOfOneApp

**ReportTable.** The table is a sequence; a row's id is its index, because rows are
never deleted and `Save` keeps the id of a row with the same idempotency key. The key
is a record of what the code formats into a string: employee, type, create or clear,
time, version, and the instant of a manual request. The time in it is truncated to the
second (`Truncated`), as `Format(time.RFC3339)` does, so two instants of one second have
one key. The payload's timestamp is the same formatting of the same time, so the payload
follows from the key and is not repeated. `old` is a history field: the flow the row was
queued to delete, kept when `delete` is cleared.

Times are milliseconds. A handler computes with the instant it heard (`receivedAt`, when
a rule has no time group, with its fraction); the record's two columns are `DATETIME`
without a fraction, which MySQL rounds to the nearest second (`Rounded`, `Stored`). So a
record's first connect and the time its report tells may differ by a second.

**Attendance.** One business date. An employee's record is in `records`, version 0
standing for no row. Each writer has a local state: the copy of the row it read and
its place in the handler. One action is one database call or one transaction;
everything between two calls can be overtaken by another writer or ended by a crash.

| Code | Actions |
|---|---|
| `Handle` from the matched employee on | `HandleEvent`, `CheckClockInKey`, `SaveAttendanceOnly`, `SaveAttendanceAndReport`, `AbandonEvent` |
| `CorrectAttendance` | `LoadForCorrection`, `LockRecord` (the transaction's first write), `BuildCorrectionReport` (the delete id, read on another connection), `CommitCorrection`, `RollbackCorrection` |
| `DayEndDispatcher.RunOnce` | `ListRecords`, `FinalizeRecord`, `BuildClockOutReport`, `SaveFinalized`, `SaveRun` |
| the report dispatcher, abstracted to a success in one step | `DeliverReport` |
| stop and restart | `Crash` |

The row lock a correction's transaction takes with its first write keeps other saves
of that record waiting (`Locked`); the transactions of the pipeline and of the day end
make no call outside themselves and are one step. Storing the message and the event
and matching the device come before any attendance state is read and are abstracted
into the choice of an event. `last_calculated_at` is left out: it only makes the day
end save every record it lists, which `SaveFinalized` does.

**ReportDispatcher.** `Worker` is the loop; each debug request is another caller of
`dispatchReport`. Lists hold copies of rows, as in the code. Each call to Feishu is a
step whose answer is `ok`, `error` (nothing happened) or `unknown` (it happened, the
caller got an error); each Save is another step. `CreateFlow` returns the id of the
new flow or, when the answer carries none, that of any live flow with the same
employee, clock and time, as its look-up does. Feishu deduplicates messages by uuid
and flows by nothing, since the request sends no idempotency id. The services that queue rows
are `Writers`, as many as one likes at the same time. Each is two steps, between which
the others, the loop and a crash may come: the read (`QueueClockIn` of the pipeline and
`QueueClockOut` of the day end go on only if the key is missing, `QueueCorrection` always)
and the Save (`SaveQueued`). All rows of an employee's clock have the same time, which is
when the look-up of flows can err, and one of `Versions`: in the program versions repeat,
as a stale Save of the record can put an older one back, and two callers of the pipeline
can both miss one key. So a row may be saved again in any state, its retries at 0 and its
flow id gone, while the loop has a copy of it in a list or in its hands. `queued` is a
history variable: the rows the writers have saved, in order.

**AttendanceDay.** The abstract specification of a day: `first` only goes down,
`last` only up, each rounded to the second, and a report of a new `first`, truncated to
the second, is queued in the step that sets it.

**SyslogIngest** composes the way of a message up to its stored event. The UDP loop
is one caller of `Handle`, each debug request another; the caller's local state is what
the code keeps in variables between two calls of the database.

| Code | Actions |
|---|---|
| `SyslogPipeline.Handle` | `Receive` or `Inject`, `ParseSyslog` (the rules are read), `SaveMessage`, `MatchEmployee`, `SaveEvent`, `Answer`; `FailCall` for an error of any call |
| `SyslogRuleAdminService` | `CreateRule`, `FindRule`, then `UpdateRule` or `DeleteRule`; `ReadCurrent`, `ReadNeighbour`, `SwapOrders` or `AbortSwap` (`Move`) |
| migration `001_init.sql`, at every start | `Migrate`: orders of 0 become ids, missing default rules are inserted |
| `EmployeeAdminService` | `BeginSave`, `BeginDisable`, `WriteEmployee`, `ClearDevices`, `InsertDevice` one by one, `CommitRequest`; `DeadlockVictim` |
| `NewLogsHandler`, `ListPage` | `OpenLogs`, `CountLogs`, `ListLogs`, `CloseLogs` |
| `cmd/server/main.go`, systemd | `Stop` (within `Crash` and within `Fail` of the UDP loop), `Start` |

A rule's pattern, groups and event type come down to a function from messages to what
the rule says of them: a device, no match (`Miss`) or an error (`Broken`: it matched,
and the station or the time could not be extracted). The ids of seeded rules are dense where
InnoDB may leave gaps; only their order is looked at. `EmployeeRegistry` has what is
committed in its variables and what is not in each request's local state, with the locks
the statements take: the employee's row from the first write, a device's place in the
unique index from its deletion or insertion. Two requests that exchange devices can wait
for each other; InnoDB then ends one. A device has the status the request gives it,
active unless it says otherwise, and is disabled with its employee. `Handle` goes on in `Attendance` for a matched employee.

**Workers** composes what goes by the clock. Time is counted in minutes.

| Code | Actions |
|---|---|
| `DayEndDispatcher.Run`, `RunOnce` | `Minute` (the ticker), `ReadClock`, `LoadCutoff` (the second reading and the setting), `FindRun`, `SaveRun`; `DayEndFails` for an invalid cutoff |
| `SettingsAdminService.UpdateSettings` | `BeginUpdate` (List and checks), `SaveSetting` row by row, `AbortUpdate`, `CommitUpdate` |
| `loadDispatchSettings`, `tenantAccessToken`, calls | `LoadSettings`, `UseCachedToken` or `AskForToken` and `StoreToken`, `EndCall`, `EndDispatch` |
| `cmd/server/main.go`, systemd | `Crash`, `Start` |

What the run does to the records between `FindRun` and `SaveRun` is `Attendance`'s day
end. The cache's mutex is not held while Feishu is asked, so two callers may ask at once
and store in either order. Feishu's side of a token, its app and its life, is external.
A graceful stop gives open requests five seconds; what they finish then they might have
finished before the stop, so `Stop` is one step.

## 3. Runs

| Run | Question | Shows |
|---|---|---|
| AttendanceCorrections | events, some given up, a correction, the day end and crashes, call by call | `TypeOK`, `EveryClockInQueued`, `RunCoversListedRecords` |
| AttendanceSerial | one request at a time, any order, deliveries, crashes | the newest queued reports say what the records say, a clock-in to the second (`ClockInQueueMatches`, `ClockOutQueueMatches`); `DeliveredStaysDelivered` |
| AttendanceUdp | does the UDP loop implement the abstract day? | `ImplementsDay` (refinement) |
| DispatcherWorker | the loop alone, all answers, a restart, two writers that queue rows again | `OldFlowGoneFirst`, `FlowsBoundedByRetries`, `DeliveredOnce`, `EveryRowSettles`, `EveryMessageSettles` |
| DispatcherDebug | the loop and a debug request on the same rows | `TypeOK`, `OldFlowGoneFirst`, `MessageMeansFlow` |
| SyslogIngest | messages, injections, two rule administrators, two clerks, a reader, restarts, a new or an old database | `TypeOK`, `ParsedMessagesHaveEvents`, `InjectAnswerFits`, `OrdersDistinct`, `MovesExchangeNeighbours`, `StartKeepsRules`, `RegistryAsAsked`, `EveryRequestEnds`, `LogWalkHasNoGap` |
| Workers | two days, the day-end loop, two callers of Feishu, a settings request, a restart | `TypeOK`, `RunAfterCutoff`, `RunsKept`, `OverdueDayEnds`, `CredentialsOfOneApp`, `TokenFits`, `TokenAlive` |

Five runs end in a counterexample, each of a sentence in the repository's documents
that the code does not keep; `PROJECT.json` quotes the sentences.

| Run | Property | What happens |
|---|---|---|
| LostDisconnect | `LatestDisconnectKept` | the day end lists the records, a disconnect is saved, the day end saves the older record over it |
| VersionRollback | `VersionNeverDecreases` | an event's handler loads the record, a correction commits, the handler saves what it loaded |
| DuplicateOnRetry | `OneFlowPerReport` | a create takes effect, its answer is lost, the retry creates again |
| ManualSendKeepsOld | `ManualSendReplaces` | a debug request looks for the old flow before the loop has saved its id |
| MessageNotStored | `EveryReceptionStored` | a message an enabled rule matches and cannot read makes `Handle` return before it stores it; in the UDP loop the error then stops the process |

Four more differences from the design
(`docs/superpowers/specs/2026-03-21-syslog-attendance-design.md`) are plain from the code
and need no run: a record may be a second later than the time its clock-in report tells,
where :174 has one earliest connect (the column rounds, the report truncates); the clock-in key holds the time, so a late earlier connect makes a
second clock-in of the same version (:323 allows one); `clock_out_status` is set to done
when the report is queued, not when it is delivered (:153); and the loop's list takes
the pending row a debug request is about to dispatch itself, so one manual send can make
two flows.

Others met while modelling, which no document speaks against:

- A pipeline clock-in names no flow to delete. When a late, earlier connect makes a second
  clock-in, the flow of the first stays in Feishu, and `ClockInQueueMatches` speaks of the
  queue's newest row only.
- A connect in the same second as the recorded one can be earlier than it again, since the
  record was rounded up. Its key is in the table already, so no second report comes of it
  unless a correction has raised the version in between.
- A row that is queued again while the loop holds a copy of it is overwritten by that copy
  when the loop saves it (`report_repository.go:175`): it is then not dispatched again.

- `OrdersDistinct` excepts the moves that read the same orders at once (`tied`): they
  can give two rules one order, and a later move between the two changes nothing.
- The default rules come back at the next start when they were deleted or renamed, with
  the orders 1 and 2, so that they may tie with an administrator's.
- A device of a disabled employee is still matched: no status is looked at.
- A `day_end_time` that is not a time is saved by the settings page and stops the process
  at each poll until somebody corrects the row between a start and its first poll.
- A process that is down from the cutoff to midnight never ends that day; `findings.md`
  accepts it (:8). `OverdueDayEnds` is therefore about days that last.
- COUNT and LIST are two queries: a reader may stop before the oldest rows, or meet a
  row twice. `LogWalkHasNoGap` is what remains.
- The answer of an injection is its preview's, which reads the rules on its own.
- A report that is due while the Feishu settings are empty uses up its retries
  (`attendance_report_dispatcher.go:194`).

`RunCoversListedRecords` is deliberately about the rows the run listed: LostDisconnect
shows that nothing stronger holds. Likewise `ClockInQueueMatches` and
`ClockOutQueueMatches` hold one request at a time and not under interleaving, for the
reasons VersionRollback and LostDisconnect show. `DeliveredStaysDelivered` needs it too:
when a debug message and a syslog message with the same connect time overlap, both miss
the key in the table (`syslog_pipeline.go:143`), the dispatcher delivers the first
report, and the second Save puts the delivered row back to pending under the same key,
without the id of the flow it had created. The dispatcher's model has such Saves: hence
`DeliveredOnce` says that a delivered row stays so until a writer queues it again, and
`FlowsBoundedByRetries`, which is what remains of "no duplicates", counts how often a row
was queued.

`CredentialsOfOneApp` is about requests that change the app and its secret together, as
the settings page sends them; what a request that changes one of them leaves behind is
what was asked for.

Every property of a passing run has a mutant in its module, a definition named in a
comment `Mutant:` that breaks the code in a plausible way and makes TLC refute it.

### Bounds

- One employee in most runs: no statement of the pipeline, the corrections or the
  day end on one employee's rows reads another's, except that the day end takes the
  records one after the other; AttendanceUdp has two employees.
- `Times` are milliseconds. `{1400, 1600, 2300}` (AttendanceSerial, AttendanceUdp): 1400
  and 1600 have one key and are different records (1 s and 2 s), 1600 and 2300 have
  different keys and are one record, and the recorded 2 s is later than the 1600 it came
  from. AttendanceCorrections has 1600 alone, recorded as 2 s and reported as 1 s, which a
  correction also clears and restores. The two counterexamples need whole seconds only.
- Two pipeline callers in AttendanceSerial, one where a correction interleaves as well:
  two would multiply the states beyond a run. The one of AttendanceCorrections is a
  debug request, which does all that the UDP loop does and may give up besides. The
  theorems of section 4 hold for any number of callers.
- `MaxVersion` bounds the corrections, `MaxReports` the rows at which no event and no
  correction begins any more, `MaxFlows` the deliveries of `Attendance`; `MaxFlows = 0`
  where the property does not depend on delivery.
- `RetryLimit = 2`: the first attempt, a retry and the limit. The default is 3.
- `BatchLimit = 1` with two rows (DispatcherWorker): the second row waits behind a
  failing first. DispatcherDebug has one row of the loop and one of a debug request.
- `Versions = {2}`: a version that the pipeline, the day end and a correction may all give
  a row, so that a key is queued again. `MaxSaves = 3` (DispatcherWorker): two rows of which
  one is queued again, or one row three times, by two writers, each before, during and
  after its dispatch. Clock-ins there, whose rows the pipeline queues without a flow to
  delete and a correction with one; clock-outs of the day end in DispatcherDebug, with
  `MaxSaves = 1` beside the debug request's own row. `MaxCrashes` bounds the restarts.
- `MaxMessages = 3` (SyslogIngest): a page is read, a message comes in, and a page
  follows that it has moved; with two the first page would be the last, or nothing could
  come in. `MaxRequests = 2`: requests meet in every pair of kinds, and a rule can be
  deleted and its default come back. `MaxRules = 6`
  leaves room for the old table, two new rules and a default. `PageSize = 1`, so that
  two rows are two pages. An old table with orders of 0 and a rule besides the
  defaults; two devices and two employees who may exchange them.
- `MinutesPerDay = 3`, `LastMinute = 5` (Workers): two days; the default
  cutoff is a day's last minute, which midnight follows at once, and an edit makes it
  the first, which every reading is past. The clock stops in the second day's last
  minute and the ticker goes on, so that what is overdue then has to be done.
- `Lives = {4}`, `Timeout = 1`, `Skew = 3`: the least a life may be, and the least skew
  for that timeout. The code has 30 minutes for 10 seconds, unless the settings say more.
- `MaxUpdates = 1`, `MaxCrashes = 1`: one request that changes app and secret, in two
  rows, or the cutoff, to a time or to something that is none; one restart, and those
  the day end itself causes without bound.

Deadlock is checked everywhere; `Crash` and the polling loops are always possible in
one model or the other, as in the program.

### Fairness

`FairSpec` assumes `WF_vars(WorkerStep)`: the loop takes steps as long as it can. The
code justifies it: the ticker calls `RunOnce` every 15 s, every call to Feishu has the
timeout `report_timeout_seconds`, an error that ends the loop ends the process, and
systemd restarts that. Restarts are bounded by `MaxCrashes`, since a process that stops
before each delivery delivers nothing. Nothing is assumed of requests or of upstream.

`SyslogIngest` assumes `WF_vars(ContinueClerk(c))`: MySQL executes the statements it
has, and ends one transaction of a cycle of waits. `Workers` assumes that systemd starts
the process (`Start`), that the loop's steps are taken (`DayEnd`, `DayEndFails`), that
time passes (`Minute`) and that calls to Feishu end, which their context's timeout sees to
(`EndCall`). Nothing is assumed of beginning a request. The other runs have no fairness.

## 4. Proofs

`ReportTableProofs` proves the facts about the table: `Save` keeps ids and keys, the
row is there afterwards, no queued time is lost, a looked-up flow is a natural number.

`AttendanceProofs` proves, for all `Employees`, `Times`, `Handlers`, `Admins` and
bounds satisfying `AttendanceAssumption`:

- `TypeCorrect == Spec => []TypeOK`
- `ClockInsQueued == Spec => []EveryClockInQueued`, to the second a record may be off
- `RunCovers == Spec => []RunCoversListedRecords`

`EveryClockInQueued` is not inductive: handlers write records they read long ago. The
invariant `TypeOK /\ QueuedInv` adds the same statement for every copy: a pipeline
handler that found nothing to report carries a queued time, and one that has a report
to save carries that report's time; every row in the day end's list has a queued time; and a
correction either carries a queued time, or has built its clock-in report, or builds
it next. No step removes or re-keys a row (`SavedStays`), so other steps cannot disturb
the copies, and each writer keeps its own. `TypeStep` and `QueuedStep` have one lemma
per service and one step per action.

`RunCoversListedRecords` speaks of a run that is between two records, and of employees
that run does not have to finalize because they had no record. Its invariant adds
`RowInv` (no record means no disconnect, and every copy some handler will save is a
record) and `RunInv` (while a record is being finalized, its clock-out was found in the
table or the row about to be saved carries it). A clock-out, once queued, stays queued
(`QueueGrows`), so the other writers cannot undo what the run has done.

`SerialProofs` proves what holds when requests do not overlap:

- `ClockInQueueFollows == SerialSpec => []ClockInQueueMatches`
- `ClockOutQueueFollows == SerialSpec => []ClockOutQueueMatches`
- `DeliveredAreKept == SerialSpec => DeliveredStaysDelivered`
- `UdpImplementsDay == UdpSpec => ImplementsDay`, when `Udp` is one of `Handlers`
  (it may be none, as in AttendanceCorrections; `UdpSpec` then says nothing of the loop)

The newest report says what the record says because no new time can meet its own key in
an older row, which `Save` would update where it stands, unless it is the row of the newest
report itself. That is `Consistent`: no row is of a later version than its employee's
record, and within a version the first connect only goes down and the last disconnect only
goes up, while a correction, which may move them either way, is a version of its own. The
rounding needs care only with the clock-in: a row is compared with the newest row (`told`),
which is the record's time or a second less (`WithinASecond`), so that a connect earlier
than the record is of the newest row's second or of an earlier one. `Progress` says of the one request in progress
how it stands to the record it has read, which is still the record in the table: which of
a correction's reports are built, which records the day end has done. A delivered
report is kept for the same reason: its key is of a time the record has or had before.
The refinement maps `records` and `reports` to the day's `first`, `last` and `queued`;
`SaveAttendanceAndReport` maps to the abstract `Connect`, whose new report needs `Consistent`
again, `SaveAttendanceOnly` to a disconnect, a connect in the second already told, or a
stutter, and deliveries, crashes and the
look-ups to stutters.

`DispatcherProofs` and `OldFlowProofs` prove of the dispatcher, for all `Clocks`,
`Requests`, `Answers`, limits and bounds satisfying `DispatcherAssumption`:

- `DispatcherTypeCorrect == Spec => []TypeOK`
- `MessagesMeanFlows == Spec => []MessageMeansFlow`
- `OldFlowsGoFirst == Spec => []OldFlowGoneFirst`

A row is in the table, being queued, in the loop's two lists and in the hands of any
number of callers, and every copy may be saved over the row at any later time. `Copies`
is the set of them all, and the invariants speak of each.

For `MessageMeansFlow`: every copy that says delivered, and is not a clear (which is
marked skipped), has a flow (`TellInv`). Flows are marked deleted and never forgotten
(`FlowsGrow`), so an old copy saved late is still right.

For `OldFlowGoneFirst`: as long as the flow a row was queued to replace is live, every
copy of the row says that it has to be deleted, nobody who holds a copy is past the
deletion, and the row has no flow (`OldInv`). A call breaks it only if a copy without
the old flow's id arrives from somewhere. A writer's row brings its own `old`, for which
the same holds, so a row saved again does no harm; and ids are those Feishu has given out
(`RangeInv`), so an id that is deleted before it exists cannot come to life later. The
whole conjunction was checked by TLC on the instance of DispatcherDebug.

`LoopProofs` proves of the dispatcher when the loop is alone (`Requests = {}`, the
configuration of DispatcherWorker; a debug request breaks both, see section 3):

- `FlowsAreBounded == Spec => []FlowsBoundedByRetries`
- `DeliveredAreSentOnce == Spec => DeliveredOnce`

Since a writer may save any row again at any moment, the loop's copies need not agree with
the table. The invariant `LoopInv` is an account kept for every copy on its own. A key is
allowed `RetryLimit` flows for each time it was queued, and one per restart (`Allowed`). A
copy is `Within` its allowance if the flows of its key, and those its remaining tries may
still make, are no more. Each place a row may be is within it: the table, both lists and
the loop's hands; only while the loop has made its call and not yet saved the outcome may
the row in the table be one flow behind (`TableInv`), which a restart then pays for. A
writer's Save adds `RetryLimit` to the allowance of every copy of its key and takes none;
a stale copy saved over the new row is within its own account already. For `DeliveredOnce`
the lists are disjoint and hold nothing the loop has in its hands; the first list has no
copy of a row that is delivered, and a copy that is delivered has the row's flow (`ListsInv`,
`HandInv`). The proof goes action by action, with `Count` for the two cardinalities. TLC
checked `LoopInv` on instances of three Saves before it was proved.

`WorkersProofs` proves of the workers, from `SettingsAssumption`, `ClockAssumption`,
`TokenAssumption` and `WorkersAssumption`:

- `WorkersTypeCorrect == Spec => []TypeOK`
- `RunsAfterCutoff == Spec => []RunAfterCutoff`, `RunsAreKept == Spec => RunsKept`
- `TokensFit == Spec => []TokenFits`, `TokensAlive == Spec => []TokenAlive`

The clock is read for the date, and later for the cutoff. If midnight has passed in
between, the cutoff is of the next day and the poll ends (`CutoffHasPassed`, which is
arithmetic of days and minutes: `a >= (b \div m) * m + c` and `a <= b` give
`a % m >= c`). So `PollInv` may say of every poll that goes on that its own minute is
past its cutoff, and of every poll about to save that its day has no run. The cache
believes a token to live longer than it does by what its answer took, at most a
timeout (`CacheInv`); a call is never older than its timeout, and began with more than
two timeouts of life (`CallInv`); that needs `Skew >= 3 * Timeout`.

- `CredentialsAreOfOneApp`: if the defaults and the old table hold one app's id and secret
  or lack one of them (`Whole`), the old table has both keys or neither (`Both`), and every
  request changes both to those of one app, or neither (`Paired`), then
  `Spec => []CredentialsOfOneApp`. The table is `Whole` at every moment, since a request's
  rows are in it with its commit or not at all (`CommitKeepsWhole`, and
  `MigrationKeepsWhole` for the start), and a dispatcher loads both with one List.

`IngestProofs` proves of the way of a message, from the modules' assumptions:

- `RegistryIsAsAsked == Spec => []RegistryAsAsked`. The invariant says of any two
  transactions that write that they write different employees, of any two past their
  DELETE that they have inserted different devices, and of each that what it has
  inserted is free or its employee's: so no commit takes a device from anybody.
- `ParsedHaveEvents == Spec => []ParsedMessagesHaveEvents`.
- `LogWalks == Spec => []LogWalkHasNoGap`. A row's position only grows (`RowsMoveBack`)
  and a newer row is not behind an older one (`NewerIsBefore`), so a row at the start
  which is still unseen is at or behind the next page's offset.
- `OrdersAreDistinct == Spec => []OrdersDistinct`,
  `StartKeepsAllRules == Spec => StartKeepsRules`. `RulesInv` dates a table by its orders:
  before its first start with this code all are 0, afterwards none is, so a start either
  renumbers the whole table or no rule of it. `edits` counts the commits.
- `MovesExchange == Spec => MovesExchangeNeighbours`. `MoveInv` says of a move under way
  that, unless `edits` has grown since it read, its two rules have the orders it read and
  no rule is listed between them. `ExchangePlaces` then computes every rule's place, by
  cardinalities of the sets of rules before it.
- `AnswersFit == Spec => []InjectAnswerFits`. `CallInv` follows the preview's answer
  through the call: what it told is what the rules still say, then what the call has
  matched, then what it has stored, unless `edits` has grown.
- `IngestTypeCorrect == Spec => []TypeOK`, from the four invariants together.

That a finite set of rules has a last one, on which `MAX(sort_order)` and the neighbour of
a move rest, is `LastElement`: of the sizes of sets that have none there would be a least
one (`WFMin` for the naturals), and a set without one of its elements is smaller. So
no induction theorem with an operator parameter is needed. `RulesInv`, `MoveInv` and
`CallInv` were checked by TLC on the instance of SyslogIngest first.

The only assumptions are the constants'. `Attendance`: times are at least a second, so that
`NoTime` is none of them, rounded or truncated; the names of pipeline callers, correction requests and the
day end are apart, since `OneAtATime` counts who is busy by name. `ReportDispatcher`: debug
requests are positive numbers, so that the loop (0) is none, and no writer is either. `SyslogIngest`: there is a
latest time (`Max(Times)`), stations are MAC addresses, pages are not empty, rules and
requests are of their forms. `Workers`: values of `day_end_time` are minutes of a day,
blank or invalid; the keys the code reads are seeded; the skew is at least three timeouts
and a token's life more. Bounds and limits are naturals.

Every invariant and every action property a passing run checks is proved, `FlowsBoundedByRetries`,
`DeliveredOnce` and `CredentialsOfOneApp` under the hypotheses their runs meet. Model-checked only: `EveryRowSettles`,
`EveryMessageSettles`, `EveryRequestEnds` and `OverdueDayEnds`. They are liveness under weak
fairness, which needs `ENABLED`, and that is out of the prover's reach. The counterexamples
are TLC's too.

## 5. Plan

In order of what the system stands or falls by:

1. Done: report table, attendance, dispatcher, abstract day, their runs and theorems.
2. Done: rules, registry, log and their composition `SyslogIngest`; settings, day-end
   clock, token cache and their composition `Workers`; their runs and theorems.
3. `AttendanceSystem`: `Attendance` with the steps of `ReportDispatcher` in place of
   `DeliverReport`, and the refinement between the two.
4. The status of a clock-out against its deliveries.
5. Done: the proofs of all safety and action properties of the runs, and the refinement
   of the abstract day. Next: that a row whose limit is reached is never dispatched again
   (the safety half of `EveryRowSettles`), and the lemmas of `AttendanceSystem`.
6. The frontend's pages as state machines: polling, editing, answers out of order.

Every module is written for both tools: named assumptions, no RECURSIVE operators,
one action per call.

## 6. Reading the map

`PROJECT.json` maps each definition to the lines it stands for. Definitions that
appear only in properties, and the mutants, have no entry.

## 7. Not modelled

- The log page's text and date filters: they choose rows by contents, which the models
  do not have. The retention date is written; no code deletes by it.
- HTTP handlers and the router: decoding and encoding, no state; each request is a
  concurrent caller in the models.
- Regular expressions and time layouts of the rules: a pattern is a parameter. The
  fixed parser `parser/ap_syslog_parser.go` is reached only without a rule table, which
  the program never builds.
- Changes of the other four settings: the timeout and the retry limit are constants of
  the models, the location only names a place, the retention is read by nothing.
- The frontend: it renders, and asks for what the models' requests ask at any time.
- Configuration and bootstrap: run once, before anything concurrent.
- `scheduler/cron.go`: used by nothing.
- Response codes and bodies, log lines, message texts: nothing depends on them.
- Database errors other than those that end a request or the process: in both cases
  the handler ends where it was, which `AbandonEvent`, `RollbackCorrection`,
  `DebugAbandon` and `Crash` cover.
