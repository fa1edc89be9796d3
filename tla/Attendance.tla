----------------------------- MODULE Attendance -----------------------------
(***************************************************************************)
(* One business date of attendance: the attendance_records row of every    *)
(* employee, the reports queued for it, and the three services that write  *)
(* both.                                                                   *)
(*                                                                         *)
(*   - SyslogPipeline.Handle, run by the UDP loop (one message at a time)  *)
(*     and by debug requests (Handlers \ {Udp}), each concurrently;        *)
(*   - AttendanceAdminService.CorrectAttendance, one process per request   *)
(*     of an administrator (Admins);                                       *)
(*   - DayEndDispatcher.RunOnce, one loop in the process.                  *)
(*                                                                         *)
(* Each of them reads rows into local variables and writes whole rows back *)
(* later; an action here is one database call (or one transaction), so     *)
(* everything the code does between two calls can be overtaken by another  *)
(* handler, or lost when the process stops.  Reports are delivered by      *)
(* DeliverReport, an abstraction of AttendanceReportDispatcher that        *)
(* succeeds in one step; ReportDispatcher.tla has its detail.              *)
(***************************************************************************)
EXTENDS ReportTable

CONSTANTS
  Employees,    \* those with a device (an employee here is also his record's id)
  Times,        \* the instants syslog events and corrections carry
  Handlers,     \* the callers of SyslogPipeline.Handle
  Udp,          \* the UDP loop, if it is one: its error stops the process
  Admins,       \* concurrent PATCH /api/attendance/{id} requests
  MaxVersion,   \* bound: corrections stop at this record version
  MaxReports,   \* bound: events and corrections stop at this number of reports
  MaxFlows      \* bound: deliveries stop at this number of flows

ASSUME AttendanceAssumption ==
  /\ Times \subseteq {time \in Nat : time >= Second}
  /\ Handlers \cap Admins = {}
  /\ "dayEnd" \notin Handlers \cup Admins
  /\ MaxVersion \in Nat
  /\ MaxReports \in Nat
  /\ MaxFlows \in Nat

VARIABLES
  records,      \* attendance_records, by employee
  reports,      \* attendance_reports
  flows,        \* the attendance flows Feishu was ever given
  dayEndRun,    \* whether day_end_runs has a row for the date
  handler,      \* what each caller of the pipeline is doing
  admin,        \* what each correction request is doing
  dayEnd        \* what the day-end loop is doing

vars == <<records, reports, flows, dayEndRun, handler, admin, dayEnd>>

-----------------------------------------------------------------------------
(* Attendance records: as a service computes with them, and as their row   *)
(* keeps them. Version 0 marks an employee without a row.                  *)

RecordWith(times) ==
  [first : times, last : times, clockIn : {"pending", "done"},
   clockOut : {"pending", "missing", "done"},
   exception : {"none", "missing_disconnect"}, mode : {"syslog", "manual"},
   version : Nat]

\* Heard, corrected, or read from a row (a NULL included)
Instants == Times \cup WholeSeconds

Record == RecordWith(Instants)

StoredRecord == RecordWith(WholeSeconds)

\* What the two DATETIME columns make of a record that is saved
Stored(rec) == [rec EXCEPT !.first = Rounded(@), !.last = Rounded(@)]

NewRecord ==
  [first |-> NoTime, last |-> NoTime, clockIn |-> "pending",
   clockOut |-> "pending", exception |-> "none", mode |-> "syslog",
   version |-> 1]

NoRecord == [NewRecord EXCEPT !.version = 0]

Exists(emp) == records[emp].version # 0

TimeOf(rec, kind) == IF kind = "clock_in" THEN rec.first ELSE rec.last

\* CreatePendingReport, or CreateClearReport for a time that was removed
ReportFor(emp, rec, kind) ==
  LET time == TimeOf(rec, kind)
  IN  NewReport(IF time = NoTime THEN ClearKey(emp, kind, rec.version)
                ELSE BuildIdempotencyKey(emp, kind, time, rec.version))

-----------------------------------------------------------------------------
(* Local states *)

Idle == [pc |-> "idle"]

Event == [emp : Employees, kind : {"connect", "disconnect"}, time : Times]

HandlerState ==
  {Idle} \cup [pc : {"check", "save", "saveReport"}, event : Event, rec : Record]

KindSeqs == {<<>>, <<"clock_in">>, <<"clock_out">>, <<"clock_in", "clock_out">>}

ReportRow == Rows(Keys(Employees, {}))

AdminState ==
  {Idle} \cup [pc : {"loaded", "locked"}, emp : Employees, rec : Record,
               todo : KindSeqs, rows : Seq(ReportRow)]

\* listed: the rows ListByDateRange read; todo: those not yet finalized
DayEndState ==
  {Idle} \cup [pc : {"next"}, listed : [Employees -> StoredRecord],
               todo : SUBSET Employees]
         \cup [pc : {"delete", "save"}, listed : [Employees -> StoredRecord],
               todo : SUBSET Employees, emp : Employees, rows : Seq(ReportRow)]

\* The row lock a correction's transaction holds from its Save to its end
Locked(emp) == \E a \in Admins : admin[a].pc = "locked" /\ admin[a].emp = emp

Init ==
  /\ records = [e \in Employees |-> NoRecord]
  /\ reports = <<>>
  /\ flows = <<>>
  /\ dayEndRun = FALSE
  /\ handler = [h \in Handlers |-> Idle]
  /\ admin = [a \in Admins |-> Idle]
  /\ dayEnd = Idle

-----------------------------------------------------------------------------
(* SyslogPipeline.Handle *)

LoadAttendanceRecord(emp) == IF Exists(emp) THEN records[emp] ELSE NewRecord

ClockInNeedsReport(rec, event) ==
  /\ event.kind = "connect"
  /\ rec.first = NoTime \/ event.time < rec.first

\* Mutant: the newest disconnect message wins, whatever its time
ApplyNewestEvent(rec, event) ==
  IF ClockInNeedsReport(rec, event) THEN [rec EXCEPT !.first = event.time]
  ELSE IF event.kind = "disconnect" THEN [rec EXCEPT !.last = event.time]
       ELSE rec

ApplyEvent(rec, event) ==
  IF ClockInNeedsReport(rec, event) THEN [rec EXCEPT !.first = event.time]
  ELSE IF /\ event.kind = "disconnect"
          /\ rec.last = NoTime \/ event.time > rec.last
       THEN [rec EXCEPT !.last = event.time]
       ELSE rec

\* A message of a known device was parsed, stored and matched (Ingest), which
\* touches no attendance state; the record is read and the event applied
HandleEvent(h) ==
  /\ handler[h] = Idle
  /\ Len(reports) < MaxReports
  /\ \E event \in Event :
       LET loaded == LoadAttendanceRecord(event.emp)
       IN handler' = [handler EXCEPT ![h] =
            [pc |-> IF ClockInNeedsReport(loaded, event) THEN "check" ELSE "save",
             event |-> event, rec |-> ApplyEvent(loaded, event)]]
  /\ UNCHANGED <<records, reports, flows, dayEndRun, admin, dayEnd>>

ClockInKey(h) ==
  BuildIdempotencyKey(handler[h].event.emp, "clock_in", handler[h].event.time,
                      handler[h].rec.version)

CheckClockInKey(h) ==
  /\ handler[h].pc = "check"
  /\ handler' = [handler EXCEPT ![h].pc =
       IF FindByIdempotencyKey(reports, ClockInKey(h)) = {}
         THEN "saveReport" ELSE "save"]
  /\ UNCHANGED <<records, reports, flows, dayEndRun, admin, dayEnd>>

SaveAttendanceOnly(h) ==
  /\ handler[h].pc = "save"
  /\ ~ Locked(handler[h].event.emp)
  /\ records' = [records EXCEPT ![handler[h].event.emp] = Stored(handler[h].rec)]
  /\ handler' = [handler EXCEPT ![h] = Idle]
  /\ UNCHANGED <<reports, flows, dayEndRun, admin, dayEnd>>

\* Mutant: without the transaction the report may be lost after the record
SaveAttendanceMaybeReport(h) ==
  /\ handler[h].pc = "saveReport"
  /\ ~ Locked(handler[h].event.emp)
  /\ records' = [records EXCEPT ![handler[h].event.emp] = Stored(handler[h].rec)]
  /\ reports' \in {reports, SaveReport(reports, NewReport(ClockInKey(h)))}
  /\ handler' = [handler EXCEPT ![h] = Idle]
  /\ UNCHANGED <<flows, dayEndRun, admin, dayEnd>>

SaveAttendanceAndReport(h) ==
  /\ handler[h].pc = "saveReport"
  /\ ~ Locked(handler[h].event.emp)
  /\ records' = [records EXCEPT ![handler[h].event.emp] = Stored(handler[h].rec)]
  /\ reports' = SaveReport(reports, NewReport(ClockInKey(h)))
  /\ handler' = [handler EXCEPT ![h] = Idle]
  /\ UNCHANGED <<flows, dayEndRun, admin, dayEnd>>

\* A database error or a closed connection ends a debug request; the UDP
\* loop's error stops the process instead (Crash)
AbandonEvent(h) ==
  /\ h # Udp
  /\ handler[h] # Idle
  /\ handler' = [handler EXCEPT ![h] = Idle]
  /\ UNCHANGED <<records, reports, flows, dayEndRun, admin, dayEnd>>

-----------------------------------------------------------------------------
(* AttendanceAdminService.CorrectAttendance *)

\* The fields a request provides, each a new time or null
Corrections == UNION {[K -> Times \cup {NoTime}] : K \in SUBSET Kinds \ {{}}}

\* OptionalTimeField.Apply
NewTime(rec, change, kind) ==
  IF kind \in DOMAIN change THEN change[kind] ELSE TimeOf(rec, kind)

\* Mutant: the two status columns of a missing clock-out are swapped
ManualRecordSwapped(first, last, version) ==
  [first |-> first, last |-> last,
   clockIn |-> IF first = NoTime THEN "pending" ELSE "done",
   clockOut |-> IF last = NoTime THEN "missing_disconnect" ELSE "done",
   exception |-> IF last = NoTime THEN "missing" ELSE "none",
   mode |-> "manual", version |-> version]

ManualRecord(first, last, version) ==
  [first |-> first, last |-> last,
   clockIn |-> IF first = NoTime THEN "pending" ELSE "done",
   clockOut |-> IF last = NoTime THEN "missing" ELSE "done",
   exception |-> IF last = NoTime THEN "missing_disconnect" ELSE "none",
   mode |-> "manual", version |-> version]

\* Mutant: the correction keeps the record's version
CorrectedSameVersion(rec, change) ==
  ManualRecord(NewTime(rec, change, "clock_in"),
               NewTime(rec, change, "clock_out"), rec.version)

Corrected(rec, change) ==
  ManualRecord(NewTime(rec, change, "clock_in"),
               NewTime(rec, change, "clock_out"), rec.version + 1)

\* Mutant: a corrected clock-in is only queued when there was one before
ChangedKindsOfKnown(old, new) ==
  CASE old.first \notin {NoTime, new.first} /\ old.last # new.last -> <<"clock_in", "clock_out">>
    [] old.first \notin {NoTime, new.first} /\ old.last = new.last -> <<"clock_in">>
    [] old.first \in {NoTime, new.first} /\ old.last # new.last -> <<"clock_out">>
    [] OTHER -> <<>>

ChangedKinds(old, new) ==
  CASE old.first # new.first /\ old.last # new.last -> <<"clock_in", "clock_out">>
    [] old.first # new.first /\ old.last = new.last -> <<"clock_in">>
    [] old.first = new.first /\ old.last # new.last -> <<"clock_out">>
    [] OTHER -> <<>>

\* FindByID; a request that changes neither time returns here
LoadForCorrection(a) ==
  /\ admin[a] = Idle
  /\ Len(reports) < MaxReports
  /\ \E emp \in Employees, change \in Corrections :
       LET new == Corrected(records[emp], change)
           todo == ChangedKinds(records[emp], new)
       IN /\ Exists(emp)
          /\ records[emp].version < MaxVersion
          /\ todo # <<>>
          /\ admin' = [admin EXCEPT ![a] =
               [pc |-> "loaded", emp |-> emp, rec |-> new, todo |-> todo,
                rows |-> <<>>]]
  /\ UNCHANGED <<records, reports, flows, dayEndRun, handler, dayEnd>>

\* The transaction's Save of the record: seen by others at the commit only
LockRecord(a) ==
  /\ admin[a].pc = "loaded"
  /\ ~ Locked(admin[a].emp)
  /\ admin' = [admin EXCEPT ![a].pc = "locked"]
  /\ UNCHANGED <<records, reports, flows, dayEndRun, handler, dayEnd>>

\* The delete id is read outside the transaction, one report after the other
BuildCorrectionReport(a) ==
  /\ admin[a].pc = "locked"
  /\ admin[a].todo # <<>>
  /\ LET row == ReportFor(admin[a].emp, admin[a].rec, Head(admin[a].todo))
     IN admin' = [admin EXCEPT
          ![a].todo = Tail(@),
          ![a].rows = Append(@, CopyLatestDeleteRecordID(reports, row))]
  /\ UNCHANGED <<records, reports, flows, dayEndRun, handler, dayEnd>>

SaveReports(rows, new) ==
  IF Len(new) = 1 THEN SaveReport(rows, new[1])
  ELSE SaveReport(SaveReport(rows, new[1]), new[2])

CommitCorrection(a) ==
  /\ admin[a].pc = "locked"
  /\ admin[a].todo = <<>>
  /\ records' = [records EXCEPT ![admin[a].emp] = Stored(admin[a].rec)]
  /\ reports' = SaveReports(reports, admin[a].rows)
  /\ admin' = [admin EXCEPT ![a] = Idle]
  /\ UNCHANGED <<flows, dayEndRun, handler, dayEnd>>

RollbackCorrection(a) ==
  /\ admin[a] # Idle
  /\ admin' = [admin EXCEPT ![a] = Idle]
  /\ UNCHANGED <<records, reports, flows, dayEndRun, handler, dayEnd>>

-----------------------------------------------------------------------------
(* DayEndDispatcher.RunOnce, on a tick after the cutoff *)

\* Mutant: records whose clock-out a correction already marked are skipped
ListUndoneRecords ==
  /\ dayEnd = Idle
  /\ ~ dayEndRun
  /\ dayEnd' = [pc |-> "next", listed |-> records,
                todo |-> {emp \in Employees : /\ Exists(emp)
                                              /\ records[emp].clockOut # "done"}]
  /\ UNCHANGED <<records, reports, flows, dayEndRun, handler, admin>>

ListRecords ==
  /\ dayEnd = Idle
  /\ ~ dayEndRun
  /\ dayEnd' = [pc |-> "next", listed |-> records,
                todo |-> {emp \in Employees : Exists(emp)}]
  /\ UNCHANGED <<records, reports, flows, dayEndRun, handler, admin>>

FinalizeForDay(rec) ==
  IF rec.last = NoTime
    THEN [rec EXCEPT !.clockOut = "missing", !.exception = "missing_disconnect"]
    ELSE [rec EXCEPT !.clockOut = "done", !.exception = "none"]

\* Mutant: any clock-out report of the record counts, whatever its time
ClockOutQueuedAnyTime(emp, rec) ==
  rec.last # NoTime =>
    \E i \in 1..Len(reports) : /\ reports[i].key.emp = emp
                               /\ reports[i].key.kind = "clock_out"

\* Mutant: the clock-out key is never looked up
ClockOutNotLookedUp(emp, rec) == rec.last = NoTime

ClockOutQueued(emp, rec) ==
  rec.last # NoTime =>
    FindByIdempotencyKey(reports, ReportFor(emp, rec, "clock_out").key) # {}

\* FinalizeForDay and the look-up of the clock-out key
FinalizeRecord(emp) ==
  /\ dayEnd.pc = "next"
  /\ emp \in dayEnd.todo
  /\ dayEnd' =
       [pc |-> IF ClockOutQueued(emp, dayEnd.listed[emp]) THEN "save" ELSE "delete",
        listed |-> dayEnd.listed, todo |-> dayEnd.todo, emp |-> emp, rows |-> <<>>]
  /\ UNCHANGED <<records, reports, flows, dayEndRun, handler, admin>>

BuildClockOutReport ==
  /\ dayEnd.pc = "delete"
  /\ LET row == ReportFor(dayEnd.emp, dayEnd.listed[dayEnd.emp], "clock_out")
     IN dayEnd' = [dayEnd EXCEPT !.pc = "save",
                     !.rows = <<CopyLatestDeleteRecordID(reports, row)>>]
  /\ UNCHANGED <<records, reports, flows, dayEndRun, handler, admin>>

\* last_calculated_at always changes, so the listed record is always saved
SaveFinalized ==
  /\ dayEnd.pc = "save"
  /\ ~ Locked(dayEnd.emp)
  /\ records' = [records EXCEPT ![dayEnd.emp] =
                   Stored(FinalizeForDay(dayEnd.listed[dayEnd.emp]))]
  /\ reports' = IF dayEnd.rows = <<>> THEN reports
                ELSE SaveReport(reports, dayEnd.rows[1])
  /\ dayEnd' = [pc |-> "next", listed |-> dayEnd.listed,
                todo |-> dayEnd.todo \ {dayEnd.emp}]
  /\ UNCHANGED <<flows, dayEndRun, handler, admin>>

SaveRun ==
  /\ dayEnd.pc = "next"
  /\ dayEnd.todo = {}
  /\ dayEndRun' = TRUE
  /\ dayEnd' = Idle
  /\ UNCHANGED <<records, reports, flows, handler, admin>>

-----------------------------------------------------------------------------
(* The environment *)

\* AttendanceReportDispatcher in one successful step: the old flow deleted,
\* the new one created, the row marked
DeliverReport(i) ==
  LET row == reports[i]
      key == row.key
      kept == [j \in 1..Len(flows) |->
                 IF j = row.delete THEN [flows[j] EXCEPT !.live = FALSE] ELSE flows[j]]
  IN /\ row.status # "success"
     /\ Len(flows) < MaxFlows
     /\ IF key.act = "clear"
          THEN /\ flows' = kept
               /\ reports' = [reports EXCEPT ![i].status = "success",
                                             ![i].delete = NoFlow]
          ELSE /\ flows' = Append(kept, [emp |-> key.emp, kind |-> key.kind,
                                         time |-> key.time, live |-> TRUE])
               /\ reports' = [reports EXCEPT ![i].status = "success",
                                             ![i].delete = NoFlow,
                                             ![i].ext = Len(flows) + 1,
                                             ![i].notif = "success"]
     /\ UNCHANGED <<records, dayEndRun, handler, admin, dayEnd>>

\* The process stops, at any point, and is started again: transactions in
\* progress are rolled back, and what the handlers had read is lost
Crash ==
  /\ handler' = [h \in Handlers |-> Idle]
  /\ admin' = [a \in Admins |-> Idle]
  /\ dayEnd' = Idle
  /\ UNCHANGED <<records, reports, flows, dayEndRun>>

-----------------------------------------------------------------------------
PipelineStep(h) ==
  \/ HandleEvent(h) \/ CheckClockInKey(h)
  \/ SaveAttendanceOnly(h) \/ SaveAttendanceAndReport(h) \/ AbandonEvent(h)

CorrectionStep(a) ==
  \/ LoadForCorrection(a) \/ LockRecord(a) \/ BuildCorrectionReport(a)
  \/ CommitCorrection(a) \/ RollbackCorrection(a)

DayEndStep ==
  \/ ListRecords \/ (\E emp \in Employees : FinalizeRecord(emp))
  \/ BuildClockOutReport \/ SaveFinalized \/ SaveRun

DispatcherStep == \E i \in 1..Len(reports) : DeliverReport(i)

Next ==
  \/ \E h \in Handlers : PipelineStep(h)
  \/ \E a \in Admins : CorrectionStep(a)
  \/ DayEndStep
  \/ DispatcherStep
  \/ Crash

Spec == Init /\ [][Next]_vars

(***************************************************************************)
(* The same services, one request at a time: a handler starts only when no *)
(* other is in progress.                                                   *)
(***************************************************************************)
Active ==
  {h \in Handlers : handler[h] # Idle} \cup {a \in Admins : admin[a] # Idle}
    \cup (IF dayEnd = Idle THEN {} ELSE {"dayEnd"})

OneAtATime == \A p, q \in Active : p = q

SerialSpec == Init /\ [][Next /\ OneAtATime']_vars

(***************************************************************************)
(* The UDP loop alone, with the dispatcher and restarts: no debug request, *)
(* no correction, before the day's end.                                    *)
(***************************************************************************)
UdpNext == PipelineStep(Udp) \/ DispatcherStep \/ Crash

UdpSpec == Init /\ [][UdpNext]_vars

-----------------------------------------------------------------------------
(* Properties *)

\* Every variable has its type (all services, all interleavings)
TypeOK ==
  /\ records \in [Employees -> StoredRecord]
  /\ reports \in Seq(ReportRow)
  /\ flows \in Seq([emp : Employees, kind : Kinds, time : WholeSeconds, live : BOOLEAN])
  /\ dayEndRun \in BOOLEAN
  /\ handler \in [Handlers -> HandlerState]
  /\ admin \in [Admins -> AdminState]
  /\ dayEnd \in DayEndState

Queued(emp, kind, time) == HasCreate(reports, emp, kind, time)

\* A report carries a record's time, but for the second by which the time it
\* was computed from may be rounded up in the record and down in the report
WithinASecond(told, time) ==
  told = time \/ (told # NoTime /\ told + Second = time)

ClockInTold(rows, emp, first) ==
  \E told \in {first, first - Second} :
    WithinASecond(told, first) /\ HasCreate(rows, emp, "clock_in", told)

(***************************************************************************)
(* No clock-in time without a report: whoever wrote the first connect of a *)
(* record, in whatever order stale copies of the record were saved and     *)
(* wherever the process stopped, a report of that time, or of the second   *)
(* before, is in the table.                                                *)
(* The record and its report are saved in one transaction, and the day end *)
(* and the corrections only carry times that were queued before.           *)
(***************************************************************************)
EveryClockInQueued ==
  \A emp \in Employees :
    records[emp].first # NoTime => ClockInTold(reports, emp, records[emp].first)

(***************************************************************************)
(* When the day-end run goes on to its next record, and when it is marked  *)
(* as executed, every record it has passed has a report of the last        *)
(* disconnect it was listed with.                                          *)
(***************************************************************************)
RunCoversListedRecords ==
  dayEnd.pc = "next" =>
    \A emp \in Employees \ dayEnd.todo :
      LET last == dayEnd.listed[emp].last
      IN  last # NoTime => Queued(emp, "clock_out", last)

\* The time the newest report of a kind tells Feishu, NoTime for a clear
QueuedLast(emp, kind) ==
  LET mine == {i \in 1..Len(reports) : /\ reports[i].key.emp = emp
                                       /\ reports[i].key.kind = kind}
  IN  IF mine = {} THEN NoTime
      ELSE reports[CHOOSE i \in mine : \A j \in mine : j <= i].key.time

(***************************************************************************)
(* With one request at a time, whenever nothing is in progress the newest  *)
(* clock-in report of an employee carries the first connect of his record, *)
(* or of the second before (or clears it).                                 *)
(***************************************************************************)
ClockInQueueMatches ==
  Active = {} =>
    \A emp \in Employees :
      WithinASecond(QueuedLast(emp, "clock_in"), records[emp].first)

(***************************************************************************)
(* With one request at a time, at the moment the day-end run is about to   *)
(* be marked as executed the newest clock-out report of every employee     *)
(* carries the last disconnect of his record.                              *)
(***************************************************************************)
ClockOutQueueMatches ==
  dayEnd.pc = "next" /\ dayEnd.todo = {} =>
    \A emp \in Employees : QueuedLast(emp, "clock_out") = records[emp].last

(***************************************************************************)
(* A delivered report is never queued again when requests do not overlap:  *)
(* neither a late event, nor a correction, nor a day-end run repeated      *)
(* after a crash resets a row that was sent. (Two overlapping callers of   *)
(* the pipeline can: both miss the key before either has saved it.)        *)
(***************************************************************************)
DeliveredStaysDelivered ==
  [][\A i \in 1..Len(reports) :
       reports[i].status = "success" => reports'[i].status = "success"]_vars

(***************************************************************************)
(* The UDP loop alone, restarts included, implements the abstract day:     *)
(* records keep the earliest connect and the latest disconnect, to the     *)
(* second, and the report of a clock-in appears in the very step its time  *)
(* does.                                                                   *)
(***************************************************************************)
Day == INSTANCE AttendanceDay WITH
  first <- [emp \in Employees |-> records[emp].first],
  last <- [emp \in Employees |-> records[emp].last],
  queued <- {<<reports[i].key.emp, reports[i].key.time>> : i \in 1..Len(reports)}

ImplementsDay == Day!DaySpec

(***************************************************************************)
(* "The latest disconnect of the day is always kept": a disconnect time,   *)
(* once recorded, is only ever replaced by a later one.                    *)
(***************************************************************************)
LatestDisconnectKept ==
  [][\A emp \in Employees : records[emp].last <= records'[emp].last]_vars

(***************************************************************************)
(* "After a manual correction the version increases": the version of a     *)
(* record never goes back.                                                 *)
(***************************************************************************)
VersionNeverDecreases ==
  [][\A emp \in Employees : records[emp].version <= records'[emp].version]_vars
=============================================================================
