-------------------------- MODULE AttendanceProofs --------------------------
(***************************************************************************)
(* Proofs about Attendance for every set of employees, instants, handlers  *)
(* and administrators, and every bound.                                    *)
(*                                                                         *)
(* EveryClockInQueued is not inductive: what a handler will write is in    *)
(* its local copy of the record, not in the table.  The strengthening      *)
(* QueuedInv says the same of every copy: the record a pipeline handler is *)
(* about to save alone, the rows the day end listed, and the record of a   *)
(* correction once the reports it has built or still has to build are      *)
(* counted.  It is inductive because no step removes a report.             *)
(***************************************************************************)
EXTENDS Attendance, ReportTableProofs

QueuedFirst(rec, emp) ==
  rec.first # NoTime => ClockInTold(reports, emp, Rounded(rec.first))

\* A handler that found nothing to report carries a queued time; one that has
\* something to report carries the time it will report
HandlerQueued(h) ==
  /\ handler[h].pc = "save" => QueuedFirst(handler[h].rec, handler[h].event.emp)
  /\ handler[h].pc \in {"check", "saveReport"} =>
       handler[h].rec.first = handler[h].event.time

Covers(row, emp, rec) ==
  /\ row.key.emp = emp
  /\ row.key.kind = "clock_in"
  /\ row.key.act = "create"
  /\ row.key.time = Truncated(rec.first)

\* A correction's clock-in was queued before, or its report is built or next
AdminQueued(a) ==
  admin[a] # Idle =>
    /\ Len(admin[a].rows) + Len(admin[a].todo) \in {1, 2}
    /\ \/ QueuedFirst(admin[a].rec, admin[a].emp)
       \/ admin[a].todo # <<>> /\ Head(admin[a].todo) = "clock_in"
       \/ \E j \in 1..Len(admin[a].rows) :
            Covers(admin[a].rows[j], admin[a].emp, admin[a].rec)

DayEndQueued ==
  dayEnd # Idle =>
    /\ \A emp \in Employees : QueuedFirst(dayEnd.listed[emp], emp)
    /\ dayEnd.pc # "next" => Len(dayEnd.rows) \in {0, 1}

QueuedInv ==
  /\ \A emp \in Employees : QueuedFirst(records[emp], emp)
  /\ \A h \in Handlers : HandlerQueued(h)
  /\ \A a \in Admins : AdminQueued(a)
  /\ DayEndQueued

-----------------------------------------------------------------------------
(* Types of what the operators return *)

\* A record that is not in the table has no times
LEMMA NewRecordType ==
  /\ NewRecord \in Record /\ NoRecord \in Record
  /\ NewRecord \in StoredRecord /\ NoRecord \in StoredRecord
<1>1. NoTime \in WholeSeconds
  BY DEF NoTime, WholeSeconds, Second
<1>2. QED
  BY <1>1 DEF NewRecord, NoRecord, Record, StoredRecord, RecordWith, Instants

\* An instant is a number, and no NULL once it is formatted or stored
LEMMA InstantType ==
  ASSUME NEW time \in Instants
  PROVE  /\ time \in Nat
         /\ Truncated(time) \in WholeSeconds /\ Rounded(time) \in WholeSeconds
         /\ time # NoTime => Truncated(time) # NoTime /\ Rounded(time) # NoTime
         /\ Rounded(NoTime) = NoTime
<1>1. time \in Nat /\ (time # NoTime => time >= Second)
  BY AttendanceAssumption DEF Instants, WholeSeconds, Second, NoTime
<1>2. NoTime \in WholeSeconds
  BY DEF NoTime, WholeSeconds, Second
<1>3. Truncated(time) + Second > time
  BY <1>1, TruncatedTime
<1>4. Truncated(time) \in Nat /\ Rounded(time) \in Nat
  BY <1>1, TruncatedTime, RoundedTime DEF WholeSeconds
<1>5. time # NoTime => Truncated(time) # NoTime /\ Rounded(time) # NoTime
  BY <1>1, <1>3, <1>4, RoundedTime DEF NoTime, Second
<1>6. QED
  BY <1>1, <1>2, <1>5, TruncatedTime, RoundedTime, WholeTime

\* A stored record is a record; it has a time where the saved one has
LEMMA StoredType ==
  ASSUME NEW rec \in Record
  PROVE  /\ Stored(rec) \in StoredRecord
         /\ Stored(rec).first = Rounded(rec.first)
         /\ Stored(rec).last = Rounded(rec.last)
         /\ Stored(rec).version = rec.version
         /\ Rounded(Stored(rec).first) = Rounded(rec.first)
         /\ Stored(rec).first # NoTime => rec.first # NoTime
<1>1. rec.first \in Instants /\ rec.last \in Instants
  BY DEF Record, RecordWith
<1>2. /\ Rounded(rec.first) \in WholeSeconds
      /\ Rounded(rec.last) \in WholeSeconds
      /\ Rounded(NoTime) = NoTime
  BY <1>1, InstantType
<1>3. /\ Stored(rec) \in StoredRecord
      /\ Stored(rec).first = Rounded(rec.first)
      /\ Stored(rec).last = Rounded(rec.last)
      /\ Stored(rec).version = rec.version
  BY <1>2 DEF Stored, Record, RecordWith, StoredRecord, RecordWith
<1>4. QED
  BY <1>2, <1>3, WholeTime

\* A row's record is one a service can hold, with times that are kept
LEMMA StoredIsRecord ==
  ASSUME NEW rec \in StoredRecord
  PROVE  /\ rec \in Record
         /\ Rounded(rec.first) = rec.first /\ Rounded(rec.last) = rec.last
         /\ Truncated(rec.first) = rec.first /\ Truncated(rec.last) = rec.last
<1>1. rec.first \in WholeSeconds /\ rec.last \in WholeSeconds
  BY DEF StoredRecord, RecordWith
<1>2. rec \in Record
  BY DEF Record, RecordWith, StoredRecord, RecordWith, Instants
<1>3. QED
  BY <1>1, <1>2, WholeTime

\* A time whose report is queued is told
LEMMA QueuedIsTold ==
  ASSUME NEW rows, NEW emp, NEW time \in Instants, time # NoTime,
         HasCreate(rows, emp, "clock_in", Truncated(time))
  PROVE  ClockInTold(rows, emp, Rounded(time))
<1>1. /\ Truncated(time) \in Nat /\ Truncated(time) # NoTime
      /\ \/ Rounded(time) = Truncated(time)
         \/ Rounded(time) = Truncated(time) + Second
  BY InstantType, RoundedTime DEF WholeSeconds
<1>2. /\ WithinASecond(Truncated(time), Rounded(time))
      /\ Truncated(time) \in {Rounded(time), Rounded(time) - Second}
  BY <1>1 DEF WithinASecond, Second
<1>3. QED
  BY <1>2 DEF ClockInTold

\* applyEvent returns a record
LEMMA ApplyEventType ==
  ASSUME NEW rec \in Record, NEW event \in Event
  PROVE  ApplyEvent(rec, event) \in Record
  BY DEF ApplyEvent, Record, RecordWith, Event, Instants

\* A correction of a record is a record
LEMMA CorrectedType ==
  ASSUME NEW rec \in Record, NEW change \in Corrections
  PROVE  Corrected(rec, change) \in Record
<1>1. PICK K \in SUBSET Kinds : change \in [K -> Instants]
  <2>1. Times \cup {NoTime} \subseteq Instants
    BY DEF Instants, NoTime, WholeSeconds, Second
  <2>2. PICK K \in SUBSET Kinds : change \in [K -> Times \cup {NoTime}]
    BY DEF Corrections
  <2>3. QED
    BY <2>1, <2>2
<1>2. \A kind : NewTime(rec, change, kind) \in Instants
  BY <1>1 DEF NewTime, TimeOf, Record, RecordWith
<1>3. rec.version + 1 \in Nat
  BY DEF Record, RecordWith
<1>4. QED
  BY <1>2, <1>3 DEF Corrected, ManualRecord, Record, RecordWith

\* The day end's finalization of a record is a record
LEMMA FinalizeForDayType ==
  ASSUME NEW rec \in Record
  PROVE  FinalizeForDay(rec) \in Record
  BY DEF FinalizeForDay, Record, RecordWith

\* A new report is a row with the key it was built from
LEMMA NewReportType ==
  ASSUME NEW key \in Keys(Employees, {})
  PROVE  NewReport(key) \in ReportRow /\ NewReport(key).key = key
  BY DEF NewReport, ReportRow, Rows, NoFlow

\* A report built from a record is a row; its key holds the record's time
LEMMA ReportForType ==
  ASSUME NEW emp \in Employees, NEW rec \in Record, NEW kind \in Kinds
  PROVE  /\ ReportFor(emp, rec, kind) \in ReportRow
         /\ TimeOf(rec, kind) # NoTime =>
              ReportFor(emp, rec, kind).key =
                BuildIdempotencyKey(emp, kind, TimeOf(rec, kind), rec.version)
<1>1. TimeOf(rec, kind) \in Instants /\ rec.version \in Nat
  BY DEF TimeOf, Record, RecordWith
<1>2. /\ ClearKey(emp, kind, rec.version) \in Keys(Employees, {})
      /\ BuildIdempotencyKey(emp, kind, TimeOf(rec, kind), rec.version)
           \in Keys(Employees, {})
  <2>1. NoTime \in WholeSeconds
    BY DEF NoTime, WholeSeconds, Second
  <2>2. Truncated(TimeOf(rec, kind)) \in WholeSeconds
    BY <1>1, InstantType
  <2>3. QED
    BY <1>1, <2>1, <2>2 DEF ClearKey, BuildIdempotencyKey, Keys
<1>3. QED
  BY <1>2, NewReportType DEF ReportFor

\* Filling in the flow to delete leaves a row of the same key
LEMMA CopyLatestType ==
  ASSUME NEW rows \in Seq(ReportRow), NEW row \in ReportRow
  PROVE  /\ CopyLatestDeleteRecordID(rows, row) \in ReportRow
         /\ CopyLatestDeleteRecordID(rows, row).key = row.key
<1>1. \A r \in ReportRow : r.ext \in Nat
  BY DEF ReportRow, Rows
<1>2. LatestFlow(rows, row.key.emp, row.key.kind) \in Nat
  BY <1>1, LatestFlowType
<1>3. QED
  BY <1>2 DEF CopyLatestDeleteRecordID, ReportRow, Rows

\* The states a handler, a correction and the day end can be in, by their pc
LEMMA HandlerShape ==
  ASSUME NEW state \in HandlerState, state.pc \in {"check", "save", "saveReport"}
  PROVE  state \in [pc : {"check", "save", "saveReport"}, event : Event, rec : Record]
  BY DEF HandlerState, Idle

\* A correction in progress has all its fields, at either counter
LEMMA AdminShape ==
  ASSUME NEW state \in AdminState, state # Idle
  PROVE  state \in [pc : {"loaded", "locked"}, emp : Employees, rec : Record,
                    todo : KindSeqs, rows : Seq(ReportRow)]
  BY DEF AdminState

\* The fields a day-end run has at each of its counters
LEMMA DayEndShape ==
  ASSUME NEW state \in DayEndState
  PROVE  /\ state.pc = "next" =>
              state \in [pc : {"next"}, listed : [Employees -> StoredRecord],
                         todo : SUBSET Employees]
         /\ state.pc \in {"delete", "save"} =>
              state \in [pc : {"delete", "save"}, listed : [Employees -> StoredRecord],
                         todo : SUBSET Employees, emp : Employees,
                         rows : Seq(ReportRow)]
  BY DEF DayEndState, Idle

\* The clock-in report of an event is a row of the table
LEMMA ClockInKeyType ==
  ASSUME NEW h \in Handlers, handler[h] \in HandlerState,
         handler[h].pc \in {"check", "save", "saveReport"}
  PROVE  /\ ClockInKey(h) \in Keys(Employees, {})
         /\ NewReport(ClockInKey(h)) \in ReportRow
<1>1. handler[h] \in [pc : {"check", "save", "saveReport"}, event : Event, rec : Record]
  BY HandlerShape
<1>2. ClockInKey(h) \in Keys(Employees, {})
  <2>1. handler[h].event.emp \in Employees /\ handler[h].rec.version \in Nat
    BY <1>1 DEF Event, Record, RecordWith
  <2>2. Truncated(handler[h].event.time) \in WholeSeconds
    BY <1>1, InstantType DEF Event, Instants
  <2>3. QED
    BY <2>1, <2>2 DEF ClockInKey, BuildIdempotencyKey, Keys, Kinds
<1>3. QED
  BY <1>2, NewReportType

\* The one or two Saves of a correction leave a table of rows
LEMMA SaveReportsType ==
  ASSUME NEW rows \in Seq(ReportRow), NEW new \in Seq(ReportRow),
         Len(new) \in {1, 2}
  PROVE  SaveReports(rows, new) \in Seq(ReportRow)
<1>1. new[1] \in ReportRow
  OBVIOUS
<1>2. SaveReport(rows, new[1]) \in Seq(ReportRow)
  BY <1>1, SaveReportType
<1>3. CASE Len(new) = 1
  BY <1>2, <1>3 DEF SaveReports
<1>4. CASE Len(new) = 2
  <2>1. new[2] \in ReportRow
    BY <1>4
  <2>2. SaveReport(SaveReport(rows, new[1]), new[2]) \in Seq(ReportRow)
    BY <1>2, <2>1, SaveReportType
  <2>3. QED
    BY <1>4, <2>2 DEF SaveReports
<1>5. QED
  BY <1>3, <1>4

-----------------------------------------------------------------------------
(* Type correctness *)

\* Whoever rests holds nothing
LEMMA IdleType == Idle \in HandlerState /\ Idle \in AdminState /\ Idle \in DayEndState
  BY DEF HandlerState, AdminState, DayEndState

\* The empty tables and idle services are of their types
LEMMA InitType == Init => TypeOK
<1> SUFFICES ASSUME Init PROVE TypeOK
  OBVIOUS
<1>1. records \in [Employees -> StoredRecord]
  BY NewRecordType DEF Init
<1>2. \A S : reports \in Seq(S) /\ flows \in Seq(S)
  BY EmptySeq DEF Init
<1>3. /\ handler \in [Handlers -> HandlerState]
      /\ admin \in [Admins -> AdminState]
      /\ dayEnd \in DayEndState
  BY IdleType DEF Init
<1>4. QED
  BY <1>1, <1>2, <1>3 DEF Init, TypeOK

\* The rows of the table are records the services can hold
LEMMA RecordsType ==
  ASSUME TypeOK
  PROVE  /\ records \in [Employees -> Record]
         /\ \A emp \in Employees : records[emp] \in StoredRecord /\ records[emp] \in Record
  BY StoredIsRecord DEF TypeOK

\* No step of the pipeline breaks a type
LEMMA PipelineType ==
  ASSUME TypeOK, NEW h \in Handlers, PipelineStep(h)
  PROVE  TypeOK'
<1> USE DEF TypeOK
<1>1. CASE HandleEvent(h)
  <2>1. PICK event \in Event :
          handler' = [handler EXCEPT ![h] =
            [pc |-> IF ClockInNeedsReport(LoadAttendanceRecord(event.emp), event)
                      THEN "check" ELSE "save",
             event |-> event,
             rec |-> ApplyEvent(LoadAttendanceRecord(event.emp), event)]]
    BY <1>1 DEF HandleEvent
  <2>2. event.emp \in Employees
    BY DEF Event
  <2>3. LoadAttendanceRecord(event.emp) \in Record
    BY <2>2, NewRecordType, RecordsType DEF LoadAttendanceRecord
  <2>4. ApplyEvent(LoadAttendanceRecord(event.emp), event) \in Record
    BY <2>3, ApplyEventType
  <2>5. handler' \in [Handlers -> HandlerState]
    BY <2>1, <2>4 DEF HandlerState
  <2>6. QED
    BY <1>1, <2>5 DEF HandleEvent
<1>2. CASE CheckClockInKey(h)
  <2>1. handler[h] \in [pc : {"check", "save", "saveReport"}, event : Event, rec : Record]
    BY <1>2, HandlerShape DEF CheckClockInKey
  <2>2. handler' \in [Handlers -> HandlerState]
    BY <1>2, <2>1 DEF CheckClockInKey, HandlerState
  <2>3. QED
    BY <1>2, <2>2 DEF CheckClockInKey
<1>3. CASE SaveAttendanceOnly(h)
  <2>1. handler[h] \in [pc : {"check", "save", "saveReport"}, event : Event, rec : Record]
    BY <1>3, HandlerShape DEF SaveAttendanceOnly
  <2>2. handler' \in [Handlers -> HandlerState]
    BY <1>3 DEF SaveAttendanceOnly, HandlerState
  <2>3. records' \in [Employees -> StoredRecord]
    BY <1>3, <2>1, StoredType DEF SaveAttendanceOnly
  <2>4. QED
    BY <1>3, <2>2, <2>3 DEF SaveAttendanceOnly
<1>4. CASE SaveAttendanceAndReport(h)
  <2>1. handler[h] \in [pc : {"check", "save", "saveReport"}, event : Event, rec : Record]
    BY <1>4, HandlerShape DEF SaveAttendanceAndReport
  <2>2. handler' \in [Handlers -> HandlerState]
    BY <1>4 DEF SaveAttendanceAndReport, HandlerState
  <2>3. records' \in [Employees -> StoredRecord]
    BY <1>4, <2>1, StoredType DEF SaveAttendanceAndReport
  <2>4. NewReport(ClockInKey(h)) \in ReportRow
    BY <1>4, ClockInKeyType DEF SaveAttendanceAndReport
  <2>5. reports' \in Seq(ReportRow)
    BY <1>4, <2>4, SaveReportType DEF SaveAttendanceAndReport
  <2>6. QED
    BY <1>4, <2>2, <2>3, <2>5 DEF SaveAttendanceAndReport
<1>5. CASE AbandonEvent(h)
  <2>1. handler' \in [Handlers -> HandlerState]
    BY <1>5 DEF AbandonEvent, HandlerState
  <2>2. QED
    BY <1>5, <2>1 DEF AbandonEvent
<1>6. QED
  BY <1>1, <1>2, <1>3, <1>4, <1>5 DEF PipelineStep

\* No step of a correction breaks a type
LEMMA CorrectionType ==
  ASSUME TypeOK, NEW a \in Admins, AdminQueued(a), CorrectionStep(a)
  PROVE  TypeOK'
<1> USE DEF TypeOK
<1>1. CASE LoadForCorrection(a)
  <2>1. PICK emp \in Employees, change \in Corrections :
          admin' = [admin EXCEPT ![a] =
            [pc |-> "loaded", emp |-> emp, rec |-> Corrected(records[emp], change),
             todo |-> ChangedKinds(records[emp], Corrected(records[emp], change)),
             rows |-> <<>>]]
    BY <1>1 DEF LoadForCorrection
  <2>2. Corrected(records[emp], change) \in Record
    BY CorrectedType, RecordsType
  <2>3. \A old, new : ChangedKinds(old, new) \in KindSeqs
    BY DEF ChangedKinds, KindSeqs
  <2>4. admin' \in [Admins -> AdminState]
    BY <2>1, <2>2, <2>3 DEF AdminState
  <2>5. QED
    BY <1>1, <2>4 DEF LoadForCorrection
<1>2. CASE LockRecord(a)
  <2>1. admin[a] \in [pc : {"loaded", "locked"}, emp : Employees, rec : Record,
                      todo : KindSeqs, rows : Seq(ReportRow)]
    BY <1>2, AdminShape DEF LockRecord, Idle
  <2>2. admin' \in [Admins -> AdminState]
    BY <1>2, <2>1 DEF LockRecord, AdminState
  <2>3. QED
    BY <1>2, <2>2 DEF LockRecord
<1>3. CASE BuildCorrectionReport(a)
  <2>1. admin[a] \in [pc : {"loaded", "locked"}, emp : Employees, rec : Record,
                      todo : KindSeqs, rows : Seq(ReportRow)]
    BY <1>3, AdminShape DEF BuildCorrectionReport, Idle
  <2> DEFINE row == ReportFor(admin[a].emp, admin[a].rec, Head(admin[a].todo))
  <2>2. Head(admin[a].todo) \in Kinds /\ Tail(admin[a].todo) \in KindSeqs
    BY <1>3, <2>1 DEF BuildCorrectionReport, KindSeqs, Kinds
  <2>3. CopyLatestDeleteRecordID(reports, row) \in ReportRow
    BY <2>1, <2>2, ReportForType, CopyLatestType
  <2>4. admin' = [admin EXCEPT ![a] =
          [admin[a] EXCEPT
             !.todo = Tail(admin[a].todo),
             !.rows = Append(admin[a].rows, CopyLatestDeleteRecordID(reports, row))]]
    BY <1>3, <2>1 DEF BuildCorrectionReport
  <2>5. Append(admin[a].rows, CopyLatestDeleteRecordID(reports, row)) \in Seq(ReportRow)
    BY <2>1, <2>3, AppendProperties
  <2>6. [admin[a] EXCEPT
           !.todo = Tail(admin[a].todo),
           !.rows = Append(admin[a].rows, CopyLatestDeleteRecordID(reports, row))]
          \in AdminState
    <3> HIDE DEF row, TypeOK
    <3>1. QED
      BY <2>1, <2>2, <2>5 DEF AdminState
  <2>7. admin' \in [Admins -> AdminState]
    BY <2>4, <2>6
  <2>8. QED
    BY <1>3, <2>7 DEF BuildCorrectionReport
<1>4. CASE CommitCorrection(a)
  <2>1. admin[a] \in [pc : {"loaded", "locked"}, emp : Employees, rec : Record,
                      todo : KindSeqs, rows : Seq(ReportRow)]
    BY <1>4, AdminShape DEF CommitCorrection, Idle
  <2>2. Len(admin[a].rows) \in {1, 2}
    BY <1>4, <2>1 DEF CommitCorrection, AdminQueued, Idle
  <2>3. reports' \in Seq(ReportRow)
    BY <1>4, <2>1, <2>2, SaveReportsType DEF CommitCorrection
  <2>4. records' \in [Employees -> StoredRecord]
    BY <1>4, <2>1, StoredType DEF CommitCorrection
  <2>5. admin' \in [Admins -> AdminState]
    BY <1>4 DEF CommitCorrection, AdminState
  <2>6. QED
    BY <1>4, <2>3, <2>4, <2>5 DEF CommitCorrection
<1>5. CASE RollbackCorrection(a)
  <2>1. admin' \in [Admins -> AdminState]
    BY <1>5 DEF RollbackCorrection, AdminState
  <2>2. QED
    BY <1>5, <2>1 DEF RollbackCorrection
<1>6. QED
  BY <1>1, <1>2, <1>3, <1>4, <1>5 DEF CorrectionStep

\* No step of the day end breaks a type
LEMMA DayEndType ==
  ASSUME TypeOK, DayEndQueued, DayEndStep
  PROVE  TypeOK'
<1> USE DEF TypeOK
<1>1. CASE ListRecords
  <2>1. dayEnd' \in DayEndState
    BY <1>1 DEF ListRecords, DayEndState
  <2>2. QED
    BY <1>1, <2>1 DEF ListRecords
<1>2. ASSUME NEW emp \in Employees, FinalizeRecord(emp)
      PROVE  TypeOK'
  <2>1. dayEnd' \in DayEndState
    BY <1>2, DayEndShape DEF FinalizeRecord, DayEndState
  <2>2. QED
    BY <1>2, <2>1 DEF FinalizeRecord
<1>3. CASE BuildClockOutReport
  <2>1. dayEnd \in [pc : {"delete", "save"}, listed : [Employees -> StoredRecord],
                    todo : SUBSET Employees, emp : Employees, rows : Seq(ReportRow)]
    BY <1>3, DayEndShape DEF BuildClockOutReport
  <2> DEFINE row == ReportFor(dayEnd.emp, dayEnd.listed[dayEnd.emp], "clock_out")
  <2>2. CopyLatestDeleteRecordID(reports, row) \in ReportRow
    BY <2>1, StoredIsRecord, ReportForType, CopyLatestType DEF Kinds
  <2>3. <<CopyLatestDeleteRecordID(reports, row)>> \in Seq(ReportRow)
    BY <2>2
  <2>4. dayEnd' \in DayEndState
    BY <1>3, <2>1, <2>3 DEF BuildClockOutReport, DayEndState
  <2>5. QED
    BY <1>3, <2>4 DEF BuildClockOutReport
<1>4. CASE SaveFinalized
  <2>1. dayEnd \in [pc : {"delete", "save"}, listed : [Employees -> StoredRecord],
                    todo : SUBSET Employees, emp : Employees, rows : Seq(ReportRow)]
    BY <1>4, DayEndShape DEF SaveFinalized
  <2>2. Len(dayEnd.rows) \in {0, 1}
    BY <1>4 DEF SaveFinalized, DayEndQueued, Idle
  <2>3. FinalizeForDay(dayEnd.listed[dayEnd.emp]) \in Record
    BY <2>1, StoredIsRecord, FinalizeForDayType
  <2>4. records' \in [Employees -> StoredRecord]
    BY <1>4, <2>1, <2>3, StoredType DEF SaveFinalized
  <2>5. reports' \in Seq(ReportRow)
    <3>1. CASE dayEnd.rows = <<>>
      BY <1>4, <3>1 DEF SaveFinalized
    <3>2. CASE dayEnd.rows # <<>>
      <4>1. dayEnd.rows[1] \in ReportRow
        BY <2>1, <2>2, <3>2
      <4>2. QED
        BY <1>4, <3>2, <4>1, SaveReportType DEF SaveFinalized
    <3>3. QED
      BY <3>1, <3>2
  <2>6. dayEnd' \in DayEndState
    BY <1>4, <2>1 DEF SaveFinalized, DayEndState
  <2>7. QED
    BY <1>4, <2>4, <2>5, <2>6 DEF SaveFinalized
<1>5. CASE SaveRun
  <2>1. dayEnd' \in DayEndState
    BY <1>5 DEF SaveRun, DayEndState
  <2>2. QED
    BY <1>5, <2>1 DEF SaveRun
<1>6. QED
  BY <1>1, <1>2, <1>3, <1>4, <1>5 DEF DayEndStep

\* A delivery keeps the table a table
LEMMA DeliverType ==
  ASSUME TypeOK, NEW i \in 1..Len(reports), DeliverReport(i)
  PROVE  TypeOK'
<1> USE DEF TypeOK
<1> DEFINE Flow == [emp : Employees, kind : Kinds, time : WholeSeconds, live : BOOLEAN]
           kept == [j \in 1..Len(flows) |->
                      IF j = reports[i].delete
                        THEN [flows[j] EXCEPT !.live = FALSE] ELSE flows[j]]
<1>1. reports[i] \in ReportRow
  OBVIOUS
<1>2. kept \in Seq(Flow)
  <2>1. ASSUME NEW j \in 1..Len(flows) PROVE kept[j] \in Flow
    <3>1. flows[j] \in Flow
      BY ElementOfSeq
    <3>2. [flows[j] EXCEPT !.live = FALSE] \in Flow
      BY <3>1
    <3>3. kept[j] \in {flows[j], [flows[j] EXCEPT !.live = FALSE]}
      OBVIOUS
    <3>4. QED
      BY <3>1, <3>2, <3>3
  <2>2. Len(flows) \in Nat
    OBVIOUS
  <2>3. QED
    BY <2>1, <2>2, IsASeq
<1>3. Append(kept, [emp |-> reports[i].key.emp, kind |-> reports[i].key.kind,
                    time |-> reports[i].key.time, live |-> TRUE]) \in Seq(Flow)
  <2>1. reports[i].key \in Keys(Employees, {})
    BY <1>1 DEF ReportRow, Rows
  <2>2. [emp |-> reports[i].key.emp, kind |-> reports[i].key.kind,
         time |-> reports[i].key.time, live |-> TRUE] \in Flow
    BY <2>1 DEF Keys
  <2>3. QED
    BY <1>2, <2>2, AppendProperties
<1>4. flows' \in Seq(Flow)
  BY <1>2, <1>3 DEF DeliverReport
<1>5. reports' \in Seq(ReportRow)
  <2>1. Len(flows) + 1 \in Nat /\ NoFlow \in Nat
    BY DEF NoFlow
  <2>2. PICK row \in ReportRow : reports' = [reports EXCEPT ![i] = row]
    <3>1. CASE reports[i].key.act = "clear"
      <4>1. reports' = [reports EXCEPT ![i] =
              [reports[i] EXCEPT !.status = "success", !.delete = NoFlow]]
        BY <3>1 DEF DeliverReport
      <4>2. QED
        BY <1>1, <2>1, <4>1 DEF ReportRow, Rows
    <3>2. CASE reports[i].key.act # "clear"
      <4>1. reports' = [reports EXCEPT ![i] =
              [reports[i] EXCEPT !.status = "success", !.delete = NoFlow,
                                 !.ext = Len(flows) + 1, !.notif = "success"]]
        BY <3>2 DEF DeliverReport
      <4>2. QED
        BY <1>1, <2>1, <4>1 DEF ReportRow, Rows
    <3>3. QED
      BY <3>1, <3>2
  <2>3. QED
    BY <2>2, ExceptSeq
<1>6. QED
  BY <1>4, <1>5 DEF DeliverReport

\* A restart forgets the services' states and breaks no type
LEMMA CrashType == TypeOK /\ Crash => TypeOK'
  BY DEF TypeOK, Crash, HandlerState, AdminState, DayEndState

\* No step of the program breaks a type
LEMMA TypeStep == TypeOK /\ QueuedInv /\ [Next]_vars => TypeOK'
<1> SUFFICES ASSUME TypeOK, QueuedInv, [Next]_vars
             PROVE  TypeOK'
  OBVIOUS
<1>1. ASSUME NEW h \in Handlers, PipelineStep(h) PROVE TypeOK'
  BY <1>1, PipelineType
<1>2. ASSUME NEW a \in Admins, CorrectionStep(a) PROVE TypeOK'
  BY <1>2, CorrectionType DEF QueuedInv
<1>3. CASE DayEndStep
  BY <1>3, DayEndType DEF QueuedInv
<1>4. ASSUME NEW i \in 1..Len(reports), DeliverReport(i) PROVE TypeOK'
  BY <1>4, DeliverType
<1>5. CASE Crash
  BY <1>5, CrashType
<1>6. CASE UNCHANGED vars
  BY <1>6 DEF vars, TypeOK
<1>7. QED
  BY <1>1, <1>2, <1>3, <1>4, <1>5, <1>6 DEF Next, DispatcherStep

-----------------------------------------------------------------------------
(* No clock-in without a report *)

QueuedStays ==
  /\ \A emp, kind, time : Queued(emp, kind, time) => Queued(emp, kind, time)'
  /\ \A emp, first :
       ClockInTold(reports, emp, first) => ClockInTold(reports', emp, first)

\* A table that only gains keys keeps what it tells
LEMMA TableGrows ==
  ASSUME \A emp, kind, time : HasCreate(reports, emp, kind, time)
                                => HasCreate(reports', emp, kind, time)
  PROVE  QueuedStays
  BY DEF QueuedStays, Queued, ClockInTold

\* Reports saved by a handler, a correction or the day end only add to the queue
LEMMA SavedStays ==
  ASSUME TypeOK, NEW row \in ReportRow, reports' = SaveReport(reports, row)
  PROVE  /\ QueuedStays
         /\ row.key.act = "create" =>
              Queued(row.key.emp, row.key.kind, row.key.time)'
<1>1. reports \in Seq(ReportRow)
  BY DEF TypeOK
<1>2. QED
  BY <1>1, SaveReportQueues, TableGrows DEF Queued

\* Both reports of a correction are queued, and nothing else leaves the queue
LEMMA SavedReportsStay ==
  ASSUME TypeOK, NEW new \in Seq(ReportRow), Len(new) \in {1, 2},
         reports' = SaveReports(reports, new)
  PROVE  /\ QueuedStays
         /\ \A j \in 1..Len(new) : new[j].key.act = "create" =>
              Queued(new[j].key.emp, new[j].key.kind, new[j].key.time)'
<1>1. reports \in Seq(ReportRow) /\ new[1] \in ReportRow
  BY DEF TypeOK
<1> DEFINE once == SaveReport(reports, new[1])
<1>2. once \in Seq(ReportRow)
  BY <1>1, SaveReportType
<1>3. /\ \A emp, kind, time :
           HasCreate(reports, emp, kind, time) => HasCreate(once, emp, kind, time)
      /\ new[1].key.act = "create" =>
           HasCreate(once, new[1].key.emp, new[1].key.kind, new[1].key.time)
  BY <1>1, SaveReportQueues
<1>4. CASE Len(new) = 1
  <2>1. reports' = once
    BY <1>4 DEF SaveReports
  <2>2. QED
    BY <1>3, <1>4, <2>1, TableGrows DEF Queued
<1>5. CASE Len(new) = 2
  <2>1. new[2] \in ReportRow
    BY <1>5
  <2>2. reports' = SaveReport(once, new[2])
    BY <1>5 DEF SaveReports
  <2> HIDE DEF once
  <2>3. /\ \A emp, kind, time :
             HasCreate(once, emp, kind, time) => HasCreate(reports', emp, kind, time)
        /\ new[2].key.act = "create" =>
             HasCreate(reports', new[2].key.emp, new[2].key.kind, new[2].key.time)
    BY <1>2, <2>1, <2>2, SaveReportQueues
  <2>4. QED
    BY <1>3, <1>5, <2>3, TableGrows DEF Queued
<1>6. QED
  BY <1>4, <1>5

\* Delivering a report leaves its key, and the others
LEMMA DeliveredReportStays ==
  ASSUME TypeOK, NEW i \in 1..Len(reports), DeliverReport(i)
  PROVE  QueuedStays
<1>1. reports \in Seq(ReportRow) /\ reports[i] \in ReportRow
  BY DEF TypeOK
<1>2. PICK row \in ReportRow : /\ reports' = [reports EXCEPT ![i] = row]
                               /\ row.key = reports[i].key
  <2> DEFINE cleared == [reports[i] EXCEPT !.status = "success", !.delete = NoFlow]
             created == [reports[i] EXCEPT !.status = "success", !.delete = NoFlow,
                                           !.ext = Len(flows) + 1, !.notif = "success"]
  <2>1. /\ cleared \in ReportRow /\ cleared.key = reports[i].key
        /\ created \in ReportRow /\ created.key = reports[i].key
    <3>1. Len(flows) + 1 \in Nat /\ NoFlow \in Nat
      BY DEF TypeOK, NoFlow
    <3>2. QED
      BY <1>1, <3>1 DEF ReportRow, Rows
  <2>2. reports' \in {[reports EXCEPT ![i] = cleared], [reports EXCEPT ![i] = created]}
    BY DEF DeliverReport
  <2> HIDE DEF cleared, created
  <2>3. QED
    BY <2>1, <2>2
<1>3. /\ Len(reports') = Len(reports)
      /\ \A j \in 1..Len(reports) : reports'[j].key = reports[j].key
  BY <1>1, <1>2
<1>4. QED
  BY <1>3, TableGrows DEF HasCreate

(***************************************************************************)
(* What a step has to show of the rows it leaves alone: they stay queued   *)
(* because the queue only grows.                                           *)
(***************************************************************************)
LEMMA FirstStaysQueued ==
  ASSUME QueuedStays, NEW rec, NEW emp, QueuedFirst(rec, emp)
  PROVE  rec.first # NoTime => ClockInTold(reports', emp, Rounded(rec.first))
  BY DEF QueuedFirst, QueuedStays

\* Stored records keep their reports while no record is written
LEMMA RecordsStay ==
  ASSUME QueuedStays, QueuedInv, UNCHANGED records
  PROVE  \A emp \in Employees : QueuedFirst(records[emp], emp)'
  BY DEF QueuedFirst, QueuedStays, QueuedInv

\* A handler that does nothing keeps its report
LEMMA HandlerStays ==
  ASSUME QueuedStays, QueuedInv, NEW h \in Handlers, handler'[h] = handler[h]
  PROVE  HandlerQueued(h)'
  BY DEF HandlerQueued, QueuedFirst, QueuedStays, QueuedInv

\* A correction that does nothing keeps what it owes
LEMMA AdminStays ==
  ASSUME QueuedStays, QueuedInv, NEW a \in Admins, admin'[a] = admin[a]
  PROVE  AdminQueued(a)'
<1>1. AdminQueued(a)
  BY DEF QueuedInv
<1>2. QueuedFirst(admin[a].rec, admin[a].emp)
        => QueuedFirst(admin[a].rec, admin[a].emp)'
  BY DEF QueuedFirst, QueuedStays
<1>3. QED
  BY <1>1, <1>2 DEF AdminQueued, Covers, Idle

\* The day end, doing nothing, keeps the reports of what it listed
LEMMA DayEndStays ==
  ASSUME QueuedStays, QueuedInv, UNCHANGED dayEnd
  PROVE  DayEndQueued'
  BY DEF DayEndQueued, QueuedFirst, QueuedStays, QueuedInv

\* Idle processes carry nothing
LEMMA IdleCarriesNothing ==
  /\ \A h \in Handlers : handler[h] = Idle => HandlerQueued(h)
  /\ \A a \in Admins : admin[a] = Idle => AdminQueued(a)
  /\ dayEnd = Idle => DayEndQueued
<1>1. Idle.pc = "idle"
  BY DEF Idle
<1>2. ASSUME NEW h \in Handlers, handler[h] = Idle PROVE HandlerQueued(h)
  BY <1>1, <1>2 DEF HandlerQueued
<1>3. ASSUME NEW a \in Admins, admin[a] = Idle PROVE AdminQueued(a)
  BY <1>3 DEF AdminQueued
<1>4. ASSUME dayEnd = Idle PROVE DayEndQueued
  BY <1>4 DEF DayEndQueued
<1>5. QED
  BY <1>2, <1>3, <1>4

\* Nothing queued is lost by a step that saves no report
LEMMA NoReportsChange == UNCHANGED reports => QueuedStays
  BY TableGrows

\* The first connect of a record, loaded or new, was queued
LEMMA LoadedQueued ==
  ASSUME QueuedInv, NEW emp \in Employees
  PROVE  QueuedFirst(LoadAttendanceRecord(emp), emp)
  BY DEF QueuedInv, LoadAttendanceRecord, NewRecord, QueuedFirst

\* An event either leaves the first connect or is the connect to report
LEMMA AppliedFirst ==
  ASSUME NEW rec \in Record, NEW event \in Event
  PROVE  ApplyEvent(rec, event).first =
           IF ClockInNeedsReport(rec, event) THEN event.time ELSE rec.first
  BY DEF ApplyEvent, Record, RecordWith

\* The pipeline saves a new clock-in with its report
LEMMA PipelineQueued ==
  ASSUME TypeOK, QueuedInv, NEW h \in Handlers, PipelineStep(h)
  PROVE  QueuedInv'
<1>1. CASE HandleEvent(h)
  <2>1. PICK event \in Event :
          handler' = [handler EXCEPT ![h] =
            [pc |-> IF ClockInNeedsReport(LoadAttendanceRecord(event.emp), event)
                      THEN "check" ELSE "save",
             event |-> event,
             rec |-> ApplyEvent(LoadAttendanceRecord(event.emp), event)]]
    BY <1>1 DEF HandleEvent
  <2> DEFINE loaded == LoadAttendanceRecord(event.emp)
  <2>2. event.emp \in Employees
    BY DEF Event
  <2>3. loaded \in Record
    BY <2>2, NewRecordType, RecordsType DEF LoadAttendanceRecord
  <2>4. QueuedFirst(loaded, event.emp)
    BY <2>2, LoadedQueued
  <2>5. QueuedStays
    BY <1>1, NoReportsChange DEF HandleEvent
  <2>6. ApplyEvent(loaded, event).first =
          IF ClockInNeedsReport(loaded, event) THEN event.time ELSE loaded.first
    BY <2>3, AppliedFirst
  <2>7. handler'[h] = [pc |-> IF ClockInNeedsReport(loaded, event)
                                THEN "check" ELSE "save",
                       event |-> event, rec |-> ApplyEvent(loaded, event)]
    BY <2>1 DEF TypeOK
  <2> HIDE DEF loaded
  <2>8. HandlerQueued(h)'
    <3>1. CASE ClockInNeedsReport(loaded, event)
      BY <2>6, <2>7, <3>1 DEF HandlerQueued
    <3>2. CASE ~ ClockInNeedsReport(loaded, event)
      <4>1. handler'[h].rec.first = loaded.first /\ handler'[h].event = event
        BY <2>6, <2>7, <3>2
      <4>2. handler'[h].rec.first # NoTime
              => ClockInTold(reports, event.emp, Rounded(handler'[h].rec.first))
        BY <2>4, <4>1 DEF QueuedFirst, Queued
      <4>3. handler'[h].pc = "save"
        BY <2>7, <3>2
      <4>4. QED
        BY <1>1, <4>1, <4>2, <4>3 DEF HandleEvent, HandlerQueued, QueuedFirst, Queued
    <3>3. QED
      BY <3>1, <3>2
  <2>9. \A k \in Handlers : k # h => handler'[k] = handler[k]
    BY <2>1 DEF TypeOK
  <2>10. QED
    BY <1>1, <2>5, <2>8, <2>9, RecordsStay, HandlerStays, AdminStays, DayEndStays
       DEF HandleEvent, QueuedInv
<1>2. CASE CheckClockInKey(h)
  <2>1. handler[h] \in [pc : {"check", "save", "saveReport"}, event : Event, rec : Record]
    BY <1>2, HandlerShape DEF CheckClockInKey, TypeOK
  <2>2. QueuedStays
    BY <1>2, NoReportsChange DEF CheckClockInKey
  <2>3. handler[h].rec.first = handler[h].event.time
    BY <1>2 DEF CheckClockInKey, QueuedInv, HandlerQueued
  <2>4. FindByIdempotencyKey(reports, ClockInKey(h)) # {}
          => ClockInTold(reports, handler[h].event.emp, Rounded(handler[h].event.time))
    <3>1. FindByIdempotencyKey(reports, ClockInKey(h)) # {}
            => HasCreate(reports, handler[h].event.emp, "clock_in",
                         Truncated(handler[h].event.time))
      BY DEF FindByIdempotencyKey, ClockInKey, BuildIdempotencyKey, HasCreate
    <3>2. handler[h].event.time \in Instants /\ handler[h].event.time # NoTime
      BY <2>1, AttendanceAssumption DEF Event, Instants, NoTime, Second
    <3>3. QED
      BY <3>1, <3>2, QueuedIsTold
  <2>5. /\ handler'[h].event = handler[h].event
        /\ handler'[h].rec = handler[h].rec
        /\ handler'[h].pc = IF FindByIdempotencyKey(reports, ClockInKey(h)) = {}
                              THEN "saveReport" ELSE "save"
        /\ \A k \in Handlers : k # h => handler'[k] = handler[k]
    BY <1>2, <2>1 DEF CheckClockInKey, TypeOK
  <2>6. HandlerQueued(h)'
    BY <2>2, <2>3, <2>4, <2>5 DEF HandlerQueued, QueuedFirst, QueuedStays
  <2>7. QED
    BY <1>2, <2>2, <2>5, <2>6, RecordsStay, HandlerStays, AdminStays, DayEndStays
       DEF CheckClockInKey, QueuedInv
<1>3. CASE SaveAttendanceOnly(h)
  <2>1. handler[h] \in [pc : {"check", "save", "saveReport"}, event : Event, rec : Record]
    BY <1>3, HandlerShape DEF SaveAttendanceOnly, TypeOK
  <2>2. QueuedStays
    BY <1>3, NoReportsChange DEF SaveAttendanceOnly
  <2>3. QueuedFirst(handler[h].rec, handler[h].event.emp)
    BY <1>3 DEF SaveAttendanceOnly, QueuedInv, HandlerQueued
  <2>4. /\ records'[handler[h].event.emp] = Stored(handler[h].rec)
        /\ \A emp \in Employees : emp # handler[h].event.emp => records'[emp] = records[emp]
    BY <1>3, <2>1 DEF SaveAttendanceOnly, TypeOK, Event
  <2>5. \A emp \in Employees : QueuedFirst(records[emp], emp)'
    <3>1. handler[h].rec \in Record
      BY <2>1
    <3>2. QueuedFirst(Stored(handler[h].rec), handler[h].event.emp)
      BY <2>3, <3>1, StoredType DEF QueuedFirst
    <3>3. QED
      BY <2>2, <2>4, <3>2 DEF QueuedFirst, QueuedStays, QueuedInv
  <2>6. handler'[h] = Idle /\ \A k \in Handlers : k # h => handler'[k] = handler[k]
    BY <1>3 DEF SaveAttendanceOnly, TypeOK
  <2>7. HandlerQueued(h)'
    BY <2>6 DEF HandlerQueued, Idle
  <2>8. QED
    BY <1>3, <2>2, <2>5, <2>6, <2>7, HandlerStays, AdminStays, DayEndStays
       DEF SaveAttendanceOnly, QueuedInv
<1>4. CASE SaveAttendanceAndReport(h)
  <2>1. handler[h] \in [pc : {"check", "save", "saveReport"}, event : Event, rec : Record]
    BY <1>4, HandlerShape DEF SaveAttendanceAndReport, TypeOK
  <2>2. PICK row \in ReportRow : row = NewReport(ClockInKey(h))
    BY <1>4, ClockInKeyType DEF SaveAttendanceAndReport, TypeOK
  <2>3. /\ QueuedStays
        /\ HasCreate(reports', handler[h].event.emp, "clock_in",
                     Truncated(handler[h].event.time))
    <3>1. /\ row.key.act = "create" /\ row.key.kind = "clock_in"
          /\ row.key.emp = handler[h].event.emp
          /\ row.key.time = Truncated(handler[h].event.time)
      BY <2>2 DEF NewReport, ClockInKey, BuildIdempotencyKey
    <3>2. reports' = SaveReport(reports, row)
      BY <1>4, <2>2 DEF SaveAttendanceAndReport
    <3>3. QueuedStays /\ HasCreate(reports', row.key.emp, row.key.kind, row.key.time)
      BY <3>1, <3>2, SavedStays DEF Queued
    <3>4. QED
      BY <3>1, <3>3
  <2>4. handler[h].rec.first = handler[h].event.time
    BY <1>4 DEF SaveAttendanceAndReport, QueuedInv, HandlerQueued
  <2>5. /\ records'[handler[h].event.emp] = Stored(handler[h].rec)
        /\ \A emp \in Employees : emp # handler[h].event.emp => records'[emp] = records[emp]
    BY <1>4, <2>1 DEF SaveAttendanceAndReport, TypeOK, Event
  <2>6. \A emp \in Employees : QueuedFirst(records[emp], emp)'
    <3>1. handler[h].event.time \in Instants /\ handler[h].event.time # NoTime
      BY <2>1, AttendanceAssumption DEF Event, Instants, NoTime, Second
    <3>2. ClockInTold(reports', handler[h].event.emp, Rounded(handler[h].event.time))
      BY <2>3, <3>1, QueuedIsTold
    <3>3. handler[h].rec \in Record
      BY <2>1
    <3>4. Rounded(Stored(handler[h].rec).first) = Rounded(handler[h].event.time)
      BY <2>4, <3>3, StoredType
    <3>5. QED
      BY <2>3, <2>5, <3>2, <3>4 DEF QueuedFirst, QueuedStays, QueuedInv
  <2>7. handler'[h] = Idle /\ \A k \in Handlers : k # h => handler'[k] = handler[k]
    BY <1>4 DEF SaveAttendanceAndReport, TypeOK
  <2>8. HandlerQueued(h)'
    BY <2>7 DEF HandlerQueued, Idle
  <2>9. QED
    BY <1>4, <2>3, <2>6, <2>7, <2>8, HandlerStays, AdminStays, DayEndStays
       DEF SaveAttendanceAndReport, QueuedInv
<1>5. CASE AbandonEvent(h)
  <2>1. QueuedStays
    BY <1>5, NoReportsChange DEF AbandonEvent
  <2>2. handler'[h] = Idle /\ \A k \in Handlers : k # h => handler'[k] = handler[k]
    BY <1>5 DEF AbandonEvent, TypeOK
  <2>3. HandlerQueued(h)'
    BY <2>2 DEF HandlerQueued, Idle
  <2>4. QED
    BY <1>5, <2>1, <2>2, <2>3, RecordsStay, HandlerStays, AdminStays, DayEndStays
       DEF AbandonEvent, QueuedInv
<1>6. QED
  BY <1>1, <1>2, <1>3, <1>4, <1>5 DEF PipelineStep

\* An administrator who is not correcting keeps his share of the invariant
LEMMA OtherAdmins ==
  ASSUME QueuedStays, QueuedInv, NEW a \in Admins,
         \A b \in Admins : b # a => admin'[b] = admin[b], AdminQueued(a)'
  PROVE  \A b \in Admins : AdminQueued(b)'
<1>1. ASSUME NEW b \in Admins, b # a PROVE AdminQueued(b)'
  BY <1>1, AdminStays
<1>2. QED
  BY <1>1

\* A correction commits a changed clock-in with its report
LEMMA CorrectionQueued ==
  ASSUME TypeOK, QueuedInv, NEW a \in Admins, CorrectionStep(a)
  PROVE  QueuedInv'
<1>1. CASE LoadForCorrection(a)
  <2>1. PICK emp \in Employees, change \in Corrections :
          /\ ChangedKinds(records[emp], Corrected(records[emp], change)) # <<>>
          /\ admin' = [admin EXCEPT ![a] =
               [pc |-> "loaded", emp |-> emp, rec |-> Corrected(records[emp], change),
                todo |-> ChangedKinds(records[emp], Corrected(records[emp], change)),
                rows |-> <<>>]]
    BY <1>1 DEF LoadForCorrection
  <2> DEFINE new == Corrected(records[emp], change)
             todo == ChangedKinds(records[emp], new)
  <2>2. /\ admin'[a].emp = emp /\ admin'[a].rec = new
        /\ admin'[a].todo = todo /\ admin'[a].rows = <<>>
        /\ \A b \in Admins : b # a => admin'[b] = admin[b]
    BY <2>1 DEF TypeOK
  <2>3. Len(todo) \in {1, 2}
    <3> HIDE DEF new
    <3>1. QED
      BY <2>1 DEF ChangedKinds, new
  <2>4. new.first # records[emp].first => Head(todo) = "clock_in"
    <3> HIDE DEF new
    <3>1. QED
      BY DEF ChangedKinds
  <2>5. QueuedFirst(records[emp], emp)
    BY DEF QueuedInv
  <2>6. QueuedStays
    BY <1>1, NoReportsChange DEF LoadForCorrection
  <2>7. Len(admin'[a].rows) + Len(admin'[a].todo) \in {1, 2}
    BY <2>2, <2>3
  <2>8. AdminQueued(a)'
    <3>1. CASE new.first = records[emp].first
      <4>1. admin'[a].rec.first # NoTime
              => ClockInTold(reports, emp, Rounded(admin'[a].rec.first))
        BY <2>2, <2>5, <3>1 DEF QueuedFirst, Queued
      <4>2. QED
        BY <1>1, <2>2, <2>7, <4>1
           DEF AdminQueued, QueuedFirst, Queued, LoadForCorrection
    <3>2. CASE new.first # records[emp].first
      BY <2>1, <2>2, <2>4, <2>7, <3>2 DEF AdminQueued
    <3>3. QED
      BY <3>1, <3>2
  <2>9. QED
    BY <1>1, <2>2, <2>6, <2>8, OtherAdmins, RecordsStay, HandlerStays, DayEndStays
       DEF LoadForCorrection, QueuedInv
<1>2. CASE LockRecord(a)
  <2>1. admin[a] \in [pc : {"loaded", "locked"}, emp : Employees, rec : Record,
                      todo : KindSeqs, rows : Seq(ReportRow)]
    BY <1>2, AdminShape DEF LockRecord, Idle, TypeOK
  <2>2. /\ admin'[a].emp = admin[a].emp /\ admin'[a].rec = admin[a].rec
        /\ admin'[a].todo = admin[a].todo /\ admin'[a].rows = admin[a].rows
        /\ \A b \in Admins : b # a => admin'[b] = admin[b]
    BY <1>2, <2>1 DEF LockRecord, TypeOK
  <2>3. QueuedStays
    BY <1>2, NoReportsChange DEF LockRecord
  <2>4. admin[a] # Idle /\ AdminQueued(a)
    BY <1>2 DEF LockRecord, Idle, QueuedInv
  <2>5. AdminQueued(a)'
    BY <1>2, <2>2, <2>4 DEF AdminQueued, Covers, QueuedFirst, Queued, LockRecord
  <2>6. QED
    BY <1>2, <2>2, <2>3, <2>5, OtherAdmins, RecordsStay, HandlerStays, DayEndStays
       DEF LockRecord, QueuedInv
<1>3. CASE BuildCorrectionReport(a)
  <2>1. admin[a] \in [pc : {"loaded", "locked"}, emp : Employees, rec : Record,
                      todo : KindSeqs, rows : Seq(ReportRow)]
    BY <1>3, AdminShape DEF BuildCorrectionReport, Idle, TypeOK
  <2>2. PICK kind \in Kinds : kind = Head(admin[a].todo)
    BY <1>3, <2>1 DEF BuildCorrectionReport, KindSeqs, Kinds
  <2>3. PICK row : row = CopyLatestDeleteRecordID(reports,
                           ReportFor(admin[a].emp, admin[a].rec, kind))
    OBVIOUS
  <2>4. row.key = ReportFor(admin[a].emp, admin[a].rec, kind).key
    <3>1. ReportFor(admin[a].emp, admin[a].rec, kind) \in ReportRow
      BY <2>1, ReportForType
    <3>2. QED
      BY <2>3, <3>1, CopyLatestType DEF TypeOK
  <2>5. kind = "clock_in" /\ admin[a].rec.first # NoTime
          => Covers(row, admin[a].emp, admin[a].rec)
    <3> SUFFICES ASSUME kind = "clock_in", admin[a].rec.first # NoTime
                 PROVE  Covers(row, admin[a].emp, admin[a].rec)
      OBVIOUS
    <3>1. TimeOf(admin[a].rec, kind) = admin[a].rec.first
      BY DEF TimeOf
    <3>2. row.key = BuildIdempotencyKey(admin[a].emp, kind, admin[a].rec.first,
                                        admin[a].rec.version)
      BY <2>1, <2>4, <3>1, ReportForType
    <3>3. QED
      BY <3>2 DEF Covers, BuildIdempotencyKey
  <2>6. /\ admin'[a].emp = admin[a].emp /\ admin'[a].rec = admin[a].rec
        /\ admin'[a].todo = Tail(admin[a].todo)
        /\ admin'[a].rows = Append(admin[a].rows, row)
        /\ \A b \in Admins : b # a => admin'[b] = admin[b]
    BY <1>3, <2>1, <2>2, <2>3 DEF BuildCorrectionReport, TypeOK
  <2>7. QueuedStays
    BY <1>3, NoReportsChange DEF BuildCorrectionReport
  <2>8. admin[a] # Idle /\ AdminQueued(a)
    BY <1>3 DEF BuildCorrectionReport, Idle, QueuedInv
  <2>9. /\ Len(admin'[a].rows) = Len(admin[a].rows) + 1
        /\ Len(admin'[a].todo) = Len(admin[a].todo) - 1
        /\ admin'[a].rows[Len(admin[a].rows) + 1] = row
        /\ \A j \in 1..Len(admin[a].rows) : admin'[a].rows[j] = admin[a].rows[j]
    <3>1. Len(Tail(admin[a].todo)) = Len(admin[a].todo) - 1
      BY <1>3, <2>1 DEF BuildCorrectionReport, KindSeqs
    <3>2. QED
      BY <2>1, <2>6, <3>1
  <2>10. Len(admin'[a].rows) + Len(admin'[a].todo) \in {1, 2}
    <3> DEFINE m == Len(admin[a].rows)
               n == Len(admin[a].todo)
    <3>1. m \in Nat /\ n \in Nat
      <4>1. Len(admin[a].rows) \in Nat
        BY <2>1
      <4>2. admin[a].todo \in KindSeqs
        BY <2>1
      <4>3. Len(admin[a].todo) \in Nat
        BY <4>2 DEF KindSeqs
      <4>4. QED
        BY <4>1, <4>3
    <3>2. m + n \in {1, 2}
      BY <2>8, <3>1 DEF AdminQueued
    <3>3. Len(admin'[a].rows) = m + 1 /\ Len(admin'[a].todo) = n - 1
      BY <2>9
    <3> HIDE DEF m, n
    <3>4. QED
      BY <3>1, <3>2, <3>3
  <2>11. AdminQueued(a)'
    <3>1. CASE QueuedFirst(admin[a].rec, admin[a].emp)
      BY <1>3, <2>6, <2>10, <3>1
         DEF AdminQueued, QueuedFirst, Queued, BuildCorrectionReport
    <3>2. CASE Head(admin[a].todo) = "clock_in"
      <4>1. CASE admin[a].rec.first = NoTime
        BY <2>6, <2>10, <4>1 DEF AdminQueued, QueuedFirst
      <4>2. CASE admin[a].rec.first # NoTime
        <5>1. Covers(row, admin[a].emp, admin[a].rec)
          BY <2>2, <2>5, <3>2, <4>2
        <5>2. Len(admin[a].rows) + 1 \in 1..Len(admin'[a].rows)
          BY <2>1, <2>9
        <5>3. QED
          BY <2>6, <2>9, <2>10, <5>1, <5>2 DEF AdminQueued, Covers
      <4>3. QED
        BY <4>1, <4>2
    <3>3. ASSUME NEW j \in 1..Len(admin[a].rows),
                 Covers(admin[a].rows[j], admin[a].emp, admin[a].rec)
          PROVE  AdminQueued(a)'
      <4>1. j \in 1..Len(admin'[a].rows)
        BY <2>1, <2>9
      <4>2. QED
        BY <2>6, <2>9, <2>10, <3>3, <4>1 DEF AdminQueued, Covers
    <3>4. QED
      BY <2>8, <3>1, <3>2, <3>3 DEF AdminQueued
  <2>12. QED
    BY <1>3, <2>6, <2>7, <2>11, OtherAdmins, RecordsStay, HandlerStays, DayEndStays
       DEF BuildCorrectionReport, QueuedInv
<1>4. CASE CommitCorrection(a)
  <2>1. admin[a] \in [pc : {"loaded", "locked"}, emp : Employees, rec : Record,
                      todo : KindSeqs, rows : Seq(ReportRow)]
    BY <1>4, AdminShape DEF CommitCorrection, Idle, TypeOK
  <2>2. admin[a] # Idle /\ AdminQueued(a) /\ admin[a].todo = <<>>
    BY <1>4 DEF CommitCorrection, Idle, QueuedInv
  <2>3. PICK new \in Seq(ReportRow) : new = admin[a].rows
    BY <2>1
  <2>4. Len(new) \in {1, 2}
    BY <2>2, <2>3 DEF AdminQueued
  <2>5. reports' = SaveReports(reports, new)
    BY <1>4, <2>3 DEF CommitCorrection
  <2>6. /\ QueuedStays
        /\ \A j \in 1..Len(new) : new[j].key.act = "create" =>
             HasCreate(reports', new[j].key.emp, new[j].key.kind, new[j].key.time)
    BY <2>4, <2>5, SavedReportsStay DEF Queued
  <2>7. admin[a].rec.first # NoTime
          => ClockInTold(reports', admin[a].emp, Rounded(admin[a].rec.first))
    <3>1. CASE QueuedFirst(admin[a].rec, admin[a].emp)
      BY <2>6, <3>1 DEF QueuedFirst, QueuedStays, Queued
    <3>2. ASSUME NEW j \in 1..Len(new), Covers(new[j], admin[a].emp, admin[a].rec)
          PROVE  admin[a].rec.first # NoTime
                   => ClockInTold(reports', admin[a].emp, Rounded(admin[a].rec.first))
      <4>1. HasCreate(reports', admin[a].emp, "clock_in", Truncated(admin[a].rec.first))
        BY <2>6, <3>2 DEF Covers
      <4>2. admin[a].rec.first \in Instants
        BY <2>1 DEF Record, RecordWith
      <4>3. QED
        BY <4>1, <4>2, QueuedIsTold
    <3>3. QED
      BY <2>2, <2>3, <3>1, <3>2 DEF AdminQueued
  <2>8. /\ records'[admin[a].emp] = Stored(admin[a].rec)
        /\ \A emp \in Employees : emp # admin[a].emp => records'[emp] = records[emp]
    BY <1>4, <2>1 DEF CommitCorrection, TypeOK
  <2>9. \A emp \in Employees : QueuedFirst(records[emp], emp)'
    <3>1. admin[a].rec \in Record
      BY <2>1
    <3>2. /\ Rounded(Stored(admin[a].rec).first) = Rounded(admin[a].rec.first)
          /\ Stored(admin[a].rec).first # NoTime => admin[a].rec.first # NoTime
      BY <3>1, StoredType
    <3>3. QED
      BY <2>6, <2>7, <2>8, <3>2 DEF QueuedFirst, QueuedStays, QueuedInv
  <2>10. admin'[a] = Idle /\ \A b \in Admins : b # a => admin'[b] = admin[b]
    BY <1>4 DEF CommitCorrection, TypeOK
  <2>11. AdminQueued(a)'
    BY <2>10 DEF AdminQueued
  <2>12. QED
    BY <1>4, <2>6, <2>9, <2>10, <2>11, OtherAdmins, HandlerStays, DayEndStays
       DEF CommitCorrection, QueuedInv
<1>5. CASE RollbackCorrection(a)
  <2>1. QueuedStays
    BY <1>5, NoReportsChange DEF RollbackCorrection
  <2>2. admin'[a] = Idle /\ \A b \in Admins : b # a => admin'[b] = admin[b]
    BY <1>5 DEF RollbackCorrection, TypeOK
  <2>3. AdminQueued(a)'
    BY <2>2 DEF AdminQueued
  <2>4. QED
    BY <1>5, <2>1, <2>2, <2>3, OtherAdmins, RecordsStay, HandlerStays, DayEndStays
       DEF RollbackCorrection, QueuedInv
<1>6. QED
  BY <1>1, <1>2, <1>3, <1>4, <1>5 DEF CorrectionStep

\* The day end leaves handlers and corrections alone
LEMMA ServicesStay ==
  ASSUME QueuedStays, QueuedInv, UNCHANGED <<handler, admin>>
  PROVE  /\ \A h \in Handlers : HandlerQueued(h)'
         /\ \A a \in Admins : AdminQueued(a)'
  BY HandlerStays, AdminStays

\* The day end writes back clock-ins that were already queued
LEMMA DayEndStepQueued ==
  ASSUME TypeOK, QueuedInv, DayEndStep
  PROVE  QueuedInv'
<1>1. CASE ListRecords
  <2>1. QueuedStays
    BY <1>1, NoReportsChange DEF ListRecords
  <2>2. dayEnd'.pc = "next" /\ dayEnd'.listed = records
    BY <1>1 DEF ListRecords
  <2>3. DayEndQueued'
    BY <1>1, <2>2 DEF ListRecords, DayEndQueued, QueuedInv, QueuedFirst, Queued
  <2>4. QED
    BY <1>1, <2>1, <2>3, RecordsStay, ServicesStay DEF ListRecords, QueuedInv
<1>2. ASSUME NEW emp \in Employees, FinalizeRecord(emp)
      PROVE  QueuedInv'
  <2>1. QueuedStays
    BY <1>2, NoReportsChange DEF FinalizeRecord
  <2>2. dayEnd'.listed = dayEnd.listed /\ Len(dayEnd'.rows) = 0
    BY <1>2 DEF FinalizeRecord
  <2>3. dayEnd # Idle /\ DayEndQueued
    BY <1>2 DEF FinalizeRecord, Idle, QueuedInv
  <2>4. DayEndQueued'
    BY <1>2, <2>2, <2>3 DEF FinalizeRecord, DayEndQueued, QueuedFirst, Queued
  <2>5. QED
    BY <1>2, <2>1, <2>4, RecordsStay, ServicesStay DEF FinalizeRecord, QueuedInv
<1>3. CASE BuildClockOutReport
  <2>1. QueuedStays
    BY <1>3, NoReportsChange DEF BuildClockOutReport
  <2>2. dayEnd \in [pc : {"delete", "save"}, listed : [Employees -> StoredRecord],
                    todo : SUBSET Employees, emp : Employees, rows : Seq(ReportRow)]
    BY <1>3, DayEndShape DEF BuildClockOutReport, TypeOK
  <2>3. dayEnd'.listed = dayEnd.listed /\ Len(dayEnd'.rows) = 1
    BY <1>3, <2>2 DEF BuildClockOutReport
  <2>4. dayEnd # Idle /\ DayEndQueued
    BY <1>3 DEF BuildClockOutReport, Idle, QueuedInv
  <2>5. DayEndQueued'
    BY <1>3, <2>3, <2>4 DEF BuildClockOutReport, DayEndQueued, QueuedFirst, Queued
  <2>6. QED
    BY <1>3, <2>1, <2>5, RecordsStay, ServicesStay DEF BuildClockOutReport, QueuedInv
<1>4. CASE SaveFinalized
  <2>1. dayEnd \in [pc : {"delete", "save"}, listed : [Employees -> StoredRecord],
                    todo : SUBSET Employees, emp : Employees, rows : Seq(ReportRow)]
    BY <1>4, DayEndShape DEF SaveFinalized, TypeOK
  <2>2. dayEnd # Idle /\ DayEndQueued
    BY <1>4 DEF SaveFinalized, Idle, QueuedInv
  <2>3. QueuedStays
    <3>1. CASE dayEnd.rows = <<>>
      BY <1>4, <3>1, NoReportsChange DEF SaveFinalized
    <3>2. CASE dayEnd.rows # <<>>
      <4>1. Len(dayEnd.rows) = 1
        BY <1>4, <2>1, <2>2, <3>2 DEF SaveFinalized, DayEndQueued
      <4>2. PICK row \in ReportRow : row = dayEnd.rows[1]
        BY <2>1, <4>1
      <4>3. reports' = SaveReport(reports, row)
        BY <1>4, <3>2, <4>2 DEF SaveFinalized
      <4>4. QED
        BY <4>3, SavedStays
    <3>3. QED
      BY <3>1, <3>2
  <2>4. /\ dayEnd.emp \in Employees
        /\ dayEnd.listed[dayEnd.emp] \in Record
    BY <2>1, StoredIsRecord
  <2> DEFINE final == FinalizeForDay(dayEnd.listed[dayEnd.emp])
  <2>5. final \in Record /\ final.first = dayEnd.listed[dayEnd.emp].first
    <3>1. FinalizeForDay(dayEnd.listed[dayEnd.emp]).first = dayEnd.listed[dayEnd.emp].first
      BY <2>4 DEF FinalizeForDay, Record, RecordWith
    <3>2. QED
      BY <2>4, <3>1, FinalizeForDayType
  <2>6. /\ records'[dayEnd.emp] = Stored(final)
        /\ \A emp \in Employees : emp # dayEnd.emp => records'[emp] = records[emp]
    BY <1>4, <2>4 DEF SaveFinalized, TypeOK
  <2>7. \A emp \in Employees : QueuedFirst(dayEnd.listed[emp], emp)
    BY <2>2 DEF DayEndQueued
  <2>8. \A emp \in Employees : QueuedFirst(records[emp], emp)'
    <3> HIDE DEF final
    <3>1. QueuedFirst(Stored(final), dayEnd.emp)
      BY <2>4, <2>5, <2>7, StoredType DEF QueuedFirst
    <3>2. QED
      BY <2>3, <2>4, <2>6, <2>7, <3>1 DEF QueuedFirst, QueuedStays, QueuedInv
  <2>9. dayEnd'.pc = "next" /\ dayEnd'.listed = dayEnd.listed
    BY <1>4 DEF SaveFinalized
  <2>10. DayEndQueued'
    BY <2>3, <2>7, <2>9 DEF DayEndQueued, QueuedFirst, Queued, QueuedStays
  <2>11. QED
    BY <1>4, <2>3, <2>8, <2>10, ServicesStay DEF SaveFinalized, QueuedInv
<1>5. CASE SaveRun
  <2>1. QueuedStays
    BY <1>5, NoReportsChange DEF SaveRun
  <2>2. DayEndQueued'
    BY <1>5 DEF SaveRun, DayEndQueued
  <2>3. QED
    BY <1>5, <2>1, <2>2, RecordsStay, ServicesStay DEF SaveRun, QueuedInv
<1>6. QED
  BY <1>1, <1>2, <1>3, <1>4, <1>5 DEF DayEndStep

\* A delivery changes neither a key nor a record
LEMMA DeliverQueued ==
  ASSUME TypeOK, QueuedInv, NEW i \in 1..Len(reports), DeliverReport(i)
  PROVE  QueuedInv'
<1>1. QueuedStays
  BY DeliveredReportStays
<1>2. UNCHANGED <<records, handler, admin, dayEnd>>
  BY DEF DeliverReport
<1>3. QED
  BY <1>1, <1>2, RecordsStay, ServicesStay, DayEndStays DEF QueuedInv

\* A restart forgets the copies and keeps the tables
LEMMA CrashQueued ==
  ASSUME QueuedInv, Crash
  PROVE  QueuedInv'
<1>1. QueuedStays
  BY NoReportsChange DEF Crash
<1>2. \A h \in Handlers : HandlerQueued(h)'
  BY DEF Crash, HandlerQueued, Idle
<1>3. \A a \in Admins : AdminQueued(a)'
  BY DEF Crash, AdminQueued
<1>4. DayEndQueued'
  BY DEF Crash, DayEndQueued
<1>5. QED
  BY <1>1, <1>2, <1>3, <1>4, RecordsStay DEF Crash, QueuedInv

\* At the start nothing is recorded and nothing is owed
LEMMA QueuedInit == Init => QueuedInv
<1> SUFFICES ASSUME Init PROVE QueuedInv
  OBVIOUS
<1>1. \A emp \in Employees : QueuedFirst(records[emp], emp)
  BY DEF Init, QueuedFirst, NoRecord, NewRecord
<1>2. QED
  BY <1>1, IdleCarriesNothing DEF Init, QueuedInv

\* No step of the program leaves a clock-in unqueued
LEMMA QueuedStep == TypeOK /\ QueuedInv /\ [Next]_vars => QueuedInv'
<1> SUFFICES ASSUME TypeOK, QueuedInv, [Next]_vars
             PROVE  QueuedInv'
  OBVIOUS
<1>1. ASSUME NEW h \in Handlers, PipelineStep(h) PROVE QueuedInv'
  BY <1>1, PipelineQueued
<1>2. ASSUME NEW a \in Admins, CorrectionStep(a) PROVE QueuedInv'
  BY <1>2, CorrectionQueued
<1>3. CASE DayEndStep
  BY <1>3, DayEndStepQueued
<1>4. ASSUME NEW i \in 1..Len(reports), DeliverReport(i) PROVE QueuedInv'
  BY <1>4, DeliverQueued
<1>5. CASE Crash
  BY <1>5, CrashQueued
<1>6. CASE UNCHANGED vars
  <2>1. QueuedStays
    BY <1>6, NoReportsChange DEF vars
  <2>2. QED
    BY <1>6, <2>1, RecordsStay, ServicesStay, DayEndStays DEF vars, QueuedInv
<1>7. QED
  BY <1>1, <1>2, <1>3, <1>4, <1>5, <1>6 DEF Next, DispatcherStep

-----------------------------------------------------------------------------
\* The strengthened invariant holds in every state
LEMMA Inductive == Spec => [](TypeOK /\ QueuedInv)
<1>1. Init => TypeOK /\ QueuedInv
  BY InitType, QueuedInit
<1>2. TypeOK /\ QueuedInv /\ [Next]_vars => (TypeOK /\ QueuedInv)'
  BY TypeStep, QueuedStep
<1>3. QED
  BY <1>1, <1>2, PTL DEF Spec

(***************************************************************************)
(* Type correctness, whatever the handlers interleave: each record, each   *)
(* report row and each local copy of the three services of syslog_pipeline,*)
(* admin_services and day_end_dispatcher keeps the values its columns can  *)
(* hold.                                                                   *)
(***************************************************************************)
THEOREM TypeCorrect == Spec => []TypeOK
<1>1. QED
  BY Inductive, PTL

(***************************************************************************)
(* Every first connect in attendance_records has its clock-in report in    *)
(* attendance_reports, for any number of employees, requests, corrections  *)
(* and crashes: saveAttendanceAndReportWithTx and the correction's         *)
(* transaction write the two together, and no other save invents a time.   *)
(***************************************************************************)
THEOREM ClockInsQueued == Spec => []EveryClockInQueued
<1>1. TypeOK /\ QueuedInv => EveryClockInQueued
  BY RecordsType, StoredIsRecord DEF QueuedInv, QueuedFirst, EveryClockInQueued
<1>2. QED
  BY <1>1, Inductive, PTL

-----------------------------------------------------------------------------
(***************************************************************************)
(* The day-end run leaves no listed disconnect behind.                     *)
(*                                                                         *)
(* RunCoversListedRecords speaks of a run between two records only, and of *)
(* all employees it does not have to finalize, so it needs two more facts: *)
(* an employee without a record has no disconnect, in the table and in     *)
(* every copy that will be saved (RowInv); and while a record is finalized *)
(* its clock-out was found in the table, or the row to be saved carries it *)
(* (RunInv).                                                               *)
(***************************************************************************)

\* No disconnect without a record; what will be saved is a record
RowInv ==
  /\ \A emp \in Employees : records[emp].version = 0 => records[emp].last = NoTime
  /\ \A h \in Handlers : handler[h] # Idle => handler[h].rec.version # 0
  /\ \A a \in Admins : admin[a] # Idle => admin[a].rec.version # 0
  /\ dayEnd # Idle =>
       \A emp \in dayEnd.todo : dayEnd.listed[emp].version # 0

Covered(emp) ==
  LET last == dayEnd.listed[emp].last
  IN  last # NoTime => Queued(emp, "clock_out", last)

CarriesClockOut(row, emp, rec) ==
  /\ row.key.emp = emp
  /\ row.key.kind = "clock_out"
  /\ row.key.act = "create"
  /\ row.key.time = rec.last

RunInv ==
  dayEnd # Idle =>
    /\ \A emp \in Employees \ dayEnd.todo : Covered(emp)
    /\ dayEnd.pc # "next" => dayEnd.emp \in dayEnd.todo
    /\ dayEnd.pc = "delete" => dayEnd.listed[dayEnd.emp].last # NoTime
    /\ dayEnd.pc = "save" =>
         IF dayEnd.rows = <<>> THEN Covered(dayEnd.emp)
         ELSE CarriesClockOut(dayEnd.rows[1], dayEnd.emp, dayEnd.listed[dayEnd.emp])

-----------------------------------------------------------------------------
(* The queue of reports only grows *)

\* No step takes a queued report away
LEMMA QueueGrows ==
  ASSUME TypeOK, QueuedInv, [Next]_vars
  PROVE  QueuedStays
<1>1. ASSUME NEW h \in Handlers, PipelineStep(h) PROVE QueuedStays
  <2>1. CASE SaveAttendanceAndReport(h)
    <3>1. PICK row \in ReportRow : row = NewReport(ClockInKey(h))
      BY <2>1, ClockInKeyType DEF SaveAttendanceAndReport, TypeOK
    <3>2. QED
      BY <2>1, <3>1, SavedStays DEF SaveAttendanceAndReport
  <2>2. CASE UNCHANGED reports
    BY <2>2, NoReportsChange
  <2>3. QED
    BY <1>1, <2>1, <2>2 DEF PipelineStep, HandleEvent, CheckClockInKey,
       SaveAttendanceOnly, AbandonEvent
<1>2. ASSUME NEW a \in Admins, CorrectionStep(a) PROVE QueuedStays
  <2>1. CASE CommitCorrection(a)
    <3>1. admin[a] # Idle /\ AdminQueued(a) /\ admin[a].todo = <<>>
      BY <2>1 DEF CommitCorrection, Idle, QueuedInv
    <3>2. PICK new \in Seq(ReportRow) : new = admin[a].rows
      BY <3>1, AdminShape DEF TypeOK
    <3>3. Len(new) \in {1, 2}
      BY <3>1, <3>2 DEF AdminQueued
    <3>4. QED
      BY <2>1, <3>2, <3>3, SavedReportsStay DEF CommitCorrection
  <2>2. CASE UNCHANGED reports
    BY <2>2, NoReportsChange
  <2>3. QED
    BY <1>2, <2>1, <2>2 DEF CorrectionStep, LoadForCorrection, LockRecord,
       BuildCorrectionReport, RollbackCorrection
<1>3. CASE DayEndStep
  <2>1. CASE SaveFinalized /\ dayEnd.rows # <<>>
    <3>1. PICK row \in ReportRow : row = dayEnd.rows[1]
      <4>1. dayEnd.rows \in Seq(ReportRow)
        BY <2>1, DayEndShape DEF SaveFinalized, TypeOK
      <4>2. QED
        BY <2>1, <4>1
    <3>2. QED
      BY <2>1, <3>1, SavedStays DEF SaveFinalized
  <2>2. CASE UNCHANGED reports
    BY <2>2, NoReportsChange
  <2>3. QED
    BY <1>3, <2>1, <2>2 DEF DayEndStep, ListRecords, FinalizeRecord,
       BuildClockOutReport, SaveFinalized, SaveRun
<1>4. CASE DispatcherStep
  BY <1>4, DeliveredReportStays DEF DispatcherStep
<1>5. CASE Crash \/ UNCHANGED vars
  BY <1>5, NoReportsChange DEF Crash, vars
<1>6. QED
  BY <1>1, <1>2, <1>3, <1>4, <1>5 DEF Next

-----------------------------------------------------------------------------
(* Rows and copies of rows *)

\* Handlers keep the rows
LEMMA RowInvPipeline ==
  ASSUME TypeOK, RowInv, NEW h \in Handlers, PipelineStep(h)
  PROVE  RowInv'
<1> USE DEF RowInv
<1>1. CASE HandleEvent(h)
  <2>1. PICK event \in Event :
          handler' = [handler EXCEPT ![h] =
            [pc |-> IF ClockInNeedsReport(LoadAttendanceRecord(event.emp), event)
                      THEN "check" ELSE "save",
             event |-> event,
             rec |-> ApplyEvent(LoadAttendanceRecord(event.emp), event)]]
    BY <1>1 DEF HandleEvent
  <2> DEFINE loaded == LoadAttendanceRecord(event.emp)
  <2>2. event.emp \in Employees
    BY DEF Event
  <2>3. loaded \in Record /\ loaded.version # 0
    BY <2>2, NewRecordType, RecordsType DEF LoadAttendanceRecord, Exists, NewRecord
  <2> HIDE DEF loaded
  <2>4. ApplyEvent(loaded, event).version # 0
    BY <2>3 DEF ApplyEvent, Record, RecordWith
  <2>5. handler'[h].rec.version # 0 /\ \A k \in Handlers : k # h => handler'[k] = handler[k]
    BY <2>1, <2>4 DEF TypeOK, loaded
  <2>6. QED
    BY <1>1, <2>5 DEF HandleEvent
<1>2. CASE CheckClockInKey(h)
  <2>1. handler[h] \in [pc : {"check", "save", "saveReport"}, event : Event, rec : Record]
    BY <1>2, HandlerShape DEF CheckClockInKey, TypeOK
  <2>2. handler[h] # Idle
    BY <1>2 DEF CheckClockInKey, Idle
  <2>3. handler'[h].rec = handler[h].rec /\ \A k \in Handlers : k # h => handler'[k] = handler[k]
    BY <1>2, <2>1 DEF CheckClockInKey, TypeOK
  <2>4. QED
    BY <1>2, <2>2, <2>3 DEF CheckClockInKey
<1>3. CASE SaveAttendanceOnly(h) \/ SaveAttendanceAndReport(h)
  <2>1. handler[h] \in [pc : {"check", "save", "saveReport"}, event : Event, rec : Record]
    BY <1>3, HandlerShape DEF SaveAttendanceOnly, SaveAttendanceAndReport, TypeOK
  <2>2. handler[h] # Idle
    BY <1>3 DEF SaveAttendanceOnly, SaveAttendanceAndReport, Idle
  <2>3. /\ records'[handler[h].event.emp] = Stored(handler[h].rec)
        /\ \A emp \in Employees : emp # handler[h].event.emp => records'[emp] = records[emp]
    BY <1>3, <2>1 DEF SaveAttendanceOnly, SaveAttendanceAndReport, TypeOK, Event
  <2>4. handler'[h] = Idle /\ \A k \in Handlers : k # h => handler'[k] = handler[k]
    BY <1>3 DEF SaveAttendanceOnly, SaveAttendanceAndReport, TypeOK
  <2>5. \A emp \in Employees : records'[emp].version = 0 => records'[emp].last = NoTime
    <3>1. Stored(handler[h].rec).version = handler[h].rec.version
      BY <2>1, StoredType
    <3>2. QED
      BY <2>2, <2>3, <3>1
  <2>6. UNCHANGED <<admin, dayEnd>>
    BY <1>3 DEF SaveAttendanceOnly, SaveAttendanceAndReport
  <2>7. QED
    BY <2>4, <2>5, <2>6
<1>4. CASE AbandonEvent(h)
  <2>1. handler'[h] = Idle /\ \A k \in Handlers : k # h => handler'[k] = handler[k]
    BY <1>4 DEF AbandonEvent, TypeOK
  <2>2. QED
    BY <1>4, <2>1 DEF AbandonEvent
<1>5. QED
  BY <1>1, <1>2, <1>3, <1>4 DEF PipelineStep

\* Corrections write records of existing rows only
LEMMA RowInvCorrection ==
  ASSUME TypeOK, RowInv, NEW a \in Admins, CorrectionStep(a)
  PROVE  RowInv'
<1> USE DEF RowInv
<1>1. CASE LoadForCorrection(a)
  <2>1. PICK emp \in Employees, change \in Corrections :
          admin' = [admin EXCEPT ![a] =
            [pc |-> "loaded", emp |-> emp, rec |-> Corrected(records[emp], change),
             todo |-> ChangedKinds(records[emp], Corrected(records[emp], change)),
             rows |-> <<>>]]
    BY <1>1 DEF LoadForCorrection
  <2>2. records[emp].version \in Nat
    BY DEF TypeOK, StoredRecord, RecordWith
  <2>3. Corrected(records[emp], change).version # 0
    BY <2>2 DEF Corrected, ManualRecord
  <2>4. admin'[a].rec.version # 0 /\ \A b \in Admins : b # a => admin'[b] = admin[b]
    BY <2>1, <2>3 DEF TypeOK
  <2>5. QED
    BY <1>1, <2>4 DEF LoadForCorrection
<1>2. CASE LockRecord(a) \/ BuildCorrectionReport(a)
  <2>1. admin[a] # Idle
    BY <1>2 DEF LockRecord, BuildCorrectionReport, Idle
  <2>2. admin[a] \in [pc : {"loaded", "locked"}, emp : Employees, rec : Record,
                      todo : KindSeqs, rows : Seq(ReportRow)]
    BY <2>1, AdminShape DEF TypeOK
  <2>3. admin'[a].rec = admin[a].rec /\ \A b \in Admins : b # a => admin'[b] = admin[b]
    BY <1>2, <2>2 DEF LockRecord, BuildCorrectionReport, TypeOK
  <2>4. UNCHANGED <<records, handler, dayEnd>>
    BY <1>2 DEF LockRecord, BuildCorrectionReport
  <2>5. QED
    BY <2>1, <2>3, <2>4
<1>3. CASE CommitCorrection(a)
  <2>1. admin[a] # Idle
    BY <1>3 DEF CommitCorrection, Idle
  <2>2. admin[a].emp \in Employees /\ Stored(admin[a].rec).version = admin[a].rec.version
    BY <2>1, AdminShape, StoredType DEF TypeOK
  <2>3. /\ records'[admin[a].emp] = Stored(admin[a].rec)
        /\ \A emp \in Employees : emp # admin[a].emp => records'[emp] = records[emp]
    BY <1>3, <2>2 DEF CommitCorrection, TypeOK
  <2>4. admin'[a] = Idle /\ \A b \in Admins : b # a => admin'[b] = admin[b]
    BY <1>3 DEF CommitCorrection, TypeOK
  <2>5. \A emp \in Employees : records'[emp].version = 0 => records'[emp].last = NoTime
    BY <2>1, <2>2, <2>3
  <2>6. UNCHANGED <<handler, dayEnd>>
    BY <1>3 DEF CommitCorrection
  <2>7. QED
    BY <2>4, <2>5, <2>6
<1>4. CASE RollbackCorrection(a)
  <2>1. admin'[a] = Idle /\ \A b \in Admins : b # a => admin'[b] = admin[b]
    BY <1>4 DEF RollbackCorrection, TypeOK
  <2>2. QED
    BY <1>4, <2>1 DEF RollbackCorrection
<1>5. QED
  BY <1>1, <1>2, <1>3, <1>4 DEF CorrectionStep

\* The day end writes back records it listed
LEMMA RowInvDayEnd ==
  ASSUME TypeOK, RowInv, RunInv, DayEndStep
  PROVE  RowInv'
<1> USE DEF RowInv
<1>1. CASE ListRecords
  BY <1>1 DEF ListRecords, Exists
<1>2. ASSUME NEW emp \in Employees, FinalizeRecord(emp) PROVE RowInv'
  BY <1>2 DEF FinalizeRecord, Idle
<1>3. CASE BuildClockOutReport
  <2>1. dayEnd # Idle
    BY <1>3 DEF BuildClockOutReport, Idle
  <2>2. dayEnd'.todo = dayEnd.todo /\ dayEnd'.listed = dayEnd.listed
    BY <1>3, DayEndShape DEF BuildClockOutReport, TypeOK
  <2>3. QED
    BY <1>3, <2>1, <2>2 DEF BuildClockOutReport
<1>4. CASE SaveFinalized
  <2>1. dayEnd \in [pc : {"delete", "save"}, listed : [Employees -> StoredRecord],
                    todo : SUBSET Employees, emp : Employees, rows : Seq(ReportRow)]
    BY <1>4, DayEndShape DEF SaveFinalized, TypeOK
  <2>2. dayEnd # Idle /\ dayEnd.emp \in dayEnd.todo
    BY <1>4 DEF SaveFinalized, Idle, RunInv
  <2> DEFINE final == FinalizeForDay(dayEnd.listed[dayEnd.emp])
  <2>3. Stored(final).version # 0
    <3>1. dayEnd.listed[dayEnd.emp] \in Record
      BY <2>1, StoredIsRecord
    <3>2. final \in Record /\ final.version # 0
      BY <2>1, <2>2, <3>1, FinalizeForDayType DEF FinalizeForDay, Record, RecordWith
    <3>3. QED
      BY <3>2, StoredType
  <2>4. /\ records'[dayEnd.emp] = Stored(final)
        /\ \A emp \in Employees : emp # dayEnd.emp => records'[emp] = records[emp]
    BY <1>4, <2>1 DEF SaveFinalized, TypeOK
  <2>5. dayEnd'.listed = dayEnd.listed /\ dayEnd'.todo = dayEnd.todo \ {dayEnd.emp}
    BY <1>4 DEF SaveFinalized
  <2>6. QED
    BY <1>4, <2>2, <2>3, <2>4, <2>5 DEF SaveFinalized
<1>5. CASE SaveRun
  BY <1>5 DEF SaveRun
<1>6. QED
  BY <1>1, <1>2, <1>3, <1>4, <1>5 DEF DayEndStep

\* No step of the program writes a disconnect without a record
LEMMA RowStep ==
  ASSUME TypeOK, RowInv, RunInv, [Next]_vars
  PROVE  RowInv'
<1>1. CASE DispatcherStep
  BY <1>1 DEF DispatcherStep, DeliverReport, RowInv
<1>2. CASE Crash
  BY <1>2 DEF Crash, RowInv
<1>3. CASE UNCHANGED vars
  BY <1>3 DEF vars, RowInv
<1>4. QED
  BY <1>1, <1>2, <1>3, RowInvPipeline, RowInvCorrection, RowInvDayEnd DEF Next

-----------------------------------------------------------------------------
(* The run *)

\* Steps of others: the run's list is its own, and what is queued stays
LEMMA RunStays ==
  ASSUME QueuedStays, RunInv, UNCHANGED dayEnd
  PROVE  RunInv'
  BY DEF RunInv, Covered, CarriesClockOut, QueuedStays

\* The key of the day end's report carries the last disconnect
LEMMA ClockOutKey ==
  ASSUME NEW emp, NEW rec \in StoredRecord, rec.last # NoTime
  PROVE  LET row == ReportFor(emp, rec, "clock_out")
         IN  CarriesClockOut(row, emp, rec)
  BY StoredIsRecord DEF ReportFor, TimeOf, NewReport, BuildIdempotencyKey, CarriesClockOut

\* The day end's look-up finds the disconnect's own report
LEMMA ClockOutFound ==
  ASSUME NEW emp, NEW rec \in StoredRecord, ClockOutQueued(emp, rec), rec.last # NoTime
  PROVE  Queued(emp, "clock_out", rec.last)
<1>1. PICK i \in 1..Len(reports) : reports[i].key = ReportFor(emp, rec, "clock_out").key
  BY DEF ClockOutQueued, FindByIdempotencyKey
<1>2. CarriesClockOut(ReportFor(emp, rec, "clock_out"), emp, rec)
  BY ClockOutKey
<1>3. QED
  BY <1>1, <1>2 DEF CarriesClockOut, Queued, HasCreate

\* The day end leaves a record only when its clock-out is queued
LEMMA RunDayEnd ==
  ASSUME TypeOK, QueuedInv, QueuedStays, RowInv, RunInv, DayEndStep
  PROVE  RunInv'
<1>1. CASE ListRecords
  <2>1. /\ dayEnd'.pc = "next" /\ dayEnd'.listed = records
        /\ dayEnd'.todo = {emp \in Employees : Exists(emp)}
    BY <1>1 DEF ListRecords
  <2>2. ASSUME NEW emp \in Employees, emp \notin dayEnd'.todo
        PROVE  records[emp].last = NoTime
    BY <2>1, <2>2 DEF Exists, RowInv
  <2>3. QED
    BY <2>1, <2>2 DEF RunInv, Covered
<1>2. ASSUME NEW emp \in Employees, FinalizeRecord(emp) PROVE RunInv'
  <2> DEFINE rec == dayEnd.listed[emp]
  <2>1. dayEnd # Idle /\ emp \in dayEnd.todo /\ rec \in StoredRecord
    BY <1>2, DayEndShape DEF FinalizeRecord, Idle, TypeOK
  <2>2. /\ dayEnd'.listed = dayEnd.listed /\ dayEnd'.todo = dayEnd.todo
        /\ dayEnd'.emp = emp /\ dayEnd'.rows = <<>>
        /\ dayEnd'.pc = IF ClockOutQueued(emp, rec) THEN "save" ELSE "delete"
    BY <1>2 DEF FinalizeRecord
  <2>3. UNCHANGED reports
    BY <1>2 DEF FinalizeRecord
  <2> HIDE DEF rec
  <2>4. ~ ClockOutQueued(emp, rec) => rec.last # NoTime
    BY DEF ClockOutQueued
  <2>5. ClockOutQueued(emp, rec) => (rec.last # NoTime => Queued(emp, "clock_out", rec.last))
    BY <2>1, ClockOutFound
  <2>6. \A e \in Employees \ dayEnd'.todo : Covered(e)'
    BY <2>1, <2>2, <2>3 DEF RunInv, Covered, Queued
  <2>7. dayEnd'.pc = "delete" => dayEnd'.listed[dayEnd'.emp].last # NoTime
    BY <2>2, <2>4 DEF rec
  <2>8. dayEnd'.pc = "save" => Covered(dayEnd.emp)'
    BY <2>2, <2>3, <2>5 DEF rec, Covered, Queued
  <2>9. QED
    BY <2>1, <2>2, <2>6, <2>7, <2>8 DEF RunInv
<1>3. CASE BuildClockOutReport
  <2>1. dayEnd \in [pc : {"delete", "save"}, listed : [Employees -> StoredRecord],
                    todo : SUBSET Employees, emp : Employees, rows : Seq(ReportRow)]
    BY <1>3, DayEndShape DEF BuildClockOutReport, TypeOK
  <2> DEFINE row == CopyLatestDeleteRecordID(reports,
                      ReportFor(dayEnd.emp, dayEnd.listed[dayEnd.emp], "clock_out"))
  <2>2. /\ dayEnd'.listed = dayEnd.listed /\ dayEnd'.todo = dayEnd.todo
        /\ dayEnd'.emp = dayEnd.emp /\ dayEnd'.pc = "save" /\ dayEnd'.rows = <<row>>
    BY <1>3, <2>1 DEF BuildClockOutReport
  <2>3. dayEnd # Idle /\ dayEnd.pc = "delete"
    BY <1>3 DEF BuildClockOutReport, Idle
  <2>4. /\ dayEnd.emp \in dayEnd.todo /\ dayEnd.listed[dayEnd.emp].last # NoTime
        /\ \A e \in Employees \ dayEnd.todo : Covered(e)
    BY <2>3 DEF RunInv
  <2>5. CarriesClockOut(row, dayEnd.emp, dayEnd.listed[dayEnd.emp])
    <3>1. ReportFor(dayEnd.emp, dayEnd.listed[dayEnd.emp], "clock_out") \in ReportRow
      BY <2>1, StoredIsRecord, ReportForType DEF Kinds
    <3>2. row.key = ReportFor(dayEnd.emp, dayEnd.listed[dayEnd.emp], "clock_out").key
      BY <3>1, CopyLatestType DEF TypeOK
    <3>3. QED
      BY <2>1, <2>4, <3>2, ClockOutKey DEF CarriesClockOut
  <2> HIDE DEF row
  <2>6. dayEnd'.rows # <<>> /\ dayEnd'.rows[1] = row
    BY <2>2
  <2>7. \A e \in Employees \ dayEnd'.todo : Covered(e)'
    BY <1>3, <2>2, <2>4 DEF BuildClockOutReport, Covered, Queued
  <2>8. QED
    BY <2>2, <2>4, <2>5, <2>6, <2>7 DEF RunInv, CarriesClockOut
<1>4. CASE SaveFinalized
  <2>1. dayEnd \in [pc : {"delete", "save"}, listed : [Employees -> StoredRecord],
                    todo : SUBSET Employees, emp : Employees, rows : Seq(ReportRow)]
    BY <1>4, DayEndShape DEF SaveFinalized, TypeOK
  <2>2. /\ dayEnd'.pc = "next" /\ dayEnd'.listed = dayEnd.listed
        /\ dayEnd'.todo = dayEnd.todo \ {dayEnd.emp}
    BY <1>4 DEF SaveFinalized
  <2>3. dayEnd # Idle /\ dayEnd.pc = "save"
    BY <1>4 DEF SaveFinalized, Idle
  <2> DEFINE last == dayEnd.listed[dayEnd.emp].last
  <2>4. last # NoTime => HasCreate(reports', dayEnd.emp, "clock_out", last)
    <3>1. CASE dayEnd.rows = <<>>
      <4>1. Covered(dayEnd.emp)
        BY <2>3, <3>1 DEF RunInv
      <4>2. QED
        BY <4>1 DEF Covered, Queued, QueuedStays
    <3>2. CASE dayEnd.rows # <<>>
      <4>1. CarriesClockOut(dayEnd.rows[1], dayEnd.emp, dayEnd.listed[dayEnd.emp])
        BY <2>3, <3>2 DEF RunInv
      <4>2. PICK row \in ReportRow : row = dayEnd.rows[1]
        BY <2>1, <3>2
      <4>3. reports' = SaveReport(reports, row)
        BY <1>4, <3>2, <4>2 DEF SaveFinalized
      <4>4. HasCreate(reports', row.key.emp, row.key.kind, row.key.time)
        BY <4>1, <4>2, <4>3, SavedStays DEF CarriesClockOut, Queued
      <4>5. QED
        BY <4>1, <4>2, <4>4 DEF CarriesClockOut
    <3>3. QED
      BY <3>1, <3>2
  <2>5. ASSUME NEW e \in Employees, e \notin dayEnd'.todo
        PROVE  Covered(e)'
    <3>1. CASE e = dayEnd.emp
      BY <2>2, <2>4, <3>1 DEF Covered, Queued
    <3>2. CASE e \notin dayEnd.todo
      <4>1. Covered(e)
        BY <2>3, <3>2 DEF RunInv
      <4>2. QED
        BY <2>2, <4>1 DEF Covered, Queued, QueuedStays
    <3>3. QED
      BY <2>2, <2>5, <3>1, <3>2
  <2>6. QED
    BY <2>2, <2>5 DEF RunInv
<1>5. CASE SaveRun
  BY <1>5 DEF SaveRun, RunInv
<1>6. QED
  BY <1>1, <1>2, <1>3, <1>4, <1>5 DEF DayEndStep

\* No step of the program undoes what the run has queued
LEMMA RunStep ==
  ASSUME TypeOK, QueuedInv, RowInv, RunInv, [Next]_vars
  PROVE  RunInv'
<1>1. QueuedStays
  BY QueueGrows
<1>2. CASE DayEndStep
  BY <1>1, <1>2, RunDayEnd
<1>3. CASE Crash
  BY <1>3 DEF Crash, RunInv
<1>4. CASE UNCHANGED dayEnd
  BY <1>1, <1>4, RunStays
<1>5. ASSUME NEW h \in Handlers, PipelineStep(h) PROVE UNCHANGED dayEnd
  BY <1>5 DEF PipelineStep, HandleEvent, CheckClockInKey, SaveAttendanceOnly,
     SaveAttendanceAndReport, AbandonEvent
<1>6. ASSUME NEW a \in Admins, CorrectionStep(a) PROVE UNCHANGED dayEnd
  BY <1>6 DEF CorrectionStep, LoadForCorrection, LockRecord, BuildCorrectionReport,
     CommitCorrection, RollbackCorrection
<1>7. DispatcherStep => UNCHANGED dayEnd
  BY DEF DispatcherStep, DeliverReport
<1>8. QED
  BY <1>2, <1>3, <1>4, <1>5, <1>6, <1>7 DEF Next, vars

(***************************************************************************)
(* When the run goes on to its next record, and when it is saved as        *)
(* executed, every disconnect it listed is queued: finalizeRecord finds    *)
(* its report or saves one, whatever events, corrections, deliveries and   *)
(* restarts come between its calls.                                        *)
(***************************************************************************)
THEOREM RunCovers == Spec => []RunCoversListedRecords
<1>1. Init => RowInv /\ RunInv
  BY DEF Init, RowInv, RunInv, NoRecord, NewRecord
<1>2. TypeOK /\ QueuedInv /\ RowInv /\ RunInv /\ [Next]_vars => RowInv' /\ RunInv'
  BY RowStep, RunStep
<1>3. RunInv => RunCoversListedRecords
  BY DEF RunInv, RunCoversListedRecords, Covered, Idle
<1>4. QED
  BY <1>1, <1>2, <1>3, Inductive, PTL DEF Spec
=============================================================================
