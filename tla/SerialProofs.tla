---------------------------- MODULE SerialProofs ----------------------------
(***************************************************************************)
(* Proofs about the services of Attendance when their requests do not      *)
(* overlap.                                                                *)
(*                                                                         *)
(* SerialSpec: the queue of reports agrees with the records whenever       *)
(* nothing is in progress, and a delivered report is never queued again.   *)
(* Neither is inductive.  Consistent says what the rows of an employee     *)
(* and his record have to do with each other: no row is of a later version *)
(* than the record, within a version the first connect only goes down and  *)
(* the last disconnect only goes up, so the key of a new time is not in    *)
(* the table, but for a connect in the very second the newest row tells.   *)
(* Progress says how far a request in progress has come, in terms of the   *)
(* record as it still is in the table: no other request can have changed   *)
(* it.                                                                     *)
(*                                                                         *)
(* UdpSpec: the loop alone implements the abstract day.                    *)
(***************************************************************************)
EXTENDS AttendanceProofs

\* The time the newest row of an employee's clock tells Feishu
Newest(rows, emp, kind) ==
  LET mine == {i \in 1..Len(rows) : rows[i].key.emp = emp /\ rows[i].key.kind = kind}
  IN  IF mine = {} THEN NoTime
      ELSE rows[CHOOSE i \in mine : \A j \in mine : j <= i].key.time

\* A row that creates, of the record's own version, is of no earlier connect
\* than the newest row tells, and of no later disconnect than the record's
Superseded(key, rec, told) ==
  /\ key.version <= rec.version
  /\ key.act = "create" /\ key.version = rec.version =>
       /\ key.kind = "clock_in" => rec.first # NoTime /\ told <= key.time
       /\ key.kind = "clock_out" => rec.last # NoTime /\ key.time <= rec.last

Has(rows, key) == FindByIdempotencyKey(rows, key) # {}

\* The day end has nothing to queue for the record
ClockOutSettled(emp, rec, rows) ==
  rec.last # NoTime => Has(rows, ReportFor(emp, rec, "clock_out").key)

Consistent(emp, rec, rows) ==
  /\ \A i \in 1..Len(rows) :
       rows[i].key.emp = emp =>
         Superseded(rows[i].key, rec, Newest(rows, emp, "clock_in"))
  /\ WithinASecond(Newest(rows, emp, "clock_in"), rec.first)
  /\ ClockOutSettled(emp, rec, rows) => Newest(rows, emp, "clock_out") = rec.last

\* An employee without a row has no times
Blank(rec) == rec.version = 0 => rec.first = NoTime /\ rec.last = NoTime

TableInv ==
  \A emp \in Employees :
    Blank(records[emp]) /\ Consistent(emp, records[emp], reports)

EventProgress(h) ==
  handler[h] # Idle =>
    LET event  == handler[h].event
        loaded == LoadAttendanceRecord(event.emp)
    IN  /\ handler[h].rec = ApplyEvent(loaded, event)
        /\ handler[h].pc \in {"check", "saveReport"} => ClockInNeedsReport(loaded, event)
        /\ handler[h].pc = "saveReport" => ~ Has(reports, ClockInKey(h))
        /\ handler[h].pc = "save" =>
             (ClockInNeedsReport(loaded, event) => Has(reports, ClockInKey(h)))

\* The reports a correction has built, and those it has not, are of the kinds
\* that change
Built(rows, todo, emp, rec, kinds) ==
  \/ rows = <<>> /\ todo = kinds
  \/ /\ Len(rows) = 1 /\ todo = Tail(kinds)
     /\ rows[1].key = ReportFor(emp, rec, kinds[1]).key
  \/ /\ Len(rows) = 2 /\ todo = <<>> /\ kinds = <<"clock_in", "clock_out">>
     /\ \A j \in 1..2 : rows[j].key = ReportFor(emp, rec, kinds[j]).key

CorrectionProgress(a) ==
  admin[a] # Idle =>
    LET emp == admin[a].emp
        old == records[emp]
        rec == admin[a].rec
    IN  /\ rec.version = old.version + 1
        /\ ChangedKinds(old, rec) # <<>>
        /\ Built(admin[a].rows, admin[a].todo, emp, rec, ChangedKinds(old, rec))

DayEndProgress ==
  dayEnd # Idle =>
    /\ \A emp \in dayEnd.todo : dayEnd.listed[emp] = records[emp]
    /\ \A emp \in Employees \ dayEnd.todo :
         Newest(reports, emp, "clock_out") = records[emp].last
    /\ dayEnd.pc # "next" =>
         LET emp == dayEnd.emp
             rec == records[emp]
         IN  /\ emp \in dayEnd.todo
             /\ dayEnd.pc = "delete" => ~ ClockOutSettled(emp, rec, reports)
             /\ dayEnd.pc = "save" =>
                  IF ClockOutSettled(emp, rec, reports) THEN dayEnd.rows = <<>>
                  ELSE /\ Len(dayEnd.rows) = 1
                       /\ dayEnd.rows[1].key = ReportFor(emp, rec, "clock_out").key

Progress ==
  /\ \A h \in Handlers : EventProgress(h)
  /\ \A a \in Admins : CorrectionProgress(a)
  /\ DayEndProgress

SerialInv == OneAtATime /\ TableInv /\ Progress

-----------------------------------------------------------------------------
(* The newest row *)

\* Rows that keep their keys keep the newest of each clock
LEMMA NewestKept ==
  ASSUME NEW rows \in Seq(ReportRow), NEW other \in Seq(ReportRow),
         Len(other) = Len(rows),
         \A i \in 1..Len(rows) : other[i].key = rows[i].key,
         NEW emp, NEW kind
  PROVE  Newest(other, emp, kind) = Newest(rows, emp, kind)
<1> DEFINE mine == {i \in 1..Len(rows) : rows[i].key.emp = emp /\ rows[i].key.kind = kind}
           those == {i \in 1..Len(other) : other[i].key.emp = emp /\ other[i].key.kind = kind}
<1>1. those = mine /\ mine \in SUBSET (1..Len(rows)) /\ Len(rows) \in Nat
  OBVIOUS
<1>2. CASE mine = {}
  BY <1>1, <1>2 DEF Newest
<1>3. CASE mine # {}
  <2> DEFINE newest == CHOOSE i \in mine : \A j \in mine : j <= i
  <2>1. \E i \in mine : \A j \in mine : j <= i
    BY <1>1, <1>3, GreatestId
  <2>2. newest \in 1..Len(rows)
    BY <2>1
  <2>3. Newest(other, emp, kind) = other[newest].key.time
    BY <1>1, <1>3 DEF Newest
  <2>4. Newest(rows, emp, kind) = rows[newest].key.time
    BY <1>3 DEF Newest
  <2>5. QED
    BY <2>2, <2>3, <2>4
<1>4. QED
  BY <1>2, <1>3

\* A row that comes in is the newest of its clock, and of no other
LEMMA NewestAppended ==
  ASSUME NEW rows \in Seq(ReportRow), NEW row \in ReportRow, NEW emp, NEW kind
  PROVE  Newest(Append(rows, row), emp, kind) =
           IF row.key.emp = emp /\ row.key.kind = kind THEN row.key.time
           ELSE Newest(rows, emp, kind)
<1> DEFINE more == Append(rows, row)
           mine == {i \in 1..Len(rows) : rows[i].key.emp = emp /\ rows[i].key.kind = kind}
           those == {i \in 1..Len(more) : more[i].key.emp = emp /\ more[i].key.kind = kind}
<1>1. /\ Len(rows) \in Nat /\ Len(more) = Len(rows) + 1
      /\ more[Len(rows) + 1] = row
      /\ \A i \in 1..Len(rows) : more[i] = rows[i]
  OBVIOUS
<1>2. CASE row.key.emp = emp /\ row.key.kind = kind
  <2>1. Len(rows) + 1 \in those /\ \A j \in those : j <= Len(rows) + 1
    BY <1>1, <1>2
  <2>2. (CHOOSE i \in those : \A j \in those : j <= i) = Len(rows) + 1
    <3> DEFINE newest == CHOOSE i \in those : \A j \in those : j <= i
    <3>1. newest \in those /\ \A j \in those : j <= newest
      BY <2>1
    <3> HIDE DEF newest
    <3>2. newest \in Nat /\ newest <= Len(rows) + 1
      BY <1>1, <3>1
    <3>3. Len(rows) + 1 <= newest
      BY <2>1, <3>1
    <3>4. newest = Len(rows) + 1
      BY <1>1, <3>2, <3>3
    <3>5. QED
      BY <3>4 DEF newest
  <2>3. Newest(more, emp, kind) = more[Len(rows) + 1].key.time
    BY <2>1, <2>2 DEF Newest
  <2>4. QED
    BY <1>1, <1>2, <2>3
<1>3. CASE ~ (row.key.emp = emp /\ row.key.kind = kind)
  <2>1. those = mine /\ mine \in SUBSET (1..Len(rows))
    BY <1>1, <1>3
  <2>2. CASE mine = {}
    BY <1>3, <2>1, <2>2 DEF Newest
  <2>3. CASE mine # {}
    <3> DEFINE newest == CHOOSE i \in mine : \A j \in mine : j <= i
    <3>1. \E i \in mine : \A j \in mine : j <= i
      BY <1>1, <2>1, <2>3, GreatestId
    <3>2. newest \in 1..Len(rows)
      BY <3>1
    <3>3. Newest(more, emp, kind) = more[newest].key.time
      BY <2>1, <2>3 DEF Newest
    <3>4. Newest(rows, emp, kind) = rows[newest].key.time
      BY <2>3 DEF Newest
    <3>5. QED
      BY <1>1, <1>3, <3>2, <3>3, <3>4
  <2>4. QED
    BY <2>2, <2>3
<1>4. QED
  BY <1>2, <1>3

\* A row of a new key is appended, and is all that is new
LEMMA NewRowAppended ==
  ASSUME NEW rows \in Seq(ReportRow), NEW row \in ReportRow, ~ Has(rows, row.key)
  PROVE  /\ SaveReport(rows, row) = Append(rows, row)
         /\ Append(rows, row) \in Seq(ReportRow)
         /\ Len(Append(rows, row)) = Len(rows) + 1
         /\ Append(rows, row)[Len(rows) + 1] = row
         /\ \A i \in 1..Len(rows) : Append(rows, row)[i] = rows[i]
         /\ \A key : Has(Append(rows, row), key) <=> Has(rows, key) \/ key = row.key
<1>1. /\ Append(rows, row) \in Seq(ReportRow)
      /\ Len(Append(rows, row)) = Len(rows) + 1
      /\ Append(rows, row)[Len(rows) + 1] = row
      /\ \A i \in 1..Len(rows) : Append(rows, row)[i] = rows[i]
      /\ Len(rows) \in Nat
  OBVIOUS
<1>2. SaveReport(rows, row) = Append(rows, row)
  BY DEF SaveReport, Has
<1>3. ASSUME NEW key
      PROVE  Has(Append(rows, row), key) <=> Has(rows, key) \/ key = row.key
  <2>1. Has(Append(rows, row), key) <=>
          \E i \in 1..(Len(rows) + 1) : Append(rows, row)[i].key = key
    BY <1>1 DEF Has, FindByIdempotencyKey
  <2>2. Has(rows, key) <=> \E i \in 1..Len(rows) : rows[i].key = key
    BY DEF Has, FindByIdempotencyKey
  <2>3. QED
    BY <1>1, <2>1, <2>2
<1>4. QED
  BY <1>1, <1>2, <1>3

-----------------------------------------------------------------------------
(* A record and its rows *)

\* Rows that keep their keys stay consistent with the record
LEMMA ConsistentKept ==
  ASSUME NEW rows \in Seq(ReportRow), NEW other \in Seq(ReportRow),
         Len(other) = Len(rows),
         \A i \in 1..Len(rows) : other[i].key = rows[i].key,
         NEW emp, NEW rec
  PROVE  /\ ClockOutSettled(emp, rec, other) <=> ClockOutSettled(emp, rec, rows)
         /\ Consistent(emp, rec, rows) => Consistent(emp, rec, other)
<1>1. \A key : Has(other, key) <=> Has(rows, key)
  BY DEF Has, FindByIdempotencyKey
<1>2. ClockOutSettled(emp, rec, other) <=> ClockOutSettled(emp, rec, rows)
  BY <1>1 DEF ClockOutSettled
<1>3. \A kind : Newest(other, emp, kind) = Newest(rows, emp, kind)
  BY NewestKept
<1>4. QED
  BY <1>2, <1>3 DEF Consistent

\* A report built from a record of a later version, or of a time the record did
\* not have, has a key of its own
LEMMA ReportKey ==
  ASSUME NEW emp \in Employees, NEW rec \in Record, NEW kind \in Kinds
  PROVE  LET row == ReportFor(emp, rec, kind)
         IN  /\ row \in ReportRow
             /\ row.key.emp = emp /\ row.key.kind = kind
             /\ row.key.time = Truncated(TimeOf(rec, kind))
             /\ row.key.version = rec.version
             /\ TimeOf(rec, kind) # NoTime =>
                  row.key = BuildIdempotencyKey(emp, kind, TimeOf(rec, kind), rec.version)
             /\ row.key.act = "create" <=> TimeOf(rec, kind) # NoTime
<1> DEFINE time == TimeOf(rec, kind)
<1>1. ReportFor(emp, rec, kind).key =
        IF time = NoTime THEN ClearKey(emp, kind, rec.version)
        ELSE BuildIdempotencyKey(emp, kind, time, rec.version)
  BY DEF ReportFor, NewReport
<1>2. Truncated(NoTime) = NoTime
  BY DEF Truncated, NoTime, Second
<1>3. QED
  BY <1>1, <1>2, ReportForType DEF ClearKey, BuildIdempotencyKey

\* Rows of other employees are not the record's concern
LEMMA ConsistentOther ==
  ASSUME NEW rows \in Seq(ReportRow), NEW row \in ReportRow, ~ Has(rows, row.key),
         NEW emp \in Employees, NEW rec \in Record, row.key.emp # emp,
         Consistent(emp, rec, rows)
  PROVE  Consistent(emp, rec, Append(rows, row))
<1>1. \A kind : Newest(Append(rows, row), emp, kind) = Newest(rows, emp, kind)
  BY NewestAppended
<1>2. ReportFor(emp, rec, "clock_out").key # row.key
  BY ReportKey DEF Kinds
<1>3. ClockOutSettled(emp, rec, Append(rows, row)) => ClockOutSettled(emp, rec, rows)
  BY <1>2, NewRowAppended DEF ClockOutSettled
<1>4. \A i \in 1..Len(Append(rows, row)) :
        Append(rows, row)[i].key.emp = emp =>
          Superseded(Append(rows, row)[i].key, rec, Newest(rows, emp, "clock_in"))
  <2>1. \A i \in 1..Len(rows) : Append(rows, row)[i] = rows[i]
    BY NewRowAppended
  <2>2. /\ Len(Append(rows, row)) = Len(rows) + 1 /\ Len(rows) \in Nat
        /\ Append(rows, row)[Len(rows) + 1] = row
    BY NewRowAppended
  <2>3. QED
    BY <2>1, <2>2 DEF Consistent
<1>5. QED
  BY <1>1, <1>3, <1>4 DEF Consistent

\* Times and versions are numbers
LEMMA RowNumbers ==
  ASSUME NEW rows \in Seq(ReportRow), NEW i \in 1..Len(rows)
  PROVE  rows[i].key.time \in Nat /\ rows[i].key.version \in Nat
<1>1. rows[i] \in ReportRow
  BY ElementOfSeq
<1>2. QED
  BY <1>1 DEF ReportRow, Rows, Keys, WholeSeconds

\* The newest row's time is a number
LEMMA NewestNumber ==
  ASSUME NEW rows \in Seq(ReportRow), NEW emp, NEW kind
  PROVE  Newest(rows, emp, kind) \in Nat
<1> DEFINE mine == {i \in 1..Len(rows) : rows[i].key.emp = emp /\ rows[i].key.kind = kind}
<1>1. CASE mine = {}
  BY <1>1 DEF Newest, NoTime
<1>2. CASE mine # {}
  <2>1. mine \in SUBSET (1..Len(rows)) /\ Len(rows) \in Nat
    OBVIOUS
  <2>2. \E i \in mine : \A j \in mine : j <= i
    BY <1>2, <2>1, GreatestId
  <2>3. (CHOOSE i \in mine : \A j \in mine : j <= i) \in 1..Len(rows)
    BY <2>2
  <2>4. QED
    BY <1>2, <2>3, RowNumbers DEF Newest
<1>3. QED
  BY <1>1, <1>2

\* Versions and times are numbers
LEMMA RecordNumbers ==
  ASSUME NEW rec \in Record
  PROVE  /\ rec.version \in Nat /\ rec.first \in Nat /\ rec.last \in Nat
         /\ rec.first \in Instants /\ rec.last \in Instants
<1>1. rec.first \in Instants /\ rec.last \in Instants /\ rec.version \in Nat
  BY DEF Record, RecordWith
<1>2. QED
  BY <1>1, InstantType

\* What the rows have to say of the record's version and times is all there is
LEMMA ConsistentSame ==
  ASSUME NEW rows \in Seq(ReportRow), NEW emp \in Employees,
         NEW rec \in Record, NEW other \in Record,
         other.version = rec.version, other.first = rec.first, other.last = rec.last,
         Consistent(emp, rec, rows)
  PROVE  Consistent(emp, other, rows)
<1>1. ReportFor(emp, other, "clock_out") = ReportFor(emp, rec, "clock_out")
  BY DEF ReportFor, TimeOf
<1>2. \A key, told : Superseded(key, rec, told) => Superseded(key, other, told)
  BY DEF Superseded
<1>3. QED
  BY <1>1, <1>2 DEF Consistent, ClockOutSettled

\* The rows know nothing of a record that is about to be created
LEMMA ConsistentLoaded ==
  ASSUME NEW rows \in Seq(ReportRow), NEW emp \in Employees, NEW rec \in Record,
         rec.version = 0, Blank(rec), Consistent(emp, rec, rows)
  PROVE  Consistent(emp, NewRecord, rows)
<1>1. /\ NewRecord.version = 1
      /\ NewRecord.first = NoTime /\ NewRecord.last = NoTime
      /\ rec.first = NoTime /\ rec.last = NoTime
  BY DEF NewRecord, Blank
<1>2. ASSUME NEW i \in 1..Len(rows), rows[i].key.emp = emp
      PROVE  Superseded(rows[i].key, NewRecord, Newest(rows, emp, "clock_in"))
  <2>1. rows[i].key.version \in Nat
    BY RowNumbers
  <2>2. rows[i].key.version <= 0
    BY <1>1, <1>2 DEF Consistent, Superseded
  <2>3. QED
    BY <1>1, <2>1, <2>2 DEF Superseded
<1>3. ClockOutSettled(emp, rec, rows)
  BY <1>1 DEF ClockOutSettled
<1>4. QED
  BY <1>1, <1>2, <1>3 DEF Consistent

\* The record an event makes, as it is stored: one of its times is the event's
LEMMA StoredEvent ==
  ASSUME NEW event \in Event, NEW rec \in StoredRecord
  PROVE  LET new == ApplyEvent(rec, event)
             later == /\ ~ ClockInNeedsReport(rec, event)
                      /\ event.kind = "disconnect"
                      /\ rec.last = NoTime \/ event.time > rec.last
         IN  /\ new \in Record /\ new.version = rec.version
             /\ Stored(new) \in StoredRecord /\ Stored(new).version = rec.version
             /\ ClockInNeedsReport(rec, event) => Stored(new).first = Rounded(event.time)
             /\ ~ ClockInNeedsReport(rec, event) => Stored(new).first = rec.first
             /\ later => Stored(new).last = Rounded(event.time)
             /\ ~ later => Stored(new).last = rec.last
<1> DEFINE new == ApplyEvent(rec, event)
           later == /\ ~ ClockInNeedsReport(rec, event)
                    /\ event.kind = "disconnect"
                    /\ rec.last = NoTime \/ event.time > rec.last
<1>1. rec \in Record /\ Rounded(rec.first) = rec.first /\ Rounded(rec.last) = rec.last
  BY StoredIsRecord
<1>2. new \in Record
  BY <1>1, ApplyEventType
<1>3. /\ new.version = rec.version
      /\ ClockInNeedsReport(rec, event) => new.first = event.time
      /\ ~ ClockInNeedsReport(rec, event) => new.first = rec.first
      /\ later => new.last = event.time
      /\ ~ later => new.last = rec.last
  BY <1>1 DEF ApplyEvent, Record, RecordWith
<1> HIDE DEF new, later
<1>4. /\ Stored(new) \in StoredRecord /\ Stored(new).version = new.version
      /\ Stored(new).first = Rounded(new.first) /\ Stored(new).last = Rounded(new.last)
  BY <1>2, StoredType
<1>5. /\ new \in Record /\ new.version = rec.version
      /\ Stored(new) \in StoredRecord /\ Stored(new).version = rec.version
      /\ ClockInNeedsReport(rec, event) => Stored(new).first = Rounded(event.time)
      /\ ~ ClockInNeedsReport(rec, event) => Stored(new).first = rec.first
      /\ later => Stored(new).last = Rounded(event.time)
      /\ ~ later => Stored(new).last = rec.last
  BY <1>1, <1>2, <1>3, <1>4
<1>6. QED
  BY <1>5 DEF new, later

\* The time a report tells is the stored one, or the second before
LEMMA ToldAndStored ==
  ASSUME NEW time \in Instants
  PROVE  /\ Truncated(time) <= Rounded(time)
         /\ WithinASecond(Truncated(time), Rounded(time))
<1>1. /\ time \in Nat /\ Truncated(time) \in Nat
      /\ time # NoTime => Truncated(time) # NoTime
      /\ Rounded(NoTime) = NoTime /\ Truncated(NoTime) = NoTime
  BY InstantType DEF WholeSeconds, Truncated, NoTime, Second
<1>2. \/ Rounded(time) = Truncated(time)
      \/ Rounded(time) = Truncated(time) + Second
  BY <1>1, RoundedTime
<1>3. QED
  BY <1>1, <1>2 DEF WithinASecond, Second

\* The times of an event, heard, told and stored
LEMMA EventTimes ==
  ASSUME NEW event \in Event
  PROVE  /\ event.emp \in Employees /\ event.time \in Times
         /\ event.time \in Nat /\ event.time # NoTime
         /\ Truncated(event.time) \in Nat /\ Rounded(event.time) \in Nat
         /\ Truncated(event.time) # NoTime /\ Rounded(event.time) # NoTime
         /\ Truncated(event.time) <= Rounded(event.time)
         /\ WithinASecond(Truncated(event.time), Rounded(event.time))
<1>1. event.emp \in Employees /\ event.time \in Times
  BY DEF Event
<1>2. event.time \in Instants /\ event.time # NoTime
  BY <1>1, AttendanceAssumption DEF Instants, NoTime, Second
<1>3. /\ event.time \in Nat
      /\ Truncated(event.time) \in Nat /\ Rounded(event.time) \in Nat
      /\ Truncated(event.time) # NoTime /\ Rounded(event.time) # NoTime
  BY <1>2, InstantType DEF WholeSeconds
<1>4. QED
  BY <1>1, <1>2, <1>3, ToldAndStored

\* A key that is superseded stays so while the first connect told goes down and
\* the last disconnect goes up
LEMMA StaysSuperseded ==
  ASSUME NEW key, NEW rec, NEW new, NEW told \in Nat, NEW tell \in Nat,
         key.time \in Nat, rec.last \in Nat, new.last \in Nat,
         new.version = rec.version, Superseded(key, rec, told),
         rec.first # NoTime => new.first # NoTime /\ tell <= told,
         rec.last # NoTime => new.last # NoTime /\ rec.last <= new.last
  PROVE  Superseded(key, new, tell)
<1>1. key.version <= new.version
  BY DEF Superseded
<1>2. ASSUME key.act = "create", key.version = rec.version, key.kind = "clock_in"
      PROVE  new.first # NoTime /\ tell <= key.time
  BY <1>2 DEF Superseded
<1>3. ASSUME key.act = "create", key.version = rec.version, key.kind = "clock_out"
      PROVE  new.last # NoTime /\ key.time <= new.last
  BY <1>3 DEF Superseded
<1>4. QED
  BY <1>1, <1>2, <1>3 DEF Superseded

\* An event leaves the record, as it is stored, consistent with the rows, a
\* clock-in's report added where its key is new
LEMMA ConsistentEvent ==
  ASSUME NEW rows \in Seq(ReportRow), NEW event \in Event, NEW rec \in StoredRecord,
         Consistent(event.emp, rec, rows)
  PROVE  LET new == ApplyEvent(rec, event)
             row == NewReport(BuildIdempotencyKey(event.emp, "clock_in", event.time,
                                                  new.version))
         IN  Consistent(event.emp, Stored(new),
                        IF ClockInNeedsReport(rec, event) /\ ~ Has(rows, row.key)
                          THEN Append(rows, row) ELSE rows)
<1> DEFINE emp == event.emp
           new == ApplyEvent(rec, event)
           stored == Stored(new)
           told == Newest(rows, emp, "clock_in")
           row == NewReport(BuildIdempotencyKey(emp, "clock_in", event.time, new.version))
<1>1. /\ rec \in Record
      /\ rec.first \in WholeSeconds /\ rec.last \in WholeSeconds
      /\ rec.version \in Nat /\ rec.first \in Nat /\ rec.last \in Nat
      /\ told \in Nat /\ WithinASecond(told, rec.first)
  <2>1. rec.first \in WholeSeconds /\ rec.last \in WholeSeconds
    BY DEF StoredRecord, RecordWith
  <2>2. QED
    BY <2>1, StoredIsRecord, RecordNumbers, NewestNumber DEF Consistent
<1>2. \A i \in 1..Len(rows) :
        /\ rows[i].key.time \in Nat /\ rows[i].key.version \in Nat
        /\ rows[i].key.emp = emp => Superseded(rows[i].key, rec, told)
  BY RowNumbers DEF Consistent
<1>3. /\ stored \in StoredRecord /\ stored.version = rec.version
      /\ stored \in Record /\ stored.first \in Nat /\ stored.last \in Nat
      /\ new \in Record /\ new.version = rec.version
  BY StoredEvent, StoredIsRecord, RecordNumbers
<1>4. /\ emp \in Employees
      /\ event.time \in Nat /\ event.time # NoTime
      /\ Truncated(event.time) \in Nat /\ Rounded(event.time) \in Nat
      /\ Truncated(event.time) # NoTime /\ Rounded(event.time) # NoTime
      /\ Truncated(event.time) <= Rounded(event.time)
      /\ WithinASecond(Truncated(event.time), Rounded(event.time))
  BY EventTimes
<1>5. CASE ClockInNeedsReport(rec, event)
  <2>1. stored.first = Rounded(event.time) /\ stored.last = rec.last
    BY <1>5, StoredEvent
  <2>2. /\ row \in ReportRow /\ row.key.emp = emp /\ row.key.kind = "clock_in"
        /\ row.key.time = Truncated(event.time) /\ row.key.version = rec.version
        /\ row.key.act = "create"
    <3>1. BuildIdempotencyKey(emp, "clock_in", event.time, new.version)
            \in Keys(Employees, {})
      BY <1>1, <1>3, <1>4, TruncatedTime DEF BuildIdempotencyKey, Keys, Kinds
    <3>2. row \in ReportRow
          /\ row.key = BuildIdempotencyKey(emp, "clock_in", event.time, new.version)
      BY <3>1, NewReportType
    <3>3. QED
      BY <1>3, <3>2 DEF BuildIdempotencyKey
  <2>3. rec.first # NoTime => Truncated(event.time) <= told
    <3>1. SUFFICES ASSUME event.time < rec.first PROVE Truncated(event.time) <= told
      BY <1>5 DEF ClockInNeedsReport
    <3>2. Truncated(event.time) + Second <= rec.first
      BY <1>1, <1>4, <3>1, EarlierTime
    <3>3. QED
      BY <1>1, <1>4, <3>2 DEF WithinASecond, Second
  <2> HIDE DEF row, new, stored, told
  <2>4. ASSUME NEW i \in 1..Len(rows), rows[i].key.emp = emp
        PROVE  Superseded(rows[i].key, stored, Truncated(event.time))
    <3>1. rec.first # NoTime => stored.first # NoTime /\ Truncated(event.time) <= told
      BY <1>4, <2>1, <2>3
    <3>2. rec.last # NoTime => stored.last # NoTime /\ rec.last <= stored.last
      BY <1>1, <2>1
    <3>3. Superseded(rows[i].key, rec, told) /\ rows[i].key.time \in Nat
      BY <1>2, <2>4
    <3>4. QED
      BY <1>1, <1>3, <1>4, <3>1, <3>2, <3>3, StaysSuperseded
  <2>5. ReportFor(emp, stored, "clock_out") = ReportFor(emp, rec, "clock_out")
    BY <1>3, <2>1 DEF ReportFor, TimeOf
  <2>6. CASE Has(rows, row.key)
    <3>1. PICK i \in 1..Len(rows) : rows[i].key = row.key
      BY <2>6 DEF Has, FindByIdempotencyKey
    <3>2. rec.first # NoTime /\ told <= Truncated(event.time)
      BY <1>2, <2>2, <3>1 DEF Superseded
    <3>3. told = Truncated(event.time)
      BY <1>1, <1>4, <2>3, <3>2
    <3>4. Consistent(emp, stored, rows)
      BY <1>4, <2>1, <2>4, <2>5, <3>3 DEF Consistent, ClockOutSettled, told
    <3>5. QED
      BY <2>6, <3>4 DEF stored, new, row
  <2>7. CASE ~ Has(rows, row.key)
    <3>1. Newest(Append(rows, row), emp, "clock_in") = Truncated(event.time)
      BY <2>2, NewestAppended
    <3>2. Newest(Append(rows, row), emp, "clock_out") = Newest(rows, emp, "clock_out")
      BY <2>2, NewestAppended
    <3>3. Superseded(row.key, stored, Truncated(event.time))
      BY <1>1, <1>3, <1>4, <2>1, <2>2 DEF Superseded
    <3>4. ClockOutSettled(emp, stored, Append(rows, row)) => ClockOutSettled(emp, rec, rows)
      <4>1. ReportFor(emp, rec, "clock_out").key # row.key
        BY <1>1, <1>4, <2>2, ReportKey DEF Kinds
      <4>2. QED
        BY <2>1, <2>2, <2>5, <2>7, <4>1, NewRowAppended DEF ClockOutSettled
    <3>5. \A i \in 1..Len(Append(rows, row)) :
            Append(rows, row)[i].key.emp = emp =>
              Superseded(Append(rows, row)[i].key, stored, Truncated(event.time))
      <4>1. /\ Len(Append(rows, row)) = Len(rows) + 1 /\ Len(rows) \in Nat
            /\ Append(rows, row)[Len(rows) + 1] = row
            /\ \A i \in 1..Len(rows) : Append(rows, row)[i] = rows[i]
        BY <2>2, <2>7, NewRowAppended
      <4>2. QED
        BY <2>4, <3>3, <4>1
    <3>6. Consistent(emp, stored, Append(rows, row))
      BY <1>4, <2>1, <3>1, <3>2, <3>4, <3>5 DEF Consistent
    <3>7. QED
      BY <1>5, <2>7, <3>6 DEF stored, new, row
  <2>8. QED
    BY <2>6, <2>7
<1>6. CASE ~ ClockInNeedsReport(rec, event)
  <2>1. stored.first = rec.first
    BY <1>6, StoredEvent
  <2>2. CASE event.kind = "disconnect" /\ (rec.last = NoTime \/ event.time > rec.last)
    <3>1. stored.last = Rounded(event.time)
      BY <1>6, <2>2, StoredEvent
    <3>2. rec.last # NoTime => rec.last <= Rounded(event.time)
      BY <1>1, <1>4, <2>2, LaterTime
    <3> HIDE DEF new, stored, told
    <3>3. ASSUME NEW i \in 1..Len(rows), rows[i].key.emp = emp
          PROVE  Superseded(rows[i].key, stored, told)
      BY <1>1, <1>2, <1>3, <1>4, <2>1, <3>1, <3>2, <3>3, StaysSuperseded
    <3>4. ClockOutSettled(emp, stored, rows) => Newest(rows, emp, "clock_out") = stored.last
      <4>1. CASE rec.last = Rounded(event.time)
        <5>1. ReportFor(emp, stored, "clock_out") = ReportFor(emp, rec, "clock_out")
          BY <1>3, <3>1, <4>1 DEF ReportFor, TimeOf
        <5>2. QED
          BY <3>1, <4>1, <5>1 DEF Consistent, ClockOutSettled
      <4>2. CASE rec.last # Rounded(event.time)
        <5>1. /\ ReportFor(emp, stored, "clock_out").key =
                    BuildIdempotencyKey(emp, "clock_out", Rounded(event.time), rec.version)
              /\ Truncated(Rounded(event.time)) = Rounded(event.time)
          BY <1>3, <1>4, <3>1, ReportKey, StoredIsRecord DEF Kinds, TimeOf
        <5>2. ASSUME NEW i \in 1..Len(rows),
                     rows[i].key = BuildIdempotencyKey(emp, "clock_out", Rounded(event.time),
                                                       rec.version)
              PROVE  FALSE
          <6>1. rec.last # NoTime /\ Rounded(event.time) <= rec.last
            BY <1>2, <5>1, <5>2 DEF Superseded, BuildIdempotencyKey
          <6>2. QED
            BY <1>1, <1>4, <3>2, <4>2, <6>1
        <5>3. QED
          BY <1>4, <3>1, <5>1, <5>2 DEF ClockOutSettled, Has, FindByIdempotencyKey
      <4>3. QED
        BY <4>1, <4>2
    <3>5. Consistent(emp, stored, rows)
      BY <1>1, <2>1, <3>3, <3>4 DEF Consistent, told
    <3>6. QED
      BY <1>6, <3>5 DEF stored, new
  <2>3. CASE ~ (event.kind = "disconnect" /\ (rec.last = NoTime \/ event.time > rec.last))
    <3>1. stored.last = rec.last
      BY <1>6, <2>3, StoredEvent
    <3>2. Consistent(emp, stored, rows)
      <4> HIDE DEF new, stored
      <4>1. QED
        BY <1>1, <1>3, <1>4, <2>1, <3>1, ConsistentSame
    <3>3. QED
      BY <1>6, <3>2
  <2>4. QED
    BY <2>2, <2>3
<1>7. QED
  BY <1>5, <1>6

\* Every row of a record is of an earlier version than the corrected record's
LEMMA RowsAreOlder ==
  ASSUME NEW rows \in Seq(ReportRow), NEW emp, NEW old \in Record, NEW new \in Record,
         new.version = old.version + 1, Consistent(emp, old, rows), NEW told
  PROVE  \A i \in 1..Len(rows) :
           rows[i].key.emp = emp =>
             rows[i].key.version < new.version /\ Superseded(rows[i].key, new, told)
<1> SUFFICES ASSUME NEW i \in 1..Len(rows), rows[i].key.emp = emp
             PROVE  rows[i].key.version < new.version /\ Superseded(rows[i].key, new, told)
  OBVIOUS
<1>1. rows[i].key.version \in Nat /\ old.version \in Nat
  BY RowNumbers, RecordNumbers
<1>2. rows[i].key.version <= old.version
  BY DEF Consistent, Superseded
<1>3. QED
  BY <1>1, <1>2 DEF Superseded

\* The report of a record's own time is superseded by nothing: the record, as
\* it is stored, has the time the report tells, or the second after
LEMMA OwnReport ==
  ASSUME NEW emp \in Employees, NEW rec \in Record, NEW kind \in Kinds, NEW row,
         row.key = ReportFor(emp, rec, kind).key,
         NEW told \in Nat, kind = "clock_in" => told = Truncated(rec.first)
  PROVE  /\ Superseded(row.key, Stored(rec), told)
         /\ row.key.emp = emp /\ row.key.kind = kind
         /\ row.key.time = Truncated(TimeOf(rec, kind)) /\ row.key.version = rec.version
<1>1. /\ row.key.emp = emp /\ row.key.kind = kind
      /\ row.key.time = Truncated(TimeOf(rec, kind)) /\ row.key.version = rec.version
      /\ row.key.act = "create" <=> TimeOf(rec, kind) # NoTime
  BY ReportKey
<1>2. /\ Stored(rec).version = rec.version /\ rec.version \in Nat
      /\ Stored(rec).first = Rounded(rec.first) /\ Stored(rec).last = Rounded(rec.last)
      /\ rec.first \in Instants /\ rec.last \in Instants
  BY StoredType, RecordNumbers
<1>3. Superseded(row.key, Stored(rec), told)
  <2>1. CASE kind = "clock_in"
    <3>1. TimeOf(rec, kind) = rec.first
      BY <2>1 DEF TimeOf
    <3>2. rec.first # NoTime => Rounded(rec.first) # NoTime
      BY <1>2, InstantType
    <3>3. QED
      BY <1>1, <1>2, <2>1, <3>1, <3>2 DEF Superseded
  <2>2. CASE kind = "clock_out"
    <3>1. TimeOf(rec, kind) = rec.last
      BY <2>2 DEF TimeOf
    <3>2. /\ rec.last # NoTime => Rounded(rec.last) # NoTime
          /\ Truncated(rec.last) <= Rounded(rec.last)
      BY <1>2, InstantType, ToldAndStored
    <3>3. QED
      BY <1>1, <1>2, <2>2, <3>1, <3>2 DEF Superseded
  <2>3. QED
    BY <2>1, <2>2 DEF Kinds
<1>4. QED
  BY <1>1, <1>3

\* Rows that say nothing wrong, with another that does not
LEMMA SupersededAppended ==
  ASSUME NEW rows \in Seq(ReportRow), NEW row \in ReportRow, NEW emp, NEW rec, NEW told,
         \A i \in 1..Len(rows) : rows[i].key.emp = emp => Superseded(rows[i].key, rec, told),
         Superseded(row.key, rec, told)
  PROVE  \A i \in 1..Len(Append(rows, row)) :
           Append(rows, row)[i].key.emp = emp =>
             Superseded(Append(rows, row)[i].key, rec, told)
<1>1. /\ Len(Append(rows, row)) = Len(rows) + 1 /\ Len(rows) \in Nat
      /\ Append(rows, row)[Len(rows) + 1] = row
      /\ \A i \in 1..Len(rows) : Append(rows, row)[i] = rows[i]
  OBVIOUS
<1>2. QED
  BY <1>1

\* A clock-out the stored record has a row for is the time that row tells
LEMMA SettledByRow ==
  ASSUME NEW rows, NEW emp \in Employees, NEW rec \in Record, NEW row,
         row.key = ReportFor(emp, rec, "clock_out").key,
         ClockOutSettled(emp, Stored(rec), rows),
         \A key : key.emp = emp /\ key.kind = "clock_out" /\ key.version = rec.version
                  /\ Has(rows, key) => key = row.key
  PROVE  Truncated(rec.last) = Stored(rec).last
<1> DEFINE stored == Stored(rec)
           key == ReportFor(emp, stored, "clock_out").key
<1>1. /\ stored \in StoredRecord /\ stored.version = rec.version
      /\ stored.last = Rounded(rec.last) /\ rec.last \in Instants
      /\ stored \in Record /\ Truncated(stored.last) = stored.last
  BY StoredType, RecordNumbers, StoredIsRecord
<1> HIDE DEF stored
<1>2. /\ key.emp = emp /\ key.kind = "clock_out" /\ key.time = stored.last
      /\ key.version = rec.version
  BY <1>1, ReportKey DEF Kinds, TimeOf
<1>3. row.key.time = Truncated(rec.last)
  BY ReportKey DEF Kinds, TimeOf
<1>4. CASE stored.last = NoTime
  <2>1. rec.last = NoTime
    BY <1>1, <1>4, InstantType
  <2>2. Truncated(NoTime) = NoTime
    BY DEF Truncated, NoTime, Second
  <2>3. QED
    BY <1>4, <2>1, <2>2 DEF stored
<1>5. CASE stored.last # NoTime
  <2>1. Has(rows, key)
    BY <1>5 DEF ClockOutSettled, stored
  <2>2. key = row.key
    BY <1>2, <2>1
  <2>3. QED
    BY <1>2, <1>3, <2>2 DEF stored
<1>6. QED
  BY <1>4, <1>5

\* What a correction of one time queues is new and leaves the table consistent
LEMMA ConsistentCorrected ==
  ASSUME NEW rows \in Seq(ReportRow), NEW emp \in Employees,
         NEW old \in StoredRecord, NEW new \in Record, new.version = old.version + 1,
         Consistent(emp, old, rows), NEW kind \in Kinds,
         ChangedKinds(old, new) = <<kind>>,
         NEW row \in ReportRow, row.key = ReportFor(emp, new, kind).key
  PROVE  /\ ~ Has(rows, row.key)
         /\ Consistent(emp, Stored(new), Append(rows, row))
<1> DEFINE more == Append(rows, row)
           stored == Stored(new)
           told == IF kind = "clock_in" THEN Truncated(new.first)
                   ELSE Newest(rows, emp, "clock_in")
<1>1. /\ old \in Record /\ stored \in StoredRecord /\ stored \in Record
      /\ stored.version = new.version
      /\ stored.first = Rounded(new.first) /\ stored.last = Rounded(new.last)
      /\ Rounded(old.first) = old.first /\ Rounded(old.last) = old.last
      /\ new.first \in Instants /\ new.last \in Instants
  BY StoredType, StoredIsRecord, RecordNumbers
<1>2. told \in Nat
  BY <1>1, InstantType, NewestNumber DEF WholeSeconds
<1> HIDE DEF stored, told
<1>3. /\ Superseded(row.key, stored, told) /\ row.key.emp = emp /\ row.key.kind = kind
      /\ row.key.time = Truncated(TimeOf(new, kind)) /\ row.key.version = new.version
  BY <1>2, OwnReport DEF stored, told
<1>4. new.version \in Nat /\ \A i \in 1..Len(rows) : rows[i].key.version \in Nat
  BY RowNumbers, RecordNumbers
<1>5. \A i \in 1..Len(rows) :
        rows[i].key.emp = emp =>
          rows[i].key.version < new.version /\ Superseded(rows[i].key, stored, told)
  BY <1>1, RowsAreOlder
<1>6. \A key : key.emp = emp /\ key.version = new.version => ~ Has(rows, key)
  BY <1>4, <1>5 DEF Has, FindByIdempotencyKey
<1>7. ~ Has(rows, row.key)
  BY <1>3, <1>6
<1>8. \A i \in 1..Len(more) : more[i].key.emp = emp => Superseded(more[i].key, stored, told)
  BY <1>3, <1>5, SupersededAppended
<1>9. \A k : Newest(more, emp, k) =
               IF k = kind THEN Truncated(TimeOf(new, kind)) ELSE Newest(rows, emp, k)
  BY <1>3, NewestAppended
<1>10. \A key : key.emp = emp /\ key.version = new.version /\ Has(more, key)
                 => key = row.key
  BY <1>6, <1>7, NewRowAppended
<1>11. Newest(more, emp, "clock_in") = told
  BY <1>9 DEF TimeOf, told
<1>12. CASE kind = "clock_in"
  <2>1. stored.last = old.last
    BY <1>1, <1>12 DEF ChangedKinds
  <2>2. ReportFor(emp, stored, "clock_out").key.kind = "clock_out"
        /\ ReportFor(emp, stored, "clock_out").key.emp = emp
        /\ ReportFor(emp, stored, "clock_out").key.version = new.version
    BY <1>1, ReportKey DEF Kinds
  <2>3. ~ Has(more, ReportFor(emp, stored, "clock_out").key)
    BY <1>3, <1>10, <1>12, <2>2
  <2>4. ClockOutSettled(emp, stored, more) => ClockOutSettled(emp, old, rows)
    BY <2>1, <2>3 DEF ClockOutSettled
  <2>5. Newest(more, emp, "clock_out") = Newest(rows, emp, "clock_out")
    BY <1>9, <1>12
  <2>6. WithinASecond(told, stored.first)
    BY <1>1, <1>12, ToldAndStored DEF told
  <2>7. Consistent(emp, stored, more)
    BY <1>8, <1>11, <2>1, <2>4, <2>5, <2>6 DEF Consistent
  <2>8. QED
    BY <1>7, <2>7 DEF stored
<1>13. CASE kind = "clock_out"
  <2>1. stored.first = old.first
    BY <1>1, <1>13 DEF ChangedKinds
  <2>2. WithinASecond(told, stored.first)
    BY <1>13, <2>1 DEF Consistent, told
  <2>3. ASSUME ClockOutSettled(emp, stored, more)
        PROVE  Newest(more, emp, "clock_out") = stored.last
    <3>1. row.key = ReportFor(emp, new, "clock_out").key
      BY <1>13
    <3>2. \A key : key.emp = emp /\ key.kind = "clock_out" /\ key.version = new.version
                   /\ Has(more, key) => key = row.key
      BY <1>10
    <3> HIDE DEF more
    <3>3. ClockOutSettled(emp, Stored(new), more)
      BY <2>3 DEF stored
    <3>4. Truncated(new.last) = Stored(new).last
      BY <3>1, <3>2, <3>3, SettledByRow
    <3>5. QED
      BY <1>9, <1>13, <3>4 DEF TimeOf, stored
  <2>4. Consistent(emp, stored, more)
    BY <1>8, <1>11, <2>2, <2>3 DEF Consistent
  <2>5. QED
    BY <1>7, <2>4 DEF stored
<1>14. QED
  BY <1>12, <1>13 DEF Kinds

\* The same for a correction of both
LEMMA ConsistentBothCorrected ==
  ASSUME NEW rows \in Seq(ReportRow), NEW emp \in Employees,
         NEW old \in StoredRecord, NEW new \in Record, new.version = old.version + 1,
         Consistent(emp, old, rows),
         NEW in \in ReportRow, in.key = ReportFor(emp, new, "clock_in").key,
         NEW out \in ReportRow, out.key = ReportFor(emp, new, "clock_out").key
  PROVE  /\ ~ Has(rows, in.key)
         /\ ~ Has(Append(rows, in), out.key)
         /\ Consistent(emp, Stored(new), Append(Append(rows, in), out))
<1> DEFINE more == Append(rows, in)
           most == Append(more, out)
           stored == Stored(new)
           told == Truncated(new.first)
<1>1. /\ old \in Record /\ stored \in Record /\ stored.version = new.version
      /\ stored.first = Rounded(new.first) /\ stored.last = Rounded(new.last)
      /\ new.first \in Instants /\ new.last \in Instants
  BY StoredType, StoredIsRecord, RecordNumbers
<1>2. told \in Nat /\ WithinASecond(told, stored.first)
  BY <1>1, InstantType, ToldAndStored DEF WholeSeconds
<1>3. /\ Superseded(in.key, stored, told) /\ in.key.emp = emp /\ in.key.kind = "clock_in"
      /\ in.key.time = told /\ in.key.version = new.version
  BY <1>2, OwnReport DEF Kinds, TimeOf
<1>4. /\ Superseded(out.key, stored, told) /\ out.key.emp = emp /\ out.key.kind = "clock_out"
      /\ out.key.time = Truncated(new.last) /\ out.key.version = new.version
  BY <1>2, OwnReport DEF Kinds, TimeOf
<1> HIDE DEF stored, told
<1>5. new.version \in Nat /\ \A i \in 1..Len(rows) : rows[i].key.version \in Nat
  BY RowNumbers, RecordNumbers
<1>6. \A i \in 1..Len(rows) :
        rows[i].key.emp = emp =>
          rows[i].key.version < new.version /\ Superseded(rows[i].key, stored, told)
  BY <1>1, RowsAreOlder
<1>7. \A key : key.emp = emp /\ key.version = new.version => ~ Has(rows, key)
  BY <1>5, <1>6 DEF Has, FindByIdempotencyKey
<1>8. ~ Has(rows, in.key)
  BY <1>3, <1>7
<1>9. ~ Has(more, out.key)
  BY <1>3, <1>4, <1>7, <1>8, NewRowAppended
<1>10. more \in Seq(ReportRow)
  BY <1>8, NewRowAppended
<1>11. \A i \in 1..Len(most) : most[i].key.emp = emp => Superseded(most[i].key, stored, told)
  <2>1. \A i \in 1..Len(more) : more[i].key.emp = emp => Superseded(more[i].key, stored, told)
    BY <1>3, <1>6, SupersededAppended
  <2>2. QED
    BY <1>4, <1>10, <2>1, SupersededAppended
<1>12. Newest(more, emp, "clock_in") = told
  BY <1>3, NewestAppended
<1>13. \A kind : Newest(most, emp, kind) =
                 IF kind = "clock_out" THEN Truncated(new.last) ELSE Newest(more, emp, kind)
  <2> HIDE DEF more
  <2>1. \A kind : Newest(Append(more, out), emp, kind) =
                  IF out.key.emp = emp /\ out.key.kind = kind THEN out.key.time
                  ELSE Newest(more, emp, kind)
    BY <1>10, NewestAppended
  <2>2. QED
    BY <1>4, <2>1
<1>14. ASSUME ClockOutSettled(emp, stored, most)
       PROVE  Newest(most, emp, "clock_out") = stored.last
  <2>1. \A key : key.emp = emp /\ key.kind = "clock_out" /\ key.version = new.version
                 /\ Has(most, key) => key = out.key
    <3>1. \A key : Has(more, key) <=> Has(rows, key) \/ key = in.key
      BY <1>8, NewRowAppended
    <3> HIDE DEF more
    <3>2. \A key : Has(Append(more, out), key) <=> Has(more, key) \/ key = out.key
      BY <1>9, <1>10, NewRowAppended
    <3> SUFFICES ASSUME NEW key, key.emp = emp, key.kind = "clock_out",
                        key.version = new.version, Has(most, key)
                 PROVE  key = out.key
      OBVIOUS
    <3>3. ~ Has(rows, key) /\ key # in.key
      BY <1>3, <1>7
    <3>4. QED
      BY <3>1, <3>2, <3>3
  <2>2. Truncated(new.last) = stored.last
    BY <1>14, <2>1, SettledByRow DEF stored
  <2>3. QED
    BY <1>13, <2>2
<1>15. Consistent(emp, stored, most)
  BY <1>2, <1>11, <1>12, <1>13, <1>14 DEF Consistent
<1>16. QED
  BY <1>8, <1>9, <1>15 DEF stored

\* What the day end queues is new, is the record's last disconnect, and leaves
\* the table consistent
LEMMA ConsistentFinalized ==
  ASSUME NEW rows \in Seq(ReportRow), NEW emp \in Employees, NEW rec \in StoredRecord,
         Consistent(emp, rec, rows), ~ ClockOutSettled(emp, rec, rows),
         NEW row \in ReportRow, row.key = ReportFor(emp, rec, "clock_out").key
  PROVE  /\ ~ Has(rows, row.key)
         /\ Consistent(emp, rec, Append(rows, row))
         /\ Newest(Append(rows, row), emp, "clock_out") = rec.last
<1> DEFINE told == Newest(rows, emp, "clock_in")
<1>1. ~ Has(rows, row.key)
  BY DEF ClockOutSettled
<1>2. /\ rec \in Record /\ Truncated(rec.last) = rec.last /\ told \in Nat
      /\ Stored(rec).version = rec.version
      /\ Stored(rec).first = rec.first /\ Stored(rec).last = rec.last
  BY StoredIsRecord, StoredType, NewestNumber
<1>3. /\ Superseded(row.key, Stored(rec), told)
      /\ row.key.emp = emp /\ row.key.kind = "clock_out"
      /\ row.key.time = rec.last
  BY <1>2, OwnReport DEF Kinds, TimeOf
<1>4. Superseded(row.key, rec, told)
  BY <1>2, <1>3 DEF Superseded
<1>5. /\ Newest(Append(rows, row), emp, "clock_out") = rec.last
      /\ Newest(Append(rows, row), emp, "clock_in") = told
  BY <1>3, NewestAppended
<1>6. \A i \in 1..Len(Append(rows, row)) :
        Append(rows, row)[i].key.emp = emp => Superseded(Append(rows, row)[i].key, rec, told)
  BY <1>4, SupersededAppended DEF Consistent
<1>7. QED
  BY <1>1, <1>5, <1>6 DEF Consistent

-----------------------------------------------------------------------------
(* One request at a time *)

HandlersIdle(except) == \A h \in Handlers \ except : handler[h] = Idle

AdminsIdle(except) == \A a \in Admins \ except : admin[a] = Idle

\* Whoever is in progress is alone
LEMMA Alone ==
  ASSUME OneAtATime
  PROVE  /\ \A h \in Handlers :
              handler[h] # Idle => HandlersIdle({h}) /\ AdminsIdle({}) /\ dayEnd = Idle
         /\ \A a \in Admins :
              admin[a] # Idle => HandlersIdle({}) /\ AdminsIdle({a}) /\ dayEnd = Idle
         /\ dayEnd # Idle => HandlersIdle({}) /\ AdminsIdle({})
<1>1. /\ \A h \in Handlers : handler[h] # Idle => h \in Active
      /\ \A a \in Admins : admin[a] # Idle => a \in Active
      /\ dayEnd # Idle => "dayEnd" \in Active
  BY DEF Active
<1>2. \A p, q \in Active : p = q
  BY DEF OneAtATime
<1>3. QED
  BY <1>1, <1>2, AttendanceAssumption DEF HandlersIdle, AdminsIdle

\* A request in progress is the only one
LEMMA AloneNext ==
  ASSUME OneAtATime'
  PROVE  /\ \A h \in Handlers :
              handler'[h] # Idle => HandlersIdle({h})' /\ AdminsIdle({})' /\ dayEnd' = Idle
         /\ \A a \in Admins :
              admin'[a] # Idle => HandlersIdle({})' /\ AdminsIdle({a})' /\ dayEnd' = Idle
         /\ dayEnd' # Idle => HandlersIdle({})' /\ AdminsIdle({})'
<1>1. /\ \A h \in Handlers : handler'[h] # Idle => h \in Active'
      /\ \A a \in Admins : admin'[a] # Idle => a \in Active'
      /\ dayEnd' # Idle => "dayEnd" \in Active'
  BY DEF Active
<1>2. \A p, q \in Active' : p = q
  BY DEF OneAtATime
<1>3. QED
  BY <1>1, <1>2, AttendanceAssumption DEF HandlersIdle, AdminsIdle

\* Delivered rows stay delivered
Kept ==
  \A i \in 1..Len(reports) :
    reports[i].status = "success" => reports'[i].status = "success"

\* What a step of a service has to keep
Keeps == TableInv' /\ Progress' /\ Kept

\* The record an event is applied to is consistent with the table
LEMMA LoadedConsistent ==
  ASSUME TypeOK, TableInv, NEW emp \in Employees
  PROVE  /\ LoadAttendanceRecord(emp) \in StoredRecord
         /\ LoadAttendanceRecord(emp).version # 0
         /\ Consistent(emp, LoadAttendanceRecord(emp), reports)
<1>1. /\ records[emp] \in StoredRecord /\ reports \in Seq(ReportRow)
      /\ Blank(records[emp]) /\ Consistent(emp, records[emp], reports)
  BY DEF TypeOK, TableInv
<1>2. CASE Exists(emp)
  BY <1>1, <1>2 DEF LoadAttendanceRecord, Exists
<1>3. CASE ~ Exists(emp)
  <2>1. Consistent(emp, NewRecord, reports)
    BY <1>1, <1>3, StoredIsRecord, ConsistentLoaded DEF Exists
  <2>2. NewRecord.version # 0
    BY DEF NewRecord
  <2>3. QED
    BY <1>3, <2>1, <2>2, NewRecordType DEF LoadAttendanceRecord
<1>4. QED
  BY <1>2, <1>3

\* A step after which nothing is in progress leaves no progress to speak of
LEMMA NothingInProgress ==
  ASSUME HandlersIdle({})', AdminsIdle({})', dayEnd' = Idle
  PROVE  Progress'
  BY DEF HandlersIdle, AdminsIdle, Progress, EventProgress, CorrectionProgress,
         DayEndProgress

\* An event of one handler keeps all
LEMMA PipelineSerial ==
  ASSUME TypeOK, TypeOK', SerialInv, OneAtATime', NEW h \in Handlers, PipelineStep(h)
  PROVE  Keeps
<1>1. /\ records \in [Employees -> StoredRecord] /\ reports \in Seq(ReportRow)
      /\ handler \in [Handlers -> HandlerState] /\ handler' \in [Handlers -> HandlerState]
      /\ OneAtATime /\ TableInv /\ EventProgress(h)
  BY DEF TypeOK, SerialInv, Progress
<1>2. ASSUME UNCHANGED <<records, reports>>
      PROVE  TableInv' /\ Kept
  BY <1>1, <1>2 DEF TableInv, Kept
<1>3. ASSUME handler[h] # Idle, UNCHANGED <<admin, dayEnd>>,
             handler' = [handler EXCEPT ![h] = Idle]
      PROVE  Progress'
  <2>1. HandlersIdle({h}) /\ AdminsIdle({}) /\ dayEnd = Idle
    BY <1>1, <1>3, Alone
  <2>2. HandlersIdle({})' /\ AdminsIdle({})' /\ dayEnd' = Idle
    BY <1>1, <1>3, <2>1 DEF HandlersIdle, AdminsIdle
  <2>3. QED
    BY <2>2, NothingInProgress
<1>4. ASSUME handler'[h] # Idle, EventProgress(h)'
      PROVE  Progress'
  <2>1. HandlersIdle({h})' /\ AdminsIdle({})' /\ dayEnd' = Idle
    BY <1>4, AloneNext
  <2>2. \A g \in Handlers : EventProgress(g)'
    BY <1>4, <2>1 DEF HandlersIdle, EventProgress
  <2>3. QED
    BY <2>1, <2>2 DEF AdminsIdle, Progress, CorrectionProgress, DayEndProgress
<1> DEFINE event == handler[h].event
           loaded == LoadAttendanceRecord(event.emp)
           row == NewReport(ClockInKey(h))
<1>5. ASSUME handler[h].pc \in {"check", "save", "saveReport"}
      PROVE  /\ handler[h] # Idle /\ row.key = ClockInKey(h)
             /\ event \in Event /\ event.emp \in Employees
             /\ loaded \in StoredRecord /\ loaded.version # 0
             /\ handler[h].rec = ApplyEvent(loaded, event)
             /\ handler[h].pc \in {"check", "saveReport"} => ClockInNeedsReport(loaded, event)
             /\ handler[h].pc = "saveReport" => ~ Has(reports, row.key)
             /\ handler[h].pc = "save" =>
                  (ClockInNeedsReport(loaded, event) => Has(reports, row.key))
             /\ Stored(handler[h].rec).version = loaded.version
             /\ Consistent(event.emp, Stored(handler[h].rec),
                           IF ClockInNeedsReport(loaded, event) /\ ~ Has(reports, row.key)
                             THEN Append(reports, row) ELSE reports)
  <2>1. handler[h] # Idle /\ row.key = ClockInKey(h)
    BY <1>5 DEF Idle, NewReport
  <2>2. handler[h] \in [pc : {"check", "save", "saveReport"}, event : Event, rec : Record]
    BY <1>1, <1>5, HandlerShape
  <2>3. event \in Event /\ event.emp \in Employees
    BY <2>2 DEF Event
  <2>4. /\ loaded \in StoredRecord /\ loaded.version # 0
        /\ Consistent(event.emp, loaded, reports)
    BY <1>1, <2>3, LoadedConsistent
  <2>5. /\ handler[h].rec = ApplyEvent(loaded, event)
        /\ handler[h].pc \in {"check", "saveReport"} => ClockInNeedsReport(loaded, event)
        /\ handler[h].pc = "saveReport" => ~ Has(reports, ClockInKey(h))
        /\ handler[h].pc = "save" =>
             (ClockInNeedsReport(loaded, event) => Has(reports, ClockInKey(h)))
    BY <1>1, <2>1 DEF EventProgress
  <2>6. Stored(ApplyEvent(loaded, event)).version = loaded.version
    BY <2>3, <2>4, StoredEvent
  <2>7. row = NewReport(BuildIdempotencyKey(event.emp, "clock_in", event.time,
                                            ApplyEvent(loaded, event).version))
    BY <2>5 DEF ClockInKey
  <2>8. Consistent(event.emp, Stored(ApplyEvent(loaded, event)),
                   IF ClockInNeedsReport(loaded, event) /\ ~ Has(reports, row.key)
                     THEN Append(reports, row) ELSE reports)
    BY <1>1, <2>3, <2>4, <2>7, ConsistentEvent
  <2> HIDE DEF row, loaded
  <2>9. QED
    BY <2>1, <2>3, <2>4, <2>5, <2>6, <2>8
<1>6. CASE HandleEvent(h)
  <2>1. TableInv' /\ Kept
    BY <1>2, <1>6 DEF HandleEvent
  <2>2. PICK ev \in Event :
          handler' = [handler EXCEPT ![h] =
            [pc |-> IF ClockInNeedsReport(LoadAttendanceRecord(ev.emp), ev)
                      THEN "check" ELSE "save",
             event |-> ev, rec |-> ApplyEvent(LoadAttendanceRecord(ev.emp), ev)]]
    BY <1>6 DEF HandleEvent
  <2>3. /\ handler'[h].pc = (IF ClockInNeedsReport(LoadAttendanceRecord(ev.emp), ev)
                               THEN "check" ELSE "save")
        /\ handler'[h].event = ev
        /\ handler'[h].rec = ApplyEvent(LoadAttendanceRecord(ev.emp), ev)
    BY <1>1, <2>2
  <2>4. handler'[h] # Idle
    BY <2>3 DEF Idle
  <2>5. \A emp : LoadAttendanceRecord(emp)' = LoadAttendanceRecord(emp)
    BY <1>6 DEF HandleEvent, LoadAttendanceRecord, Exists
  <2>6. EventProgress(h)'
    BY <2>3, <2>5 DEF EventProgress
  <2>7. QED
    BY <1>4, <2>1, <2>4, <2>6 DEF Keeps
<1>7. CASE CheckClockInKey(h)
  <2>1. TableInv' /\ Kept
    BY <1>2, <1>7 DEF CheckClockInKey
  <2>2. handler[h].pc = "check" /\ reports' = reports
    BY <1>7 DEF CheckClockInKey
  <2>3. PICK pc \in {"save", "saveReport"} :
          /\ handler' = [handler EXCEPT ![h].pc = pc]
          /\ pc = "saveReport" <=> ~ Has(reports, ClockInKey(h))
    BY <1>7 DEF CheckClockInKey, Has
  <2>4. handler[h] \in [pc : {"check", "save", "saveReport"}, event : Event, rec : Record]
    BY <1>1, <2>2, HandlerShape
  <2>5. /\ handler'[h].pc = pc /\ handler'[h].event = event
        /\ handler'[h].rec = handler[h].rec
    BY <1>1, <2>3, <2>4
  <2>6. handler'[h] # Idle
    BY <2>5 DEF Idle
  <2>7. \A emp : LoadAttendanceRecord(emp)' = LoadAttendanceRecord(emp)
    BY <1>7 DEF CheckClockInKey, LoadAttendanceRecord, Exists
  <2>8. ClockInKey(h)' = ClockInKey(h)
    BY <2>5 DEF ClockInKey
  <2>9. /\ handler[h].rec = ApplyEvent(loaded, event)
        /\ ClockInNeedsReport(loaded, event)
    BY <1>5, <2>2
  <2>10. EventProgress(h)'
    BY <2>2, <2>3, <2>5, <2>7, <2>8, <2>9 DEF EventProgress
  <2>11. QED
    BY <1>4, <2>1, <2>6, <2>10 DEF Keeps
<1>8. CASE SaveAttendanceOnly(h)
  <2>1. /\ handler[h].pc = "save" /\ reports' = reports
        /\ records' = [records EXCEPT ![event.emp] = Stored(handler[h].rec)]
    BY <1>8 DEF SaveAttendanceOnly
  <2>2. /\ event.emp \in Employees
        /\ Stored(handler[h].rec).version # 0
        /\ Consistent(event.emp, Stored(handler[h].rec), reports)
    BY <1>5, <2>1
  <2>3. TableInv'
    BY <1>1, <2>1, <2>2 DEF TableInv, Blank
  <2>4. Kept
    BY <2>1 DEF Kept
  <2>5. Progress'
    BY <1>3, <1>5, <1>8, <2>1 DEF SaveAttendanceOnly
  <2>6. QED
    BY <2>3, <2>4, <2>5 DEF Keeps
<1>9. CASE SaveAttendanceAndReport(h)
  <2>1. /\ handler[h].pc = "saveReport" /\ reports' = SaveReport(reports, row)
        /\ records' = [records EXCEPT ![event.emp] = Stored(handler[h].rec)]
    BY <1>9 DEF SaveAttendanceAndReport
  <2>2. /\ event.emp \in Employees
        /\ Stored(handler[h].rec).version # 0
        /\ ~ Has(reports, row.key)
        /\ Consistent(event.emp, Stored(handler[h].rec), Append(reports, row))
    BY <1>5, <2>1
  <2>3. row \in ReportRow /\ row.key.emp = event.emp
    BY <1>1, <2>1, ClockInKeyType DEF NewReport, ClockInKey, BuildIdempotencyKey
  <2>4. /\ reports' = Append(reports, row)
        /\ \A i \in 1..Len(reports) : reports'[i] = reports[i]
    <3>1. reports \in Seq(ReportRow)
      BY <1>1
    <3> HIDE DEF row
    <3>2. /\ SaveReport(reports, row) = Append(reports, row)
          /\ \A i \in 1..Len(reports) : Append(reports, row)[i] = reports[i]
      BY <2>2, <2>3, <3>1, NewRowAppended
    <3>3. QED
      BY <2>1, <3>2
  <2>5. TableInv'
    <3> SUFFICES ASSUME NEW emp \in Employees
                 PROVE  Blank(records'[emp]) /\ Consistent(emp, records'[emp], reports')
      BY DEF TableInv
    <3>1. CASE emp = event.emp
      BY <1>1, <2>1, <2>2, <2>4, <3>1 DEF Blank
    <3>2. CASE emp # event.emp
      <4>1. /\ records'[emp] = records[emp] /\ records[emp] \in Record
            /\ Blank(records[emp]) /\ Consistent(emp, records[emp], reports)
        BY <1>1, <2>1, <3>2, StoredIsRecord DEF TableInv
      <4>2. Consistent(emp, records[emp], Append(reports, row))
        BY <1>1, <2>2, <2>3, <3>2, <4>1, ConsistentOther
      <4>3. QED
        BY <2>4, <4>1, <4>2
    <3>3. QED
      BY <3>1, <3>2
  <2>6. Kept
    BY <2>4 DEF Kept
  <2>7. Progress'
    BY <1>3, <1>5, <1>9, <2>1 DEF SaveAttendanceAndReport
  <2>8. QED
    BY <2>5, <2>6, <2>7 DEF Keeps
<1>10. CASE AbandonEvent(h)
  <2>1. TableInv' /\ Kept
    BY <1>2, <1>10 DEF AbandonEvent
  <2>2. Progress'
    BY <1>3, <1>10 DEF AbandonEvent
  <2>3. QED
    BY <2>1, <2>2 DEF Keeps
<1>11. QED
  BY <1>6, <1>7, <1>8, <1>9, <1>10 DEF PipelineStep

\* What a correction in progress has: fields of their types
LEMMA CorrectionFields ==
  ASSUME TypeOK, NEW a \in Admins, admin[a] # Idle
  PROVE  /\ admin[a].emp \in Employees /\ admin[a].rec \in Record
         /\ admin[a].todo \in KindSeqs /\ admin[a].rows \in Seq(ReportRow)
         /\ admin[a] \in [pc : {"loaded", "locked"}, emp : Employees, rec : Record,
                          todo : KindSeqs, rows : Seq(ReportRow)]
<1>1. admin[a] \in AdminState
  BY DEF TypeOK
<1>2. QED
  BY <1>1, AdminShape

\* The times of a correction that changes are one or both
LEMMA ChangedKindsCases ==
  ASSUME NEW old, NEW new
  PROVE  /\ ChangedKinds(old, new) \in KindSeqs
         /\ ChangedKinds(old, new) = <<"clock_in", "clock_out">>
            \/ ChangedKinds(old, new) = <<>>
            \/ \E kind \in Kinds : ChangedKinds(old, new) = <<kind>>
  BY DEF ChangedKinds, KindSeqs, Kinds

\* The step that builds the next report of a correction comes one further
LEMMA BuiltNext ==
  ASSUME NEW rows \in Seq(ReportRow), NEW emp, NEW rec, NEW kinds \in KindSeqs,
         NEW todo \in KindSeqs, todo # <<>>, Built(rows, todo, emp, rec, kinds),
         NEW row \in ReportRow, row.key = ReportFor(emp, rec, Head(todo)).key
  PROVE  Built(Append(rows, row), Tail(todo), emp, rec, kinds)
<1>1. CASE rows = <<>> /\ todo = kinds
  <2>1. Len(Append(rows, row)) = 1 /\ Append(rows, row)[1] = row
    BY <1>1
  <2>2. Head(kinds) = kinds[1]
    BY <1>1 DEF KindSeqs
  <2>3. QED
    BY <1>1, <2>1, <2>2 DEF Built
<1>2. CASE /\ Len(rows) = 1 /\ todo = Tail(kinds)
           /\ rows[1].key = ReportFor(emp, rec, kinds[1]).key
  <2>1. kinds = <<"clock_in", "clock_out">>
    BY <1>2 DEF KindSeqs
  <2>2. todo = <<"clock_out">>
    BY <1>2, <2>1
  <2>3. Tail(todo) = <<>> /\ Head(todo) = "clock_out"
    BY <2>2
  <2>4. /\ Len(Append(rows, row)) = 2
        /\ Append(rows, row)[1] = rows[1] /\ Append(rows, row)[2] = row
    <3>1. Len(rows) = 1
      BY <1>2
    <3>2. /\ Len(Append(rows, row)) = Len(rows) + 1
          /\ \A i \in 1..Len(rows) : Append(rows, row)[i] = rows[i]
          /\ Append(rows, row)[Len(rows) + 1] = row
      BY AppendProperties
    <3>3. QED
      BY <3>1, <3>2
  <2>5. kinds[1] = "clock_in" /\ kinds[2] = "clock_out"
    BY <2>1
  <2>6. \A j \in 1..2 : Append(rows, row)[j].key = ReportFor(emp, rec, kinds[j]).key
    BY <1>2, <2>3, <2>4, <2>5
  <2>7. QED
    BY <2>1, <2>3, <2>4, <2>6 DEF Built
<1>3. QED
  BY <1>1, <1>2 DEF Built

\* The Saves of a correction's transaction append rows of new keys and leave the
\* table consistent with the corrected record
LEMMA SavesCorrection ==
  ASSUME NEW rows \in Seq(ReportRow), NEW emp \in Employees,
         NEW old \in StoredRecord, NEW rec \in Record, rec.version = old.version + 1,
         Consistent(emp, old, rows), NEW new \in Seq(ReportRow),
         ChangedKinds(old, rec) # <<>>,
         Built(new, <<>>, emp, rec, ChangedKinds(old, rec))
  PROVE  /\ Consistent(emp, Stored(rec), SaveReports(rows, new))
         /\ \A i \in 1..Len(rows) : SaveReports(rows, new)[i] = rows[i]
         /\ \A e \in Employees \ {emp} : \A r \in Record :
              Consistent(e, r, rows) => Consistent(e, r, SaveReports(rows, new))
<1> DEFINE kinds == ChangedKinds(old, rec)
<1>1. CASE kinds = <<"clock_in", "clock_out">>
  <2>1. /\ Len(new) = 2
        /\ \A j \in 1..2 : new[j].key = ReportFor(emp, rec, kinds[j]).key
    BY <1>1 DEF Built
  <2>2. new[1] \in ReportRow /\ new[2] \in ReportRow
    <3>1. Len(new) = 2
      BY <2>1
    <3>2. \A i \in 1..Len(new) : new[i] \in ReportRow
      BY ElementOfSeq
    <3>3. QED
      BY <3>1, <3>2
  <2>3. /\ new[1].key = ReportFor(emp, rec, "clock_in").key
        /\ new[2].key = ReportFor(emp, rec, "clock_out").key
    BY <1>1, <2>1
  <2> DEFINE more == Append(rows, new[1])
             most == Append(more, new[2])
  <2>4. /\ ~ Has(rows, new[1].key) /\ ~ Has(more, new[2].key)
        /\ Consistent(emp, Stored(rec), most)
    BY <2>2, <2>3, ConsistentBothCorrected
  <2>5. /\ SaveReport(rows, new[1]) = more /\ more \in Seq(ReportRow)
        /\ Len(more) = Len(rows) + 1
        /\ \A i \in 1..Len(rows) : more[i] = rows[i]
    BY <2>2, <2>4, NewRowAppended
  <2>6. /\ SaveReport(more, new[2]) = most
        /\ \A i \in 1..Len(more) : most[i] = more[i]
    <3> HIDE DEF more
    <3>1. QED
      BY <2>2, <2>4, <2>5, NewRowAppended
  <2>7. SaveReports(rows, new) = most
    BY <2>1, <2>5, <2>6 DEF SaveReports
  <2>8. \A i \in 1..Len(rows) : most[i] = rows[i]
    BY <2>5, <2>6
  <2>9. new[1].key.emp = emp /\ new[2].key.emp = emp
    BY <2>3, ReportKey DEF Kinds
  <2>10. ASSUME NEW e \in Employees \ {emp}, NEW r \in Record, Consistent(e, r, rows)
         PROVE  Consistent(e, r, most)
    <3>1. Consistent(e, r, more)
      BY <2>2, <2>4, <2>9, <2>10, ConsistentOther
    <3> HIDE DEF more
    <3>2. QED
      BY <2>2, <2>4, <2>5, <2>9, <3>1, ConsistentOther
  <2>11. QED
    BY <2>4, <2>7, <2>8, <2>10
<1>2. ASSUME NEW kind \in Kinds, kinds = <<kind>>
      PROVE  /\ Consistent(emp, Stored(rec), SaveReports(rows, new))
             /\ \A i \in 1..Len(rows) : SaveReports(rows, new)[i] = rows[i]
             /\ \A e \in Employees \ {emp} : \A r \in Record :
                  Consistent(e, r, rows) => Consistent(e, r, SaveReports(rows, new))
  <2>1. /\ Len(new) = 1
        /\ new[1].key = ReportFor(emp, rec, kind).key
    BY <1>2 DEF Built
  <2>2. new[1] \in ReportRow
    <3>1. Len(new) = 1
      BY <2>1
    <3>2. \A i \in 1..Len(new) : new[i] \in ReportRow
      BY ElementOfSeq
    <3>3. QED
      BY <3>1, <3>2
  <2> DEFINE more == Append(rows, new[1])
  <2>3. ~ Has(rows, new[1].key) /\ Consistent(emp, Stored(rec), more)
    BY <1>2, <2>1, <2>2, ConsistentCorrected
  <2>4. /\ SaveReport(rows, new[1]) = more
        /\ \A i \in 1..Len(rows) : more[i] = rows[i]
    BY <2>2, <2>3, NewRowAppended
  <2>5. SaveReports(rows, new) = more
    BY <2>1, <2>4 DEF SaveReports
  <2>6. new[1].key.emp = emp
    BY <2>1, ReportKey
  <2>7. ASSUME NEW e \in Employees \ {emp}, NEW r \in Record, Consistent(e, r, rows)
        PROVE  Consistent(e, r, more)
    BY <2>2, <2>3, <2>6, <2>7, ConsistentOther
  <2>8. QED
    BY <2>3, <2>4, <2>5, <2>7
<1>3. QED
  BY <1>1, <1>2, ChangedKindsCases

\* A correction keeps all
LEMMA CorrectionSerial ==
  ASSUME TypeOK, TypeOK', SerialInv, OneAtATime', NEW a \in Admins, CorrectionStep(a)
  PROVE  Keeps
<1>1. /\ records \in [Employees -> StoredRecord] /\ reports \in Seq(ReportRow)
      /\ admin \in [Admins -> AdminState] /\ admin' \in [Admins -> AdminState]
      /\ OneAtATime /\ TableInv /\ CorrectionProgress(a)
  BY DEF TypeOK, SerialInv, Progress
<1>2. ASSUME UNCHANGED <<records, reports>>
      PROVE  TableInv' /\ Kept
  BY <1>1, <1>2 DEF TableInv, Kept
<1>3. ASSUME admin[a] # Idle, UNCHANGED <<handler, dayEnd>>,
             admin' = [admin EXCEPT ![a] = Idle]
      PROVE  Progress'
  <2>1. HandlersIdle({}) /\ AdminsIdle({a}) /\ dayEnd = Idle
    BY <1>1, <1>3, Alone
  <2>2. HandlersIdle({})' /\ AdminsIdle({})' /\ dayEnd' = Idle
    BY <1>1, <1>3, <2>1 DEF HandlersIdle, AdminsIdle
  <2>3. QED
    BY <2>2, NothingInProgress
<1>4. ASSUME admin'[a] # Idle, CorrectionProgress(a)'
      PROVE  Progress'
  <2>1. HandlersIdle({})' /\ AdminsIdle({a})' /\ dayEnd' = Idle
    BY <1>4, AloneNext
  <2>2. \A b \in Admins : CorrectionProgress(b)'
    BY <1>4, <2>1 DEF AdminsIdle, CorrectionProgress
  <2>3. QED
    BY <2>1, <2>2 DEF HandlersIdle, Progress, EventProgress, DayEndProgress
<1>5. CASE LoadForCorrection(a)
  <2>1. TableInv' /\ Kept
    BY <1>2, <1>5 DEF LoadForCorrection
  <2>2. PICK emp \in Employees, change \in Corrections :
          /\ ChangedKinds(records[emp], Corrected(records[emp], change)) # <<>>
          /\ admin' = [admin EXCEPT ![a] =
               [pc |-> "loaded", emp |-> emp, rec |-> Corrected(records[emp], change),
                todo |-> ChangedKinds(records[emp], Corrected(records[emp], change)),
                rows |-> <<>>]]
    BY <1>5 DEF LoadForCorrection
  <2>3. /\ admin'[a].pc = "loaded" /\ admin'[a].emp = emp /\ admin'[a].rows = <<>>
        /\ admin'[a].rec = Corrected(records[emp], change)
        /\ admin'[a].todo = ChangedKinds(records[emp], Corrected(records[emp], change))
    BY <1>1, <2>2
  <2>4. Corrected(records[emp], change).version = records[emp].version + 1
    BY DEF Corrected, ManualRecord
  <2>5. records' = records
    BY <1>5 DEF LoadForCorrection
  <2>6. CorrectionProgress(a)'
    BY <2>2, <2>3, <2>4, <2>5 DEF CorrectionProgress, Built
  <2>7. admin'[a] # Idle
    BY <2>3 DEF Idle
  <2>8. QED
    BY <1>4, <2>1, <2>6, <2>7 DEF Keeps
<1>6. CASE LockRecord(a)
  <2>1. TableInv' /\ Kept
    BY <1>2, <1>6 DEF LockRecord
  <2>2. admin[a] # Idle /\ admin' = [admin EXCEPT ![a].pc = "locked"] /\ records' = records
    BY <1>6 DEF LockRecord, Idle
  <2>3. admin[a] \in [pc : {"loaded", "locked"}, emp : Employees, rec : Record,
                      todo : KindSeqs, rows : Seq(ReportRow)]
    BY <2>2, CorrectionFields
  <2>4. /\ admin'[a].pc = "locked" /\ admin'[a].emp = admin[a].emp
        /\ admin'[a].rec = admin[a].rec /\ admin'[a].todo = admin[a].todo
        /\ admin'[a].rows = admin[a].rows
    BY <1>1, <2>2, <2>3
  <2>5. CorrectionProgress(a)'
    BY <1>1, <2>2, <2>4 DEF CorrectionProgress
  <2>6. admin'[a] # Idle
    BY <2>4 DEF Idle
  <2>7. QED
    BY <1>4, <2>1, <2>5, <2>6 DEF Keeps
<1>7. CASE BuildCorrectionReport(a)
  <2> DEFINE row == CopyLatestDeleteRecordID(reports,
                      ReportFor(admin[a].emp, admin[a].rec, Head(admin[a].todo)))
  <2>1. TableInv' /\ Kept
    BY <1>2, <1>7 DEF BuildCorrectionReport
  <2>2. /\ admin[a] # Idle /\ admin[a].todo # <<>> /\ records' = records
    BY <1>7 DEF BuildCorrectionReport, Idle
  <2>3. /\ admin[a].emp \in Employees /\ admin[a].rec \in Record
        /\ admin[a].todo \in KindSeqs /\ admin[a].rows \in Seq(ReportRow)
        /\ admin[a] \in [pc : {"loaded", "locked"}, emp : Employees, rec : Record,
                         todo : KindSeqs, rows : Seq(ReportRow)]
    BY <2>2, CorrectionFields
  <2>4. Head(admin[a].todo) \in Kinds
    BY <2>2, <2>3 DEF KindSeqs, Kinds
  <2>5. /\ row \in ReportRow
        /\ row.key = ReportFor(admin[a].emp, admin[a].rec, Head(admin[a].todo)).key
    BY <1>1, <2>3, <2>4, ReportForType, CopyLatestType
  <2> HIDE DEF row
  <2>6. admin' = [admin EXCEPT ![a] =
           [admin[a] EXCEPT !.todo = Tail(admin[a].todo),
                            !.rows = Append(admin[a].rows, row)]]
    BY <1>1, <1>7, <2>3 DEF BuildCorrectionReport, row
  <2>7. /\ admin'[a].pc = admin[a].pc /\ admin'[a].emp = admin[a].emp
        /\ admin'[a].rec = admin[a].rec /\ admin'[a].todo = Tail(admin[a].todo)
        /\ admin'[a].rows = Append(admin[a].rows, row)
    BY <1>1, <2>3, <2>6
  <2>8. CorrectionProgress(a)'
    <3> DEFINE kinds == ChangedKinds(records[admin[a].emp], admin[a].rec)
    <3>1. /\ admin[a].rec.version = records[admin[a].emp].version + 1
          /\ kinds # <<>> /\ kinds \in KindSeqs
          /\ Built(admin[a].rows, admin[a].todo, admin[a].emp, admin[a].rec, kinds)
      BY <1>1, <2>2, ChangedKindsCases DEF CorrectionProgress
    <3>2. Built(Append(admin[a].rows, row), Tail(admin[a].todo), admin[a].emp,
                admin[a].rec, kinds)
      BY <2>2, <2>3, <2>5, <3>1, BuiltNext
    <3>3. QED
      BY <2>2, <2>7, <3>1, <3>2 DEF CorrectionProgress
  <2>9. admin'[a] # Idle
    BY <2>3, <2>7 DEF Idle
  <2>10. QED
    BY <1>4, <2>1, <2>8, <2>9 DEF Keeps
<1>8. CASE CommitCorrection(a)
  <2>1. /\ admin[a] # Idle /\ admin[a].todo = <<>>
        /\ records' = [records EXCEPT ![admin[a].emp] = Stored(admin[a].rec)]
        /\ reports' = SaveReports(reports, admin[a].rows)
    BY <1>8 DEF CommitCorrection, Idle
  <2>2. /\ admin[a].emp \in Employees /\ admin[a].rec \in Record
        /\ admin[a].rows \in Seq(ReportRow)
    BY <2>1, CorrectionFields
  <2>3. /\ records[admin[a].emp] \in StoredRecord
        /\ Consistent(admin[a].emp, records[admin[a].emp], reports)
    BY <1>1, <2>2 DEF TableInv
  <2>4. /\ admin[a].rec.version = records[admin[a].emp].version + 1
        /\ ChangedKinds(records[admin[a].emp], admin[a].rec) # <<>>
        /\ Built(admin[a].rows, <<>>, admin[a].emp, admin[a].rec,
                 ChangedKinds(records[admin[a].emp], admin[a].rec))
    BY <1>1, <2>1 DEF CorrectionProgress
  <2>5. /\ Consistent(admin[a].emp, Stored(admin[a].rec), reports')
        /\ \A i \in 1..Len(reports) : reports'[i] = reports[i]
        /\ \A e \in Employees \ {admin[a].emp} : \A r \in Record :
             Consistent(e, r, reports) => Consistent(e, r, reports')
    BY <1>1, <2>1, <2>2, <2>3, <2>4, SavesCorrection
  <2>6. Blank(Stored(admin[a].rec))
    <3>1. Stored(admin[a].rec).version = admin[a].rec.version
      BY <2>2, StoredType
    <3>2. records[admin[a].emp].version \in Nat
      BY <2>3, StoredIsRecord, RecordNumbers
    <3>3. QED
      BY <2>4, <3>1, <3>2 DEF Blank
  <2>7. TableInv'
    BY <1>1, <2>1, <2>2, <2>5, <2>6, StoredIsRecord DEF TableInv
  <2>8. Kept
    BY <2>5 DEF Kept
  <2>9. Progress'
    BY <1>3, <1>8, <2>1 DEF CommitCorrection
  <2>10. QED
    BY <2>7, <2>8, <2>9 DEF Keeps
<1>9. CASE RollbackCorrection(a)
  <2>1. TableInv' /\ Kept
    BY <1>2, <1>9 DEF RollbackCorrection
  <2>2. Progress'
    BY <1>3, <1>9 DEF RollbackCorrection
  <2>3. QED
    BY <2>1, <2>2 DEF Keeps
<1>10. QED
  BY <1>5, <1>6, <1>7, <1>8, <1>9 DEF CorrectionStep

\* The day end's finalization leaves the version and the times alone
LEMMA FinalizedSame ==
  ASSUME NEW rec \in StoredRecord
  PROVE  LET final == Stored(FinalizeForDay(rec))
         IN  /\ final \in Record /\ final.version = rec.version
             /\ final.first = rec.first /\ final.last = rec.last
<1> DEFINE new == FinalizeForDay(rec)
<1>1. /\ rec \in Record
      /\ Rounded(rec.first) = rec.first /\ Rounded(rec.last) = rec.last
  BY StoredIsRecord
<1>2. /\ new \in Record /\ new.version = rec.version
      /\ new.first = rec.first /\ new.last = rec.last
  <2>1. FinalizeForDay(rec) \in Record
    BY <1>1, FinalizeForDayType
  <2>2. /\ FinalizeForDay(rec).version = rec.version
        /\ FinalizeForDay(rec).first = rec.first
        /\ FinalizeForDay(rec).last = rec.last
    BY DEF FinalizeForDay, StoredRecord, RecordWith
  <2>3. QED
    BY <2>1, <2>2
<1> HIDE DEF new
<1>3. /\ Stored(new) \in Record /\ Stored(new).version = rec.version
      /\ Stored(new).first = rec.first /\ Stored(new).last = rec.last
  BY <1>1, <1>2, StoredType, StoredIsRecord
<1>4. QED
  BY <1>3 DEF new

\* A step of the day end keeps all
LEMMA DayEndSerial ==
  ASSUME TypeOK, TypeOK', SerialInv, OneAtATime', DayEndStep
  PROVE  Keeps
<1>1. /\ records \in [Employees -> StoredRecord] /\ reports \in Seq(ReportRow)
      /\ dayEnd \in DayEndState
      /\ OneAtATime /\ TableInv /\ DayEndProgress
  BY DEF TypeOK, SerialInv, Progress
<1>2. ASSUME UNCHANGED <<records, reports>>
      PROVE  TableInv' /\ Kept
  BY <1>1, <1>2 DEF TableInv, Kept
<1>3. ASSUME dayEnd' # Idle, DayEndProgress'
      PROVE  Progress'
  <2>1. HandlersIdle({})' /\ AdminsIdle({})'
    BY <1>3, AloneNext
  <2>2. QED
    BY <1>3, <2>1 DEF HandlersIdle, AdminsIdle, Progress, EventProgress, CorrectionProgress
<1>4. CASE ListRecords
  <2>1. TableInv' /\ Kept
    BY <1>2, <1>4 DEF ListRecords
  <2>2. /\ dayEnd'.pc = "next" /\ dayEnd'.listed = records
        /\ dayEnd'.todo = {emp \in Employees : Exists(emp)}
        /\ records' = records /\ reports' = reports
    BY <1>4 DEF ListRecords
  <2>3. ASSUME NEW emp \in Employees \ dayEnd'.todo
        PROVE  Newest(reports, emp, "clock_out") = records[emp].last
    <3>1. records[emp].version = 0
      BY <2>2, <2>3 DEF Exists
    <3>2. records[emp].last = NoTime /\ Consistent(emp, records[emp], reports)
      BY <1>1, <3>1 DEF TableInv, Blank
    <3>3. QED
      BY <3>2 DEF Consistent, ClockOutSettled
  <2>4. DayEndProgress'
    BY <2>2, <2>3 DEF DayEndProgress
  <2>5. dayEnd' # Idle
    BY <2>2 DEF Idle
  <2>6. QED
    BY <1>3, <2>1, <2>4, <2>5 DEF Keeps
<1>5. ASSUME NEW emp \in Employees, FinalizeRecord(emp)
      PROVE  Keeps
  <2>1. TableInv' /\ Kept
    BY <1>2, <1>5 DEF FinalizeRecord
  <2>2. /\ dayEnd # Idle /\ emp \in dayEnd.todo
        /\ dayEnd'.listed = dayEnd.listed /\ dayEnd'.todo = dayEnd.todo
        /\ dayEnd'.emp = emp /\ dayEnd'.rows = <<>>
        /\ dayEnd'.pc = IF ClockOutQueued(emp, dayEnd.listed[emp]) THEN "save" ELSE "delete"
        /\ records' = records /\ reports' = reports
    BY <1>5 DEF FinalizeRecord, Idle
  <2>3. dayEnd.listed[emp] = records[emp]
    BY <1>1, <2>2 DEF DayEndProgress
  <2>4. ClockOutQueued(emp, records[emp]) <=> ClockOutSettled(emp, records[emp], reports)
    BY DEF ClockOutQueued, ClockOutSettled, Has
  <2>5. DayEndProgress'
    BY <1>1, <2>2, <2>3, <2>4 DEF DayEndProgress
  <2>6. dayEnd' # Idle
    BY <2>2 DEF Idle
  <2>7. QED
    BY <1>3, <2>1, <2>5, <2>6 DEF Keeps
<1>6. CASE BuildClockOutReport
  <2> DEFINE emp == dayEnd.emp
             row == CopyLatestDeleteRecordID(reports,
                      ReportFor(emp, dayEnd.listed[emp], "clock_out"))
  <2>1. TableInv' /\ Kept
    BY <1>2, <1>6 DEF BuildClockOutReport
  <2>2. /\ dayEnd.pc = "delete" /\ records' = records /\ reports' = reports
        /\ dayEnd' = [dayEnd EXCEPT !.pc = "save", !.rows = <<row>>]
    BY <1>6 DEF BuildClockOutReport
  <2>3. dayEnd \in [pc : {"delete", "save"}, listed : [Employees -> StoredRecord],
                    todo : SUBSET Employees, emp : Employees, rows : Seq(ReportRow)]
    BY <1>1, <2>2, DayEndShape
  <2>4. /\ dayEnd # Idle /\ emp \in dayEnd.todo /\ dayEnd.listed[emp] = records[emp]
        /\ ~ ClockOutSettled(emp, records[emp], reports)
    BY <1>1, <2>2 DEF DayEndProgress, Idle
  <2>5. row.key = ReportFor(emp, records[emp], "clock_out").key
    BY <1>1, <2>3, <2>4, StoredIsRecord, ReportForType, CopyLatestType DEF Kinds
  <2> HIDE DEF row
  <2>6. /\ dayEnd'.pc = "save" /\ dayEnd'.rows = <<row>> /\ dayEnd'.emp = emp
        /\ dayEnd'.listed = dayEnd.listed /\ dayEnd'.todo = dayEnd.todo
    BY <2>2, <2>3
  <2>7. Len(dayEnd'.rows) = 1 /\ dayEnd'.rows[1] = row
    BY <2>6
  <2>8. DayEndProgress'
    BY <1>1, <2>2, <2>4, <2>5, <2>6, <2>7 DEF DayEndProgress
  <2>9. dayEnd' # Idle
    BY <2>6 DEF Idle
  <2>10. QED
    BY <1>3, <2>1, <2>8, <2>9 DEF Keeps
<1>7. CASE SaveFinalized
  <2> DEFINE emp == dayEnd.emp
             rec == records[emp]
             row == dayEnd.rows[1]
  <2>1. dayEnd.pc = "save"
    BY <1>7 DEF SaveFinalized
  <2>2. dayEnd \in [pc : {"delete", "save"}, listed : [Employees -> StoredRecord],
                    todo : SUBSET Employees, emp : Employees, rows : Seq(ReportRow)]
    BY <1>1, <2>1, DayEndShape
  <2>3. /\ dayEnd # Idle /\ emp \in dayEnd.todo /\ emp \in Employees
        /\ dayEnd.listed[emp] = rec
        /\ IF ClockOutSettled(emp, rec, reports) THEN dayEnd.rows = <<>>
           ELSE Len(dayEnd.rows) = 1 /\ row.key = ReportFor(emp, rec, "clock_out").key
    BY <1>1, <2>1, <2>2 DEF DayEndProgress, Idle
  <2>4. rec \in StoredRecord /\ rec \in Record /\ Blank(rec) /\ Consistent(emp, rec, reports)
    BY <1>1, <2>3, StoredIsRecord DEF TableInv
  <2>5. /\ records' = [records EXCEPT ![emp] = Stored(FinalizeForDay(rec))]
        /\ reports' = IF dayEnd.rows = <<>> THEN reports ELSE SaveReport(reports, row)
        /\ dayEnd'.pc = "next" /\ dayEnd'.listed = dayEnd.listed
        /\ dayEnd'.todo = dayEnd.todo \ {emp}
    BY <1>7, <2>3 DEF SaveFinalized
  <2>6. /\ Consistent(emp, rec, reports')
        /\ Newest(reports', emp, "clock_out") = rec.last
        /\ \A i \in 1..Len(reports) : reports'[i] = reports[i]
        /\ \A e \in Employees \ {emp} :
             /\ Consistent(e, records[e], reports')
             /\ Newest(reports', e, "clock_out") = Newest(reports, e, "clock_out")
    <3>1. CASE ClockOutSettled(emp, rec, reports)
      <4>1. reports' = reports
        BY <2>3, <2>5, <3>1
      <4>2. QED
        BY <1>1, <2>4, <3>1, <4>1 DEF Consistent, TableInv
    <3>2. CASE ~ ClockOutSettled(emp, rec, reports)
      <4>1. Len(dayEnd.rows) = 1 /\ row.key = ReportFor(emp, rec, "clock_out").key
        BY <2>3, <3>2
      <4>2. row \in ReportRow /\ dayEnd.rows # <<>>
        <5>1. \A i \in 1..Len(dayEnd.rows) : dayEnd.rows[i] \in ReportRow
          BY <2>2, ElementOfSeq
        <5>2. QED
          BY <4>1, <5>1
      <4>3. reports' = SaveReport(reports, row)
        BY <2>5, <4>2
      <4> HIDE DEF row, rec
      <4>4. /\ ~ Has(reports, row.key)
            /\ Consistent(emp, rec, Append(reports, row))
            /\ Newest(Append(reports, row), emp, "clock_out") = rec.last
        BY <1>1, <2>3, <2>4, <3>2, <4>1, <4>2, ConsistentFinalized
      <4>5. /\ reports' = Append(reports, row)
            /\ \A i \in 1..Len(reports) : reports'[i] = reports[i]
        BY <1>1, <4>2, <4>3, <4>4, NewRowAppended
      <4>6. row.key.emp = emp
        BY <2>3, <2>4, <4>1, ReportKey DEF Kinds
      <4>7. ASSUME NEW e \in Employees \ {emp}
            PROVE  /\ Consistent(e, records[e], reports')
                   /\ Newest(reports', e, "clock_out") = Newest(reports, e, "clock_out")
        <5>1. records[e] \in Record /\ Consistent(e, records[e], reports)
          BY <1>1, StoredIsRecord DEF TableInv
        <5>2. Consistent(e, records[e], Append(reports, row))
          BY <1>1, <4>2, <4>4, <4>6, <5>1, ConsistentOther
        <5>3. Newest(Append(reports, row), e, "clock_out") = Newest(reports, e, "clock_out")
          BY <1>1, <4>2, <4>6, NewestAppended
        <5>4. QED
          BY <4>5, <5>2, <5>3
      <4>8. QED
        BY <4>4, <4>5, <4>7
    <3>3. QED
      BY <3>1, <3>2
  <2>7. /\ Stored(FinalizeForDay(rec)) \in Record
        /\ Stored(FinalizeForDay(rec)).version = rec.version
        /\ Stored(FinalizeForDay(rec)).first = rec.first
        /\ Stored(FinalizeForDay(rec)).last = rec.last
    BY <2>4, FinalizedSame
  <2>8. reports' \in Seq(ReportRow)
    BY DEF TypeOK
  <2>9. /\ records'[emp] = Stored(FinalizeForDay(rec))
        /\ \A e \in Employees \ {emp} : records'[e] = records[e]
    BY <1>1, <2>3, <2>5
  <2> HIDE DEF rec, row
  <2>10. Consistent(emp, records'[emp], reports') /\ Blank(records'[emp])
    <3>1. Consistent(emp, Stored(FinalizeForDay(rec)), reports')
      BY <2>3, <2>4, <2>6, <2>7, <2>8, ConsistentSame
    <3>2. QED
      BY <2>4, <2>7, <2>9, <3>1 DEF Blank
  <2>11. TableInv'
    BY <1>1, <2>6, <2>9, <2>10 DEF TableInv
  <2>12. Kept
    BY <2>6 DEF Kept
  <2>13. DayEndProgress'
    <3>1. \A e \in dayEnd'.todo : dayEnd'.listed[e] = records'[e]
      BY <1>1, <2>2, <2>3, <2>5, <2>9 DEF DayEndProgress
    <3>2. \A e \in Employees \ dayEnd'.todo :
            Newest(reports', e, "clock_out") = records'[e].last
      BY <1>1, <2>3, <2>5, <2>6, <2>7, <2>9 DEF DayEndProgress
    <3>3. QED
      BY <2>5, <3>1, <3>2 DEF DayEndProgress
  <2>14. dayEnd' # Idle
    BY <2>5 DEF Idle
  <2>15. QED
    BY <1>3, <2>11, <2>12, <2>13, <2>14 DEF Keeps
<1>8. CASE SaveRun
  <2>1. TableInv' /\ Kept
    BY <1>2, <1>8 DEF SaveRun
  <2>2. /\ dayEnd # Idle /\ dayEnd' = Idle /\ UNCHANGED <<handler, admin>>
    BY <1>8 DEF SaveRun, Idle
  <2>3. HandlersIdle({})' /\ AdminsIdle({})'
    BY <1>1, <2>2, Alone DEF HandlersIdle, AdminsIdle
  <2>4. QED
    BY <2>1, <2>2, <2>3, NothingInProgress DEF Keeps
<1>9. QED
  BY <1>4, <1>5, <1>6, <1>7, <1>8 DEF DayEndStep

\* A delivery changes no key and no record
LEMMA DeliverSerial ==
  ASSUME TypeOK, TypeOK', SerialInv, NEW i \in 1..Len(reports), DeliverReport(i)
  PROVE  Keeps
<1>1. /\ records \in [Employees -> StoredRecord] /\ reports \in Seq(ReportRow)
      /\ reports' \in Seq(ReportRow)
      /\ TableInv /\ Progress
  BY DEF TypeOK, SerialInv
<1>2. UNCHANGED <<records, handler, admin, dayEnd>>
  BY DEF DeliverReport
<1>3. reports' \in
        {[reports EXCEPT ![i] = [reports[i] EXCEPT !.status = "success", !.delete = NoFlow]],
         [reports EXCEPT ![i] = [reports[i] EXCEPT !.status = "success", !.delete = NoFlow,
                                   !.ext = Len(flows) + 1, !.notif = "success"]]}
  BY DEF DeliverReport
<1>4. Len(reports') = Len(reports)
  BY <1>1, <1>3
<1>5. reports[i] \in ReportRow
  BY <1>1, ElementOfSeq
<1>6. /\ \A j \in 1..Len(reports) : j # i => reports'[j] = reports[j]
      /\ reports'[i].key = reports[i].key /\ reports'[i].status = "success"
  <2> DEFINE cleared == [reports[i] EXCEPT !.status = "success", !.delete = NoFlow]
             created == [reports[i] EXCEPT !.status = "success", !.delete = NoFlow,
                                           !.ext = Len(flows) + 1, !.notif = "success"]
  <2>1. /\ cleared.key = reports[i].key /\ cleared.status = "success"
        /\ created.key = reports[i].key /\ created.status = "success"
    BY <1>5 DEF ReportRow, Rows
  <2>2. reports' \in {[reports EXCEPT ![i] = cleared], [reports EXCEPT ![i] = created]}
    BY <1>3
  <2> HIDE DEF cleared, created
  <2>3. QED
    BY <1>1, <2>1, <2>2
<1>7. \A j \in 1..Len(reports) : reports'[j].key = reports[j].key
  BY <1>6
<1>8. Kept
  BY <1>6 DEF Kept
<1>9. TableInv'
  BY <1>1, <1>2, <1>4, <1>7, ConsistentKept DEF TableInv
<1>10. /\ \A emp, rec : ClockOutSettled(emp, rec, reports') <=> ClockOutSettled(emp, rec, reports)
       /\ \A emp, kind : Newest(reports', emp, kind) = Newest(reports, emp, kind)
  BY <1>1, <1>4, <1>7, ConsistentKept, NewestKept
<1>11. \A h \in Handlers : EventProgress(h)'
  <2>1. \A key : Has(reports', key) <=> Has(reports, key)
    BY <1>4, <1>7 DEF Has, FindByIdempotencyKey
  <2>2. \A h \in Handlers : ClockInKey(h)' = ClockInKey(h)
    BY <1>2 DEF ClockInKey
  <2>3. \A emp : LoadAttendanceRecord(emp)' = LoadAttendanceRecord(emp)
    BY <1>2 DEF LoadAttendanceRecord, Exists
  <2>4. QED
    BY <1>1, <1>2, <2>1, <2>2, <2>3 DEF Progress, EventProgress
<1>12. \A a \in Admins : CorrectionProgress(a)'
  BY <1>1, <1>2 DEF Progress, CorrectionProgress
<1>13. DayEndProgress'
  BY <1>1, <1>2, <1>10 DEF Progress, DayEndProgress
<1>14. QED
  BY <1>8, <1>9, <1>11, <1>12, <1>13 DEF Keeps, Progress

-----------------------------------------------------------------------------
(* The theorems *)

\* One request at a time, every step keeps the table consistent
LEMMA SerialStep ==
  ASSUME TypeOK, TypeOK', SerialInv, [Next /\ OneAtATime']_vars
  PROVE  SerialInv' /\ Keeps
<1>1. CASE UNCHANGED vars
  <2>1. TableInv' /\ Kept
    BY <1>1 DEF vars, SerialInv, TableInv, Kept
  <2>2. Progress'
    BY <1>1 DEF vars, SerialInv, Progress, EventProgress, CorrectionProgress,
                DayEndProgress, LoadAttendanceRecord, Exists, ClockInKey
  <2>3. OneAtATime'
    BY <1>1 DEF vars, SerialInv, OneAtATime, Active
  <2>4. QED
    BY <2>1, <2>2, <2>3 DEF SerialInv, Keeps
<1>2. CASE Next /\ OneAtATime'
  <2>1. ASSUME NEW h \in Handlers, PipelineStep(h)
        PROVE  Keeps
    BY <1>2, <2>1, PipelineSerial
  <2>2. ASSUME NEW a \in Admins, CorrectionStep(a)
        PROVE  Keeps
    BY <1>2, <2>2, CorrectionSerial
  <2>3. ASSUME DayEndStep
        PROVE  Keeps
    BY <1>2, <2>3, DayEndSerial
  <2>4. ASSUME DispatcherStep
        PROVE  Keeps
    BY <2>4, DeliverSerial DEF DispatcherStep
  <2>5. ASSUME Crash
        PROVE  Keeps
    <3>1. HandlersIdle({})' /\ AdminsIdle({})' /\ dayEnd' = Idle
      BY <2>5 DEF Crash, HandlersIdle, AdminsIdle
    <3>2. TableInv' /\ Kept
      BY <2>5 DEF Crash, SerialInv, TableInv, Kept
    <3>3. QED
      BY <3>1, <3>2, NothingInProgress DEF Keeps
  <2>6. Keeps
    BY <1>2, <2>1, <2>2, <2>3, <2>4, <2>5 DEF Next
  <2>7. QED
    BY <1>2, <2>6 DEF Keeps, SerialInv
<1>3. QED
  BY <1>1, <1>2

\* The empty tables are consistent, and nothing is in progress
LEMMA SerialInit == Init => SerialInv
<1> SUFFICES ASSUME Init PROVE SerialInv
  OBVIOUS
<1>1. OneAtATime
  BY DEF Init, OneAtATime, Active
<1>2. Progress
  BY DEF Init, Progress, EventProgress, CorrectionProgress, DayEndProgress
<1>3. ASSUME NEW emp \in Employees
      PROVE  Blank(records[emp]) /\ Consistent(emp, records[emp], reports)
  <2>1. reports = <<>> /\ Len(reports) = 0
    BY DEF Init
  <2>2. records[emp].first = NoTime /\ records[emp].last = NoTime
    BY DEF Init, NoRecord, NewRecord
  <2>3. \A kind : Newest(reports, emp, kind) = NoTime
    BY <2>1 DEF Newest
  <2>4. QED
    BY <2>1, <2>2, <2>3 DEF Blank, Consistent, WithinASecond
<1>4. QED
  BY <1>1, <1>2, <1>3 DEF SerialInv, TableInv

\* Serial behaviours are behaviours of the services
LEMMA SerialInductive == SerialSpec => [](TypeOK /\ SerialInv)
<1>1. SerialSpec => Spec
  <2>1. [Next /\ OneAtATime']_vars => [Next]_vars
    OBVIOUS
  <2>2. QED
    BY <2>1, PTL DEF SerialSpec, Spec
<1>2. Init => SerialInv
  BY SerialInit
<1>3. TypeOK /\ TypeOK' /\ SerialInv /\ [Next /\ OneAtATime']_vars => SerialInv'
  BY SerialStep
<1>4. QED
  BY <1>1, <1>2, <1>3, Inductive, PTL DEF SerialSpec

(***************************************************************************)
(* With one request at a time, whenever nothing is in progress the newest  *)
(* clock-in report of every employee carries the first connect of his      *)
(* record, or the second before where the record's DATETIME was rounded up *)
(* and the report's time cut off, or clears it (SyslogPipeline.Handle,     *)
(* CorrectAttendance, BuildIdempotencyKey).                                *)
(***************************************************************************)
THEOREM ClockInQueueFollows == SerialSpec => []ClockInQueueMatches
<1>1. SerialInv => ClockInQueueMatches
  <2>1. \A emp, kind : QueuedLast(emp, kind) = Newest(reports, emp, kind)
    BY DEF QueuedLast, Newest
  <2>2. QED
    BY <2>1 DEF SerialInv, TableInv, Consistent, ClockInQueueMatches
<1>2. QED
  BY <1>1, SerialInductive, PTL

(***************************************************************************)
(* With one request at a time, when the day-end run is about to be marked  *)
(* as executed the newest clock-out report of every employee carries the   *)
(* last disconnect of his record (DayEndService.RunDate).                  *)
(***************************************************************************)
THEOREM ClockOutQueueFollows == SerialSpec => []ClockOutQueueMatches
<1>1. SerialInv => ClockOutQueueMatches
  <2> SUFFICES ASSUME SerialInv, dayEnd.pc = "next", dayEnd.todo = {}, NEW emp \in Employees
               PROVE  QueuedLast(emp, "clock_out") = records[emp].last
    BY DEF ClockOutQueueMatches
  <2>1. dayEnd # Idle
    BY DEF Idle
  <2>2. Newest(reports, emp, "clock_out") = records[emp].last
    BY <2>1 DEF SerialInv, Progress, DayEndProgress
  <2>3. QED
    BY <2>2 DEF QueuedLast, Newest
<1>2. QED
  BY <1>1, SerialInductive, PTL

(***************************************************************************)
(* With one request at a time no event, correction or repeated day-end run *)
(* queues a delivered report again (MySQLReportRepository.Save).           *)
(***************************************************************************)
THEOREM DeliveredAreKept == SerialSpec => DeliveredStaysDelivered
<1>1. /\ TypeOK /\ TypeOK' /\ SerialInv /\ [Next /\ OneAtATime']_vars
      => [\A i \in 1..Len(reports) :
            reports[i].status = "success" => reports'[i].status = "success"]_vars
  BY SerialStep DEF Keeps, Kept
<1>2. QED
  BY <1>1, SerialInductive, PTL DEF SerialSpec, DeliveredStaysDelivered

-----------------------------------------------------------------------------
(* The UDP loop alone *)

\* Only the loop is ever in progress
OnlyUdp == HandlersIdle({Udp}) /\ AdminsIdle({}) /\ dayEnd = Idle

\* Nothing else is ever started, so that requests never overlap
LEMMA OnlyUdpStep ==
  ASSUME TypeOK, OnlyUdp, [UdpNext]_vars
  PROVE  OnlyUdp' /\ OneAtATime'
<1>1. OnlyUdp'
  <2>1. handler \in [Handlers -> HandlerState]
    BY DEF TypeOK
  <2>2. CASE UNCHANGED vars
    BY <2>2 DEF vars, OnlyUdp, HandlersIdle, AdminsIdle
  <2>3. CASE PipelineStep(Udp)
    <3>1. UNCHANGED <<admin, dayEnd>> /\ \E state : handler' = [handler EXCEPT ![Udp] = state]
      BY <2>3 DEF PipelineStep, HandleEvent, CheckClockInKey, SaveAttendanceOnly,
                  SaveAttendanceAndReport, AbandonEvent
    <3>2. QED
      BY <2>1, <3>1 DEF OnlyUdp, HandlersIdle, AdminsIdle
  <2>4. CASE DispatcherStep
    BY <2>4 DEF DispatcherStep, DeliverReport, OnlyUdp, HandlersIdle, AdminsIdle
  <2>5. CASE Crash
    BY <2>5 DEF Crash, OnlyUdp, HandlersIdle, AdminsIdle
  <2>6. QED
    BY <2>2, <2>3, <2>4, <2>5 DEF UdpNext
<1>2. QED
  BY <1>1 DEF OnlyUdp, HandlersIdle, AdminsIdle, OneAtATime, Active

\* What the loop does is what the abstract day does, or nothing
LEMMA UdpStep ==
  ASSUME Udp \in Handlers, TypeOK, TypeOK', SerialInv, [UdpNext]_vars
  PROVE  [Day!DayNext]_(Day!dayVars)
<1> DEFINE first == [emp \in Employees |-> records[emp].first]
           last == [emp \in Employees |-> records[emp].last]
           queued == {<<reports[i].key.emp, reports[i].key.time>> : i \in 1..Len(reports)}
<1>1. /\ records \in [Employees -> StoredRecord] /\ records' \in [Employees -> StoredRecord]
      /\ reports \in Seq(ReportRow) /\ handler \in [Handlers -> HandlerState]
      /\ TableInv /\ EventProgress(Udp)
  BY DEF TypeOK, SerialInv, Progress
<1>2. ASSUME first' = first, last' = last, queued' = queued
      PROVE  UNCHANGED Day!dayVars
  BY <1>2 DEF Day!dayVars
<1>3. ASSUME records' = records, reports' = reports
      PROVE  UNCHANGED Day!dayVars
  BY <1>2, <1>3
<1> DEFINE event == handler[Udp].event
           emp == event.emp
           loaded == LoadAttendanceRecord(emp)
           stored == Stored(handler[Udp].rec)
           row == NewReport(ClockInKey(Udp))
           later == /\ ~ ClockInNeedsReport(loaded, event)
                    /\ event.kind = "disconnect"
                    /\ loaded.last = NoTime \/ event.time > loaded.last
<1>4. ASSUME handler[Udp].pc \in {"save", "saveReport"}
      PROVE  /\ event \in Event /\ emp \in Employees /\ event.time \in Times
             /\ loaded.first = records[emp].first /\ loaded.last = records[emp].last
             /\ ClockInNeedsReport(loaded, event) => stored.first = Rounded(event.time)
             /\ ~ ClockInNeedsReport(loaded, event) => stored.first = loaded.first
             /\ later => stored.last = Rounded(event.time)
             /\ ~ later => stored.last = loaded.last
             /\ handler[Udp].pc = "saveReport" =>
                  ClockInNeedsReport(loaded, event) /\ ~ Has(reports, row.key)
             /\ handler[Udp].pc = "save" =>
                  (ClockInNeedsReport(loaded, event) => Has(reports, row.key))
             /\ row \in ReportRow
             /\ row.key.emp = emp /\ row.key.time = Truncated(event.time)
  <2>1. handler[Udp] # Idle
    BY <1>4 DEF Idle
  <2>2. handler[Udp] \in [pc : {"check", "save", "saveReport"}, event : Event, rec : Record]
    BY <1>1, <1>4, HandlerShape
  <2>3. event \in Event /\ emp \in Employees /\ event.time \in Times
    BY <2>2 DEF Event
  <2>4. loaded \in StoredRecord
    BY <1>1, <2>3, LoadedConsistent
  <2>5. loaded.first = records[emp].first /\ loaded.last = records[emp].last
    BY <1>1, <2>3 DEF LoadAttendanceRecord, Exists, TableInv, Blank, NewRecord
  <2>6. /\ handler[Udp].rec = ApplyEvent(loaded, event)
        /\ handler[Udp].pc = "saveReport" =>
             ClockInNeedsReport(loaded, event) /\ ~ Has(reports, ClockInKey(Udp))
        /\ handler[Udp].pc = "save" =>
             (ClockInNeedsReport(loaded, event) => Has(reports, ClockInKey(Udp)))
    BY <1>1, <2>1 DEF EventProgress
  <2>7. /\ row \in ReportRow /\ row.key = ClockInKey(Udp)
        /\ row.key.emp = emp /\ row.key.time = Truncated(event.time)
    <3>1. ClockInKey(Udp) \in Keys(Employees, {})
      BY <1>1, <1>4, ClockInKeyType
    <3>2. row \in ReportRow /\ row.key = ClockInKey(Udp)
      BY <3>1, NewReportType
    <3>3. QED
      BY <3>2 DEF ClockInKey, BuildIdempotencyKey
  <2> HIDE DEF loaded, row
  <2>8. /\ ClockInNeedsReport(loaded, event) => stored.first = Rounded(event.time)
        /\ ~ ClockInNeedsReport(loaded, event) => stored.first = loaded.first
        /\ later => stored.last = Rounded(event.time)
        /\ ~ later => stored.last = loaded.last
    BY <2>3, <2>4, <2>6, StoredEvent
  <2>9. QED
    BY <2>3, <2>5, <2>6, <2>7, <2>8
<1> HIDE DEF loaded, stored, row
<1>5. ASSUME event.time \in Times, emp \in Employees,
             loaded.first = records[emp].first,
             ClockInNeedsReport(loaded, event), last' = last,
             first' = [first EXCEPT ![emp] = Rounded(event.time)],
             queued' = queued \cup {<<emp, Truncated(event.time)>>}
      PROVE  Day!DayNext
  <2>1. first[emp] = NoTime \/ event.time < first[emp]
    BY <1>5 DEF ClockInNeedsReport
  <2>2. PICK e \in Employees, time \in Times : e = emp /\ time = event.time
    BY <1>5
  <2>3. Day!Connect(e, time)
    BY <1>5, <2>1, <2>2 DEF Day!Connect
  <2>4. QED
    BY <2>3 DEF Day!DayNext
<1>6. CASE SaveAttendanceOnly(Udp)
  <2>1. /\ handler[Udp].pc = "save" /\ reports' = reports
        /\ records' = [records EXCEPT ![emp] = stored]
    BY <1>6 DEF SaveAttendanceOnly, stored
  <2>2. emp \in Employees /\ event.time \in Times
    BY <1>4, <2>1
  <2>3. /\ records'[emp] = stored
        /\ \A e \in Employees \ {emp} : records'[e] = records[e]
        /\ queued' = queued
    BY <1>1, <2>1, <2>2
  <2>4. CASE ClockInNeedsReport(loaded, event)
    <3>1. /\ loaded.first = records[emp].first /\ loaded.last = records[emp].last
          /\ stored.first = Rounded(event.time) /\ stored.last = loaded.last
          /\ Has(reports, row.key)
          /\ row.key.emp = emp /\ row.key.time = Truncated(event.time)
      BY <1>4, <2>1, <2>4
    <3>2. <<emp, Truncated(event.time)>> \in queued
      <4>1. PICK i \in 1..Len(reports) : reports[i].key = row.key
        BY <3>1 DEF Has, FindByIdempotencyKey
      <4>2. QED
        BY <3>1, <4>1
    <3>3. /\ first' = [first EXCEPT ![emp] = Rounded(event.time)]
          /\ last' = last
      BY <2>2, <2>3, <3>1
    <3>4. queued' = queued \cup {<<emp, Truncated(event.time)>>}
      BY <2>3, <3>2
    <3>5. QED
      BY <1>5, <2>2, <2>4, <3>1, <3>3, <3>4
  <2>5. CASE ~ ClockInNeedsReport(loaded, event)
    <3>1. /\ loaded.first = records[emp].first /\ loaded.last = records[emp].last
          /\ stored.first = loaded.first
          /\ later => stored.last = Rounded(event.time)
          /\ ~ later => stored.last = loaded.last
      BY <1>4, <2>1, <2>5
    <3>2. first' = first
      BY <2>2, <2>3, <3>1
    <3>3. CASE later
      <4>1. last' = [last EXCEPT ![emp] = Rounded(event.time)]
        BY <2>2, <2>3, <3>1, <3>3
      <4>2. last[emp] = NoTime \/ event.time > last[emp]
        BY <2>2, <3>1, <3>3
      <4>3. PICK e \in Employees, time \in Times : e = emp /\ time = event.time
        BY <2>2
      <4>4. Day!Disconnect(e, time)
        BY <2>3, <3>2, <4>1, <4>2, <4>3 DEF Day!Disconnect
      <4>5. QED
        BY <4>4 DEF Day!DayNext
    <3>4. CASE ~ later
      <4>1. last' = last
        BY <2>2, <2>3, <3>1, <3>4
      <4>2. QED
        BY <1>2, <2>3, <3>2, <4>1
    <3>5. QED
      BY <3>3, <3>4
  <2>6. QED
    BY <2>4, <2>5
<1>7. CASE SaveAttendanceAndReport(Udp)
  <2>1. /\ handler[Udp].pc = "saveReport" /\ reports' = SaveReport(reports, row)
        /\ records' = [records EXCEPT ![emp] = stored]
    BY <1>7 DEF SaveAttendanceAndReport, stored, row
  <2>2. /\ emp \in Employees /\ event.time \in Times
        /\ loaded.first = records[emp].first /\ loaded.last = records[emp].last
        /\ ClockInNeedsReport(loaded, event) /\ ~ Has(reports, row.key)
        /\ stored.first = Rounded(event.time) /\ stored.last = loaded.last
        /\ row \in ReportRow
        /\ row.key.emp = emp /\ row.key.time = Truncated(event.time)
    BY <1>4, <2>1
  <2>3. /\ records'[emp] = stored
        /\ \A e \in Employees \ {emp} : records'[e] = records[e]
    BY <1>1, <2>1, <2>2
  <2>4. /\ Len(reports') = Len(reports) + 1 /\ Len(reports) \in Nat
        /\ reports'[Len(reports) + 1] = row
        /\ \A i \in 1..Len(reports) : reports'[i] = reports[i]
    <3>1. reports \in Seq(ReportRow) /\ reports' = Append(reports, row)
      BY <1>1, <2>1, <2>2, NewRowAppended
    <3>2. QED
      BY <2>2, <3>1, NewRowAppended
  <2>5. queued' = queued \cup {<<emp, Truncated(event.time)>>}
    BY <2>2, <2>4
  <2>6. /\ first' = [first EXCEPT ![emp] = Rounded(event.time)]
        /\ last' = last
    BY <2>2, <2>3
  <2>7. QED
    BY <1>5, <2>2, <2>5, <2>6
<1>8. ASSUME NEW i \in 1..Len(reports), DeliverReport(i)
      PROVE  UNCHANGED Day!dayVars
  <2>1. records' = records
    BY <1>8 DEF DeliverReport
  <2>2. reports' \in
          {[reports EXCEPT ![i] = [reports[i] EXCEPT !.status = "success", !.delete = NoFlow]],
           [reports EXCEPT ![i] = [reports[i] EXCEPT !.status = "success", !.delete = NoFlow,
                                     !.ext = Len(flows) + 1, !.notif = "success"]]}
    BY <1>8 DEF DeliverReport
  <2>3. reports[i] \in ReportRow
    BY <1>1, ElementOfSeq
  <2>4. Len(reports') = Len(reports) /\ \A j \in 1..Len(reports) : reports'[j].key = reports[j].key
    <3> DEFINE cleared == [reports[i] EXCEPT !.status = "success", !.delete = NoFlow]
               created == [reports[i] EXCEPT !.status = "success", !.delete = NoFlow,
                                             !.ext = Len(flows) + 1, !.notif = "success"]
    <3>1. cleared.key = reports[i].key /\ created.key = reports[i].key
      BY <2>3 DEF ReportRow, Rows
    <3>2. reports' \in {[reports EXCEPT ![i] = cleared], [reports EXCEPT ![i] = created]}
      BY <2>2
    <3> HIDE DEF cleared, created
    <3>3. PICK sent \in {cleared, created} : reports' = [reports EXCEPT ![i] = sent]
      BY <3>2
    <3>4. sent.key = reports[i].key
      BY <3>1
    <3>5. QED
      BY <1>1, <3>3, <3>4
  <2>5. queued' = queued
    BY <2>4
  <2>6. QED
    BY <1>2, <2>1, <2>5
<1>9. CASE HandleEvent(Udp) \/ CheckClockInKey(Udp) \/ AbandonEvent(Udp) \/ Crash
           \/ UNCHANGED vars
  <2>1. records' = records /\ reports' = reports
    BY <1>9 DEF HandleEvent, CheckClockInKey, AbandonEvent, Crash, vars
  <2>2. QED
    BY <1>3, <2>1
<1>10. QED
  BY <1>6, <1>7, <1>8, <1>9 DEF UdpNext, PipelineStep, DispatcherStep

(***************************************************************************)
(* The UDP loop alone, restarts and deliveries included, implements the    *)
(* abstract day: records keep the earliest connect and the latest          *)
(* disconnect, to the second, and the report of a clock-in, its fraction   *)
(* cut off, appears in the very step its time does (SyslogPipeline.Handle, *)
(* SaveAttendanceAndReport).                                               *)
(***************************************************************************)
THEOREM UdpImplementsDay ==
  ASSUME Udp \in Handlers
  PROVE  UdpSpec => ImplementsDay
<1>1. Init => Day!DayInit /\ OnlyUdp
  BY DEF Init, Day!DayInit, OnlyUdp, HandlersIdle, AdminsIdle, NoRecord, NewRecord
<1>2. TypeOK /\ OnlyUdp /\ [UdpNext]_vars => OnlyUdp' /\ OneAtATime'
  BY OnlyUdpStep
<1>3. [UdpNext]_vars => [Next]_vars
  BY DEF UdpNext, Next
<1>4. TypeOK /\ TypeOK' /\ SerialInv /\ [UdpNext]_vars /\ OneAtATime' => SerialInv'
  BY <1>3, SerialStep
<1>5. TypeOK /\ TypeOK' /\ SerialInv /\ [UdpNext]_vars => [Day!DayNext]_(Day!dayVars)
  BY UdpStep
<1>6. Init => SerialInv
  BY SerialInit
<1>7. UdpSpec => Spec
  BY <1>3, PTL DEF UdpSpec, Spec
<1>8. UdpSpec => [](TypeOK /\ SerialInv)
  BY <1>2, <1>4, <1>6, <1>1, <1>7, Inductive, PTL DEF UdpSpec
<1>9. QED
  BY <1>1, <1>5, <1>8, PTL DEF UdpSpec, ImplementsDay, Day!DaySpec
=============================================================================
