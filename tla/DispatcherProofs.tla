-------------------------- MODULE DispatcherProofs --------------------------
(***************************************************************************)
(* Proofs about ReportDispatcher for every set of clocks and debug         *)
(* requests, every way Feishu may answer, and every limit and bound.       *)
(***************************************************************************)
EXTENDS ReportDispatcher, ReportTableProofs

\* The program counters of a caller that holds a row
RowPCs == {"queue", "insert", "begin", "progress", "create", "notify", "save"}

HoldingRow == [pc : RowPCs, row : DispatchRow]

WorkState == {Idle, [pc |-> "list"]} \cup HoldingRow

Flow == [key : DispatchKeys, old : Nat, live : BOOLEAN]

CopiesOK(list) ==
  /\ list \in [DOMAIN list -> DispatchRow]
  /\ DOMAIN list \subseteq 1..Len(reports)

\* The type invariant, one variable at a time
LEMMA TypeParts ==
  TypeOK <=> /\ reports \in Seq(DispatchRow)
             /\ flows \in Seq(Flow)
             /\ messages \subseteq DispatchKeys
             /\ work \in [Callers -> WorkState]
             /\ CopiesOK(queue)
             /\ CopiesOK(notices)
             /\ crashes \in 0..MaxCrashes
             /\ queued \in Seq(DispatchRow)
  BY DEF TypeOK, WorkState, HoldingRow, RowPCs, Flow, CopiesOK

-----------------------------------------------------------------------------
(* Types of what the operators return *)

LEMMA HoldingShape ==
  ASSUME NEW state \in WorkState, state.pc \in RowPCs
  PROVE  state \in HoldingRow
  BY DEF WorkState, HoldingRow, RowPCs, Idle

\* A caller's state changes: the others keep theirs
LEMMA WorkChanges ==
  ASSUME work \in [Callers -> WorkState], NEW c \in Callers, NEW state,
         work' = [work EXCEPT ![c] = state]
  PROVE  /\ state \in WorkState => work' \in [Callers -> WorkState]
         /\ work'[c] = state
         /\ \A d \in Callers : d # c => work'[d] = work[d]
  OBVIOUS

\* The keys upstream and the debug page build are keys of the table
LEMMA QueuedKeyType ==
  ASSUME NEW clock \in Clocks, NEW version \in Nat
  PROVE  /\ BuildIdempotencyKey(clock[1], clock[2], Instant, version) \in DispatchKeys
         /\ ClearKey(clock[1], clock[2], version) \in DispatchKeys
         /\ \A request \in Requests : ManualKey(clock, request) \in DispatchKeys
<1>1. clock[2] \in Kinds /\ clock[1] \in {k[1] : k \in Clocks}
  BY DispatcherAssumption
<1>2. Truncated(Instant) \in WholeSeconds /\ NoTime \in WholeSeconds
  BY TruncatedTime DEF Instant, Second, NoTime, WholeSeconds
<1>3. QED
  BY <1>1, <1>2 DEF BuildIdempotencyKey, ClearKey, ManualKey, DispatchKeys, Keys

\* What a new row looks like
LEMMA NewRowType ==
  ASSUME NEW key \in DispatchKeys
  PROVE  /\ NewReport(key) \in DispatchRow
         /\ NewReport(key).key = key
         /\ NewReport(key).status = "pending"
         /\ NewReport(key).ext = NoFlow
         /\ NewReport(key).delete = NoFlow
         /\ NewReport(key).old = NoFlow
         /\ NewReport(key).retry = 0
  BY DEF NewReport, DispatchRow, Rows, NoFlow

\* Filling in the flow to delete, and that it was, changes nothing else of a row
LEMMA CopiedRowType ==
  ASSUME NEW rows \in Seq(DispatchRow), NEW row \in DispatchRow
  PROVE  LET copied == CopyLatestDeleteRecordID(rows, row)
         IN  /\ copied \in DispatchRow
             /\ copied.key = row.key
             /\ copied.status = row.status
             /\ copied.ext = row.ext
             /\ copied.retry = row.retry
             /\ copied.delete = LatestFlow(rows, row.key.emp, row.key.kind)
             /\ copied.old = copied.delete
<1> DEFINE flow == LatestFlow(rows, row.key.emp, row.key.kind)
<1>1. \A r \in DispatchRow : r.ext \in Nat
  BY DEF DispatchRow, Rows
<1>2. flow \in Nat
  BY <1>1, LatestFlowType
<1>3. CopyLatestDeleteRecordID(rows, row) = [row EXCEPT !.delete = flow, !.old = flow]
  BY DEF CopyLatestDeleteRecordID
<1> HIDE DEF flow
<1>4. QED
  BY <1>2, <1>3 DEF flow, DispatchRow, Rows

\* The rows upstream and the debug page build
NewRows ==
  {NewReport(key) : key \in DispatchKeys} \cup
    {CopyLatestDeleteRecordID(reports, NewReport(key)) : key \in DispatchKeys}

\* They are pending, and the flow they are to delete is one the table holds
LEMMA NewRowsType ==
  ASSUME reports \in Seq(DispatchRow), NEW row \in NewRows
  PROVE  /\ row \in DispatchRow
         /\ row.status = "pending" /\ row.retry = 0 /\ row.ext = NoFlow
         /\ row.old = row.delete
         /\ row.delete = NoFlow \/ \E i \in 1..Len(reports) : row.delete = reports[i].ext
<1>1. PICK key \in DispatchKeys :
        row \in {NewReport(key), CopyLatestDeleteRecordID(reports, NewReport(key))}
  BY DEF NewRows
<1> DEFINE new == NewReport(key)
<1>2. /\ new \in DispatchRow /\ new.status = "pending" /\ new.retry = 0
      /\ new.ext = NoFlow /\ new.old = NoFlow /\ new.delete = NoFlow
  BY <1>1, NewRowType
<1> HIDE DEF new
<1>3. CASE row = new
  BY <1>2, <1>3
<1>4. CASE row = CopyLatestDeleteRecordID(reports, new)
  <2>1. /\ row \in DispatchRow /\ row.status = "pending" /\ row.retry = 0
        /\ row.ext = NoFlow /\ row.old = row.delete
        /\ row.delete = LatestFlow(reports, new.key.emp, new.key.kind)
    BY <1>2, <1>4, CopiedRowType
  <2>2. QED
    BY <2>1, LatestFlowIsHeld
<1>5. QED
  BY <1>1, <1>3, <1>4 DEF new

\* A writer builds one of them
LEMMA WriterBuilds ==
  ASSUME NEW w \in Writers, NEW clock \in Clocks,
         QueueClockIn(w, clock) \/ QueueClockOut(w, clock) \/ QueueCorrection(w, clock)
  PROVE  \E row \in NewRows : Queue(w, row)
<1>1. \A version \in Versions : version \in Nat
  BY DispatcherAssumption
<1>2. CASE QueueClockIn(w, clock)
  BY <1>1, <1>2, QueuedKeyType DEF QueueClockIn, NewRows
<1>3. CASE QueueClockOut(w, clock)
  BY <1>1, <1>3, QueuedKeyType DEF QueueClockOut, NewRows
<1>4. CASE QueueCorrection(w, clock)
  BY <1>1, <1>4, QueuedKeyType DEF QueueCorrection, NewRows
<1>5. QED
  BY <1>2, <1>3, <1>4

\* So does the debug page
LEMMA PageBuilds ==
  ASSUME NEW request \in Requests, NEW clock \in Clocks, DebugBegin(request, clock)
  PROVE  \E row \in NewRows :
           work' = [work EXCEPT ![request] = [pc |-> "insert", row |-> row]]
<1>1. ManualKey(clock, request) \in DispatchKeys
  BY QueuedKeyType
<1>2. QED
  BY <1>1 DEF DebugBegin, NewRows

\* A failed dispatch changes the status and the counter
LEMMA FailedType ==
  ASSUME NEW row \in DispatchRow
  PROVE  /\ Failed(row) \in DispatchRow
         /\ Failed(row).key = row.key
         /\ Failed(row).status = "failed"
         /\ Failed(row).delete = row.delete
         /\ Failed(row).ext = row.ext
         /\ Failed(row).old = row.old
<1>1. row.retry \in Nat /\ row.retry + 1 \in Nat
  BY DEF DispatchRow, Rows
<1> DEFINE retried == row.retry + 1
<1>2. Failed(row) = [row EXCEPT !.status = "failed", !.retry = retried]
  BY DEF Failed
<1>3. retried \in Nat
  BY <1>1
<1> HIDE DEF retried
<1>4. QED
  BY <1>2, <1>3 DEF DispatchRow, Rows

\* A batch holds copies of rows of the table
LEMMA BatchType ==
  ASSUME reports \in Seq(DispatchRow), NEW found \in SUBSET (1..Len(reports))
  PROVE  /\ CopiesOK(Batch(found))
         /\ \A i \in DOMAIN Batch(found) : i \in found /\ Batch(found)[i] = reports[i]
<1> DEFINE ids == {j \in found : Cardinality({k \in found : k < j}) < BatchLimit}
<1>1. ids \subseteq found /\ Batch(found) = [i \in ids |-> reports[i]]
  BY DEF Batch
<1> HIDE DEF ids
<1>2. \A i \in ids : reports[i] \in DispatchRow
  BY <1>1, ElementOfSeq
<1>3. QED
  BY <1>1, <1>2 DEF CopiesOK

\* The head of a non-empty list is a row
LEMMA FirstOfList ==
  ASSUME reports \in Seq(DispatchRow), NEW list, CopiesOK(list), DOMAIN list # {}
  PROVE  First(list) \in DOMAIN list /\ list[First(list)] \in DispatchRow
<1>1. DOMAIN list \in SUBSET (1..Len(reports)) /\ Len(reports) \in Nat
  BY DEF CopiesOK
<1>2. \E i \in DOMAIN list : \A j \in DOMAIN list : i <= j
  BY <1>1, LeastId
<1>3. First(list) \in DOMAIN list
  BY <1>2 DEF First
<1>4. QED
  BY <1>3 DEF CopiesOK

\* The rest of a list is part of it
LEMMA RestOfList ==
  ASSUME NEW list, CopiesOK(list)
  PROVE  /\ CopiesOK(Rest(list))
         /\ DOMAIN Rest(list) \subseteq DOMAIN list
         /\ \A i \in DOMAIN Rest(list) : Rest(list)[i] = list[i]
  BY DEF CopiesOK, Rest

\* Copies stay copies of rows when the table grows
LEMMA CopiesStay ==
  ASSUME NEW list, CopiesOK(list), Len(reports) \in Nat, Len(reports') \in Nat,
         Len(reports) <= Len(reports')
  PROVE  /\ list \in [DOMAIN list -> DispatchRow]
         /\ DOMAIN list \subseteq 1..Len(reports')
<1>1. 1..Len(reports) \subseteq 1..Len(reports')
  OBVIOUS
<1>2. QED
  BY <1>1 DEF CopiesOK

\* The empty list is a list
LEMMA NoRowsType == CopiesOK(NoRows)
  BY DEF CopiesOK, NoRows

\* A Save of a row: a table, at least as long
LEMMA SavedType ==
  ASSUME TypeOK, NEW row \in DispatchRow, reports' = SaveReport(reports, row)
  PROVE  /\ reports' \in Seq(DispatchRow)
         /\ Len(reports) \in Nat /\ Len(reports') \in Nat
         /\ Len(reports) <= Len(reports')
<1>1. reports \in Seq(DispatchRow)
  BY DEF TypeOK
<1>2. reports' \in Seq(DispatchRow)
  BY <1>1, SaveReportType
<1>3. Len(reports) <= Len(reports')
  BY <1>1, <1>2 DEF SaveReport
<1>4. QED
  BY <1>1, <1>2, <1>3

\* A Save leaves a table, and lists within it
LEMMA SavedTypes ==
  ASSUME TypeOK, NEW row \in DispatchRow, reports' = SaveReport(reports, row),
         UNCHANGED <<queue, notices>>
  PROVE  reports' \in Seq(DispatchRow) /\ CopiesOK(queue)' /\ CopiesOK(notices)'
<1>1. /\ reports' \in Seq(DispatchRow)
      /\ Len(reports) \in Nat /\ Len(reports') \in Nat /\ Len(reports) <= Len(reports')
  BY SavedType
<1>2. CopiesOK(queue) /\ CopiesOK(notices)
  BY TypeParts
<1>3. QED
  BY <1>1, <1>2, CopiesStay DEF CopiesOK

\* A caller past its lists holds a row
LEMMA HeldRow ==
  ASSUME TypeOK, NEW c \in Callers, work[c].pc \in RowPCs
  PROVE  /\ work[c] \in HoldingRow
         /\ work[c].row \in DispatchRow
         /\ work[c] = [pc |-> work[c].pc, row |-> work[c].row]
<1>1. work[c] \in WorkState
  BY TypeParts
<1>2. work[c] \in HoldingRow
  BY <1>1, HoldingShape
<1>3. QED
  BY <1>2 DEF HoldingRow

\* A row and a counter make a caller's state
LEMMA HoldingType ==
  ASSUME NEW pc \in RowPCs, NEW row \in DispatchRow
  PROVE  [pc |-> pc, row |-> row] \in WorkState
  BY DEF WorkState, HoldingRow

\* The writers, the loop and the debug requests are the callers
LEMMA WorkerIsCaller ==
  Worker \in Callers /\ Requests \subseteq Callers /\ Writers \subseteq Callers
  BY DEF Callers

\* What a dispatch makes of its copy of a row
LEMMA KeptType ==
  ASSUME NEW row \in DispatchRow
  PROVE  /\ [row EXCEPT !.delete = NoFlow] \in DispatchRow
         /\ [row EXCEPT !.delete = NoFlow].key = row.key
         /\ [row EXCEPT !.delete = NoFlow].ext = row.ext
         /\ [row EXCEPT !.delete = NoFlow].delete = NoFlow
         /\ [row EXCEPT !.delete = NoFlow].old = row.old
  BY DEF DispatchRow, Rows, NoFlow

\* The row after a deletion nothing replaces
LEMMA ClearedType ==
  ASSUME NEW row \in DispatchRow
  PROVE  /\ Cleared(row) \in DispatchRow
         /\ Cleared(row).key = row.key
         /\ Cleared(row).status = "success"
         /\ Cleared(row).notif = "skipped"
         /\ Cleared(row).delete = row.delete
         /\ Cleared(row).ext = row.ext
         /\ Cleared(row).old = row.old
<1> DEFINE done == [row EXCEPT !.status = "success"]
<1>1. /\ done \in DispatchRow /\ done.key = row.key /\ done.status = "success"
      /\ done.delete = row.delete /\ done.ext = row.ext /\ done.old = row.old
  BY DEF DispatchRow, Rows
<1>2. Cleared(row) = [done EXCEPT !.notif = "skipped"]
  BY DEF Cleared
<1> HIDE DEF done
<1>3. QED
  BY <1>1, <1>2 DEF DispatchRow, Rows

\* The row after its flow was created
LEMMA CreatedType ==
  ASSUME NEW row \in DispatchRow, NEW id \in Nat
  PROVE  /\ Created(row, id) \in DispatchRow
         /\ Created(row, id).key = row.key
         /\ Created(row, id).status = "success"
         /\ Created(row, id).notif = row.notif
         /\ Created(row, id).delete = row.delete
         /\ Created(row, id).ext = id
         /\ Created(row, id).old = row.old
<1> DEFINE done == [row EXCEPT !.status = "success"]
<1>1. /\ done \in DispatchRow /\ done.key = row.key
      /\ done.status = "success" /\ done.notif = row.notif
      /\ done.delete = row.delete /\ done.old = row.old
  BY DEF DispatchRow, Rows
<1>2. Created(row, id) = [done EXCEPT !.ext = id]
  BY DEF Created
<1> HIDE DEF done
<1>3. QED
  BY <1>1, <1>2 DEF DispatchRow, Rows

\* The row after its message was sent
LEMMA MessageSentType ==
  ASSUME NEW row \in DispatchRow
  PROVE  /\ MessageSent(row) \in DispatchRow
         /\ MessageSent(row).key = row.key
         /\ MessageSent(row).delete = row.delete
         /\ MessageSent(row).ext = row.ext
         /\ MessageSent(row).old = row.old
<1> DEFINE told == [row EXCEPT !.notif = "success"]
<1>1. /\ told \in DispatchRow /\ told.key = row.key
      /\ told.delete = row.delete /\ told.ext = row.ext /\ told.old = row.old
  BY DEF DispatchRow, Rows
<1>2. MessageSent(row) = [told EXCEPT !.notifRetry = 0]
  BY DEF MessageSent
<1> HIDE DEF told
<1>3. QED
  BY <1>1, <1>2 DEF DispatchRow, Rows

\* The row after its message failed
LEMMA MessageFailedType ==
  ASSUME NEW row \in DispatchRow
  PROVE  /\ MessageFailed(row) \in DispatchRow
         /\ MessageFailed(row).key = row.key
         /\ MessageFailed(row).delete = row.delete
         /\ MessageFailed(row).ext = row.ext
         /\ MessageFailed(row).old = row.old
<1> DEFINE untold == [row EXCEPT !.notif = "failed"]
           retried == row.notifRetry + 1
<1>1. /\ untold \in DispatchRow /\ untold.key = row.key
      /\ untold.delete = row.delete /\ untold.ext = row.ext
      /\ untold.notifRetry = row.notifRetry /\ untold.old = row.old
  BY DEF DispatchRow, Rows
<1>2. retried \in Nat
  BY DEF DispatchRow, Rows
<1>3. MessageFailed(row) = [untold EXCEPT !.notifRetry = retried]
  BY DEF MessageFailed
<1> HIDE DEF untold, retried
<1>4. QED
  BY <1>1, <1>2, <1>3 DEF DispatchRow, Rows

\* Feishu's flows: one deleted, one more
LEMMA FlowsType ==
  ASSUME flows \in Seq(Flow)
  PROVE  /\ \A d \in Nat : [flows EXCEPT ![d].live = FALSE] \in Seq(Flow)
         /\ \A flow \in Flow : /\ Append(flows, flow) \in Seq(Flow)
                              /\ RecordIDs(Append(flows, flow)) \subseteq Nat
<1>1. ASSUME NEW d \in Nat
      PROVE  [flows EXCEPT ![d].live = FALSE] \in Seq(Flow)
  <2> DEFINE gone == [flows[d] EXCEPT !.live = FALSE]
  <2>1. [flows EXCEPT ![d].live = FALSE] = [flows EXCEPT ![d] = gone]
    OBVIOUS
  <2>2. CASE d \in 1..Len(flows)
    <3>1. flows[d] \in Flow
      BY <2>2, ElementOfSeq
    <3>2. gone \in Flow
      BY <3>1 DEF Flow
    <3> HIDE DEF gone
    <3>3. [flows EXCEPT ![d] = gone] \in Seq(Flow)
      BY <2>2, <3>2
    <3>4. QED
      BY <2>1, <3>3
  <2>3. CASE d \notin 1..Len(flows)
    <3> HIDE DEF gone
    <3>1. [flows EXCEPT ![d] = gone] = flows
      BY <2>3
    <3>2. QED
      BY <2>1, <3>1
  <2>4. QED
    BY <2>2, <2>3
<1>2. ASSUME NEW flow \in Flow
      PROVE  /\ Append(flows, flow) \in Seq(Flow)
             /\ RecordIDs(Append(flows, flow)) \subseteq Nat
  BY DEF RecordIDs
<1>3. QED
  BY <1>1, <1>2

-----------------------------------------------------------------------------
(* Type correctness, service by service *)

LEMMA QueueTypes ==
  ASSUME TypeOK, NEW w \in Writers, QueueStep(w)
  PROVE  TypeOK'
<1>1. w \in Callers /\ work \in [Callers -> WorkState] /\ reports \in Seq(DispatchRow)
  BY TypeParts, WorkerIsCaller
<1>2. ASSUME NEW row \in NewRows, Queue(w, row)
      PROVE  TypeOK'
  <2>1. work' \in [Callers -> WorkState]
    BY <1>1, <1>2, NewRowsType, HoldingType DEF Queue, RowPCs
  <2>2. QED
    BY <1>2, <2>1 DEF Queue, TypeOK, WorkState, HoldingRow, RowPCs
<1>3. CASE SaveQueued(w)
  <2>1. work[w].row \in DispatchRow
    BY <1>1, <1>3, HeldRow DEF SaveQueued, RowPCs
  <2>2. reports' \in Seq(DispatchRow) /\ CopiesOK(queue)' /\ CopiesOK(notices)'
    BY <1>3, <2>1, SavedTypes DEF SaveQueued
  <2>3. work' \in [Callers -> WorkState]
    BY <1>1, <1>3 DEF SaveQueued, WorkState
  <2>4. queued' \in Seq(DispatchRow)
    BY <1>3, <2>1, TypeParts DEF SaveQueued
  <2>5. QED
    BY <1>3, <2>2, <2>3, <2>4
    DEF SaveQueued, TypeOK, CopiesOK, WorkState, HoldingRow, RowPCs
<1>4. QED
  BY <1>2, <1>3, WriterBuilds DEF QueueStep

\* Listing and taking rows break no type
LEMMA ListTypes ==
  ASSUME TypeOK,
         ListDispatchable \/ ListNotificationDispatchable \/ TakeReport \/ TakeNotification
  PROVE  TypeOK'
<1>1. /\ reports \in Seq(DispatchRow) /\ work \in [Callers -> WorkState]
      /\ Worker \in Callers /\ CopiesOK(queue) /\ CopiesOK(notices)
      /\ Idle \in WorkState /\ [pc |-> "list"] \in WorkState
  BY TypeParts, WorkerIsCaller DEF WorkState
<1>2. CASE ListDispatchable
  <2>1. CopiesOK(queue') /\ work' \in [Callers -> WorkState]
    BY <1>1, <1>2, BatchType DEF ListDispatchable
  <2>2. QED
    BY <1>2, <2>1 DEF ListDispatchable, TypeOK, CopiesOK, WorkState, HoldingRow, RowPCs
<1>3. CASE ListNotificationDispatchable
  <2>1. CopiesOK(notices') /\ work' \in [Callers -> WorkState]
    BY <1>1, <1>3, BatchType DEF ListNotificationDispatchable
  <2>2. QED
    BY <1>3, <2>1
    DEF ListNotificationDispatchable, TypeOK, CopiesOK, WorkState, HoldingRow, RowPCs
<1>4. CASE TakeReport
  <2>1. queue[First(queue)] \in DispatchRow /\ CopiesOK(queue')
    BY <1>1, <1>4, FirstOfList, RestOfList DEF TakeReport
  <2>2. work' \in [Callers -> WorkState]
    BY <1>1, <1>4, <2>1, HoldingType DEF TakeReport, RowPCs
  <2>3. QED
    BY <1>4, <2>1, <2>2 DEF TakeReport, TypeOK, CopiesOK, WorkState, HoldingRow, RowPCs
<1>5. CASE TakeNotification
  <2>1. notices[First(notices)] \in DispatchRow /\ CopiesOK(notices')
    BY <1>1, <1>5, FirstOfList, RestOfList DEF TakeNotification
  <2>2. work' \in [Callers -> WorkState]
    BY <1>1, <1>5, <2>1, HoldingType DEF TakeNotification, RowPCs
  <2>3. QED
    BY <1>5, <2>1, <2>2
    DEF TakeNotification, TypeOK, CopiesOK, WorkState, HoldingRow, RowPCs
<1>6. QED
  BY <1>2, <1>3, <1>4, <1>5

\* Dispatching a row breaks no type, whatever Feishu answers
LEMMA DispatchTypes ==
  ASSUME TypeOK, NEW c \in Callers, DispatchStep(c)
  PROVE  TypeOK'
<1> DEFINE row == work[c].row
<1>1. work[c].pc \in RowPCs
  BY DEF DispatchStep, Reject, DeleteFlow, SaveProgress, ClearWithoutCreate,
         CreateFlow, ReadyToCreate, Notify, Save, RowPCs
<1>2. row \in DispatchRow /\ row.key \in DispatchKeys /\ row.delete \in Nat
      /\ row.old \in Nat
  BY <1>1, HeldRow DEF DispatchRow, Rows
<1>3. /\ work \in [Callers -> WorkState] /\ flows \in Seq(Flow)
      /\ messages \subseteq DispatchKeys
  BY TypeParts
<1>4. ASSUME NEW pc \in RowPCs, NEW new \in DispatchRow,
             work' = [work EXCEPT ![c] = [pc |-> pc, row |-> new]]
      PROVE  work' \in [Callers -> WorkState]
  BY <1>3, <1>4, HoldingType
<1>5. ASSUME work' \in [Callers -> WorkState], flows' \in Seq(Flow),
             messages' \subseteq DispatchKeys, UNCHANGED <<crashes, queued>>,
             UNCHANGED <<reports, queue, notices>>
      PROVE  TypeOK'
  BY <1>5 DEF TypeOK, WorkState, HoldingRow, RowPCs, Flow
<1>6. ASSUME work' \in [Callers -> WorkState], reports' = SaveReport(reports, row),
             UNCHANGED <<flows, messages, queue, notices, crashes, queued>>
      PROVE  TypeOK'
  BY <1>2, <1>6, SavedTypes DEF TypeOK, CopiesOK, WorkState, HoldingRow, RowPCs
<1>7. CASE Reject(c)
  BY <1>2, <1>3, <1>4, <1>5, <1>7, FailedType DEF Reject, RowPCs
<1>8. CASE DeleteFlow(c)
  <2> DEFINE kept == [row EXCEPT !.delete = NoFlow]
  <2>1. flows' \in Seq(Flow)
    BY <1>2, <1>3, <1>8, FlowsType DEF DeleteFlow
  <2>2. /\ Failed(row) \in DispatchRow /\ kept \in DispatchRow
        /\ Cleared(kept) \in DispatchRow
    BY <1>2, FailedType, KeptType, ClearedType
  <2>3. \E pc \in RowPCs, new \in DispatchRow :
          work' = [work EXCEPT ![c] = [pc |-> pc, row |-> new]]
    BY <1>8, <2>2 DEF DeleteFlow, RowPCs
  <2>4. QED
    BY <1>3, <1>4, <1>5, <1>8, <2>1, <2>3 DEF DeleteFlow
<1>9. CASE SaveProgress(c)
  <2>1. work[c] = [pc |-> work[c].pc, row |-> row]
    BY <1>1, HeldRow
  <2>2. work' = [work EXCEPT ![c] = [pc |-> "create", row |-> row]]
    <3>1. work' = [work EXCEPT ![c] = [work[c] EXCEPT !.pc = "create"]]
      BY <1>9 DEF SaveProgress
    <3>2. [work[c] EXCEPT !.pc = "create"] = [pc |-> "create", row |-> row]
      BY <2>1
    <3>3. QED
      BY <3>1, <3>2
  <2>3. QED
    BY <1>2, <1>4, <1>6, <1>9, <2>2 DEF SaveProgress, RowPCs
<1>10. CASE ClearWithoutCreate(c)
  BY <1>2, <1>3, <1>4, <1>5, <1>10, ClearedType DEF ClearWithoutCreate, RowPCs
<1>11. CASE CreateFlow(c)
  <2> DEFINE flow == [key |-> row.key, old |-> row.old, live |-> TRUE]
             made == Append(flows, flow)
  <2>1. made \in Seq(Flow) /\ RecordIDs(made) \subseteq Nat
    <3>1. flow \in Flow
      BY <1>2 DEF Flow
    <3> HIDE DEF flow
    <3>2. QED
      BY <1>3, <3>1, FlowsType
  <2>2. flows' \in Seq(Flow)
    BY <1>3, <1>11, <2>1 DEF CreateFlow
  <2>3. \E pc \in RowPCs, new \in DispatchRow :
          work' = [work EXCEPT ![c] = [pc |-> pc, row |-> new]]
    <3>1. Failed(row) \in DispatchRow /\ \A id \in RecordIDs(made) : Created(row, id) \in DispatchRow
      BY <1>2, <2>1, FailedType, CreatedType
    <3>2. QED
      BY <1>11, <3>1 DEF CreateFlow, RowPCs
  <2>4. QED
    BY <1>3, <1>4, <1>5, <1>11, <2>2, <2>3 DEF CreateFlow
<1>12. CASE Notify(c)
  <2>1. \E pc \in RowPCs, new \in DispatchRow :
          work' = [work EXCEPT ![c] = [pc |-> pc, row |-> new]]
    <3>1. MessageSent(row) \in DispatchRow /\ MessageFailed(row) \in DispatchRow
      BY <1>2, MessageSentType, MessageFailedType
    <3>2. QED
      BY <1>12, <3>1 DEF Notify, RowPCs
  <2>2. messages' \subseteq DispatchKeys
    BY <1>2, <1>3, <1>12 DEF Notify
  <2>3. QED
    BY <1>3, <1>4, <1>5, <1>12, <2>1, <2>2 DEF Notify
<1>13. CASE Save(c)
  <2>1. work' \in [Callers -> WorkState]
    BY <1>3, <1>13 DEF Save, WorkState
  <2>2. QED
    BY <1>6, <1>13, <2>1 DEF Save
<1>14. QED
  BY <1>7, <1>8, <1>9, <1>10, <1>11, <1>12, <1>13 DEF DispatchStep

\* A debug request breaks no type
LEMMA DebugTypes ==
  ASSUME TypeOK, NEW request \in Requests, DebugStep(request)
  PROVE  TypeOK'
<1>1. request \in Callers /\ work \in [Callers -> WorkState] /\ reports \in Seq(DispatchRow)
  BY TypeParts, WorkerIsCaller
<1>2. ASSUME NEW clock \in Clocks, DebugBegin(request, clock)
      PROVE  TypeOK'
  <2>1. PICK row \in NewRows :
          work' = [work EXCEPT ![request] = [pc |-> "insert", row |-> row]]
    BY <1>2, PageBuilds
  <2>2. work' \in [Callers -> WorkState]
    BY <1>1, <2>1, NewRowsType, HoldingType DEF RowPCs
  <2>3. QED
    BY <1>2, <2>2 DEF DebugBegin, TypeOK, WorkState, HoldingRow, RowPCs
<1>3. CASE DebugInsert(request)
  <2>1. work[request].pc \in RowPCs
    BY <1>3 DEF DebugInsert, RowPCs
  <2>2. /\ work[request].row \in DispatchRow
        /\ work[request] = [pc |-> work[request].pc, row |-> work[request].row]
    BY <1>1, <2>1, HeldRow
  <2>3. work' = [work EXCEPT ![request] = [pc |-> "begin", row |-> work[request].row]]
    <3>1. work' = [work EXCEPT ![request] = [work[request] EXCEPT !.pc = "begin"]]
      BY <1>3 DEF DebugInsert
    <3>2. [work[request] EXCEPT !.pc = "begin"]
            = [pc |-> "begin", row |-> work[request].row]
      BY <2>2
    <3>3. QED
      BY <3>1, <3>2
  <2>4. work' \in [Callers -> WorkState]
    BY <1>1, <2>2, <2>3, HoldingType DEF RowPCs
  <2>5. reports' \in Seq(DispatchRow) /\ CopiesOK(queue)' /\ CopiesOK(notices)'
    BY <1>3, <2>2, SavedTypes DEF DebugInsert
  <2>6. QED
    BY <1>3, <2>4, <2>5 DEF DebugInsert, TypeOK, CopiesOK, WorkState, HoldingRow, RowPCs
<1>4. CASE DebugAbandon(request)
  <2>1. work' \in [Callers -> WorkState]
    BY <1>1, <1>4 DEF DebugAbandon, WorkState
  <2>2. QED
    BY <1>4, <2>1 DEF DebugAbandon, TypeOK, WorkState, HoldingRow, RowPCs
<1>5. QED
  BY <1>1, <1>2, <1>3, <1>4, DispatchTypes DEF DebugStep

\* A restart forgets the callers' states and breaks no type
LEMMA CrashTypes ==
  ASSUME TypeOK, Crash
  PROVE  TypeOK'
<1>1. work' \in [Callers -> WorkState] /\ crashes' \in 0..MaxCrashes
  BY DispatcherAssumption DEF Crash, WorkState, TypeOK
<1>2. CopiesOK(NoRows)'
  BY NoRowsType DEF Crash, CopiesOK, NoRows
<1>3. QED
  BY <1>1, <1>2 DEF Crash, TypeOK, CopiesOK, WorkState, HoldingRow, RowPCs

\* No step of the dispatcher breaks a type
LEMMA TypeStep ==
  ASSUME TypeOK, [Next]_vars
  PROVE  TypeOK'
<1>1. CASE \E w \in Writers : QueueStep(w)
  BY <1>1, QueueTypes
<1>2. CASE WorkerStep
  BY <1>2, ListTypes, DispatchTypes, WorkerIsCaller DEF WorkerStep
<1>3. CASE \E request \in Requests : DebugStep(request)
  BY <1>3, DebugTypes
<1>4. CASE Crash
  BY <1>4, CrashTypes
<1>5. CASE UNCHANGED vars
  BY <1>5 DEF vars, TypeOK
<1>6. QED
  BY <1>1, <1>2, <1>3, <1>4, <1>5 DEF Next

\* The empty tables and idle callers are of their types
LEMMA TypeInit == Init => TypeOK
<1>1. ASSUME Init PROVE TypeOK
  <2>1. CopiesOK(NoRows)
    BY NoRowsType
  <2>2. work \in [Callers -> WorkState] /\ crashes \in 0..MaxCrashes
    BY <1>1, DispatcherAssumption DEF Init, WorkState
  <2>3. QED
    BY <1>1, <2>1, <2>2, TypeParts DEF Init, CopiesOK
<1>2. QED
  BY <1>1

(***************************************************************************)
(* Every variable of the dispatcher keeps its type, whoever works on which *)
(* copy of a row and however Feishu answers.                               *)
(***************************************************************************)
THEOREM DispatcherTypeCorrect == Spec => []TypeOK
<1>1. Init => TypeOK
  BY TypeInit
<1>2. TypeOK /\ [Next]_vars => TypeOK'
  BY TypeStep
<1>3. QED
  BY <1>1, <1>2, PTL DEF Spec

-----------------------------------------------------------------------------
(* A row is at many places at once: in the table, in the loop's lists, in  *)
(* the hands of the services that built it, of the loop and of the requests*)

Copies ==
  {reports[i] : i \in 1..Len(reports)}
    \cup {queue[i] : i \in DOMAIN queue} \cup {notices[i] : i \in DOMAIN notices}
    \cup {work[c].row : c \in {d \in Callers : work[d].pc \in RowPCs}}

\* Where the copies are
LEMMA CopiesHave ==
  /\ \A i \in 1..Len(reports) : reports[i] \in Copies
  /\ \A i \in DOMAIN queue : queue[i] \in Copies
  /\ \A i \in DOMAIN notices : notices[i] \in Copies
  /\ \A c \in Callers : work[c].pc \in RowPCs => work[c].row \in Copies
  BY DEF Copies

\* A step adds to the copies what it adds to one of the places
LEMMA CopiesBound ==
  ASSUME NEW News,
         \A i \in 1..Len(reports') : reports'[i] \in Copies \cup News,
         \A i \in DOMAIN queue' : queue'[i] \in Copies \cup News,
         \A i \in DOMAIN notices' : notices'[i] \in Copies \cup News,
         \A c \in Callers :
           work'[c].pc \in RowPCs => work'[c].row \in Copies \cup News
  PROVE  Copies' \subseteq Copies \cup News
  BY DEF Copies

\* Every copy is a row
LEMMA CopiesType ==
  ASSUME TypeOK
  PROVE  Copies \subseteq DispatchRow
<1>1. ASSUME NEW c \in Callers, work[c].pc \in RowPCs
      PROVE  work[c].row \in DispatchRow
  BY <1>1, HeldRow
<1>2. /\ \A i \in 1..Len(reports) : reports[i] \in DispatchRow
      /\ \A i \in DOMAIN queue : queue[i] \in DispatchRow
      /\ \A i \in DOMAIN notices : notices[i] \in DispatchRow
  BY TypeParts, ElementOfSeq DEF CopiesOK
<1>3. QED
  BY <1>1, <1>2 DEF Copies

\* A Save puts one of the copies in the table
LEMMA SavedCopies ==
  ASSUME TypeOK, NEW row \in Copies, reports' = SaveReport(reports, row)
  PROVE  \A i \in 1..Len(reports') : reports'[i] \in Copies
<1>1. reports \in Seq(DispatchRow) /\ row \in DispatchRow
  BY TypeParts, CopiesType
<1>2. ASSUME NEW i \in 1..Len(reports')
      PROVE  reports'[i] = row \/ (i \in 1..Len(reports) /\ reports'[i] = reports[i])
  BY <1>1, <1>2, SaveReportRows
<1>3. QED
  BY <1>2, CopiesHave

-----------------------------------------------------------------------------
(* What a dispatch's step does to its copy *)

\* The steps of a dispatch that save nothing change the caller's copy only
LEMMA OneCopyChanges ==
  ASSUME TypeOK, NEW c \in Callers, NEW state,
         work' = [work EXCEPT ![c] = state],
         UNCHANGED <<reports, queue, notices>>
  PROVE  /\ work'[c] = state
         /\ \A d \in Callers : d # c => work'[d] = work[d]
         /\ Copies' \subseteq Copies \cup {state.row}
         /\ state.pc \notin RowPCs => Copies' \subseteq Copies
<1>1. work \in [Callers -> WorkState]
  BY TypeParts
<1>2. work'[c] = state /\ \A d \in Callers : d # c => work'[d] = work[d]
  BY <1>1
<1>3. Copies' \subseteq Copies \cup {state.row}
  <2>1. \A d \in Callers :
          work'[d].pc \in RowPCs => work'[d].row \in Copies \cup {state.row}
    BY <1>2, CopiesHave
  <2>2. /\ \A i \in 1..Len(reports') : reports'[i] \in Copies \cup {state.row}
        /\ \A i \in DOMAIN queue' : queue'[i] \in Copies \cup {state.row}
        /\ \A i \in DOMAIN notices' : notices'[i] \in Copies \cup {state.row}
    BY CopiesHave
  <2>3. QED
    BY <2>1, <2>2, CopiesBound
<1>4. ASSUME state.pc \notin RowPCs
      PROVE  Copies' \subseteq Copies \cup {}
  BY <1>2, <1>4, CopiesHave, CopiesBound
<1>5. QED
  BY <1>2, <1>3, <1>4

\* What each of them leaves in the caller's hands
LEMMA DispatchOutcome ==
  ASSUME TypeOK, NEW c \in Callers,
         \/ Reject(c) \/ DeleteFlow(c) \/ ClearWithoutCreate(c)
         \/ CreateFlow(c) \/ Notify(c)
  PROVE  /\ work' = [work EXCEPT ![c] = work'[c]]
         /\ work'[c].pc \in RowPCs
         /\ work[c].pc \in RowPCs
         /\ UNCHANGED <<reports, queue, notices, crashes, queued>>
<1>1. work \in [Callers -> WorkState]
  BY TypeParts
<1>2. CASE Reject(c)
  BY <1>1, <1>2 DEF Reject, RowPCs
<1>3. CASE DeleteFlow(c)
  BY <1>1, <1>3 DEF DeleteFlow, RowPCs
<1>4. CASE ClearWithoutCreate(c)
  BY <1>1, <1>4 DEF ClearWithoutCreate, RowPCs
<1>5. CASE CreateFlow(c)
  BY <1>1, <1>5 DEF CreateFlow, ReadyToCreate, RowPCs
<1>6. CASE Notify(c)
  BY <1>1, <1>6 DEF Notify, RowPCs
<1>7. QED
  BY <1>2, <1>3, <1>4, <1>5, <1>6

\* The steps that save, list, take, drop or forget make no new copy
LEMMA NoNewCopies ==
  ASSUME TypeOK,
         \/ ListDispatchable \/ ListNotificationDispatchable
         \/ \E w \in Writers : SaveQueued(w)
         \/ TakeReport \/ TakeNotification \/ Crash
         \/ \E request \in Requests : DebugInsert(request) \/ DebugAbandon(request)
         \/ \E c \in Callers : SaveProgress(c) \/ Save(c)
  PROVE  Copies' \subseteq Copies
<1> SUFFICES Copies' \subseteq Copies \cup {}
  OBVIOUS
<1>1. /\ reports \in Seq(DispatchRow)
      /\ work \in [Callers -> WorkState]
      /\ CopiesOK(queue) /\ CopiesOK(notices) /\ Worker \in Callers
  BY TypeParts, WorkerIsCaller
<1>2. ASSUME NEW w \in Writers, SaveQueued(w)
      PROVE  Copies' \subseteq Copies \cup {}
  <2>1. w \in Callers /\ work[w].pc \in RowPCs
    BY <1>2, WorkerIsCaller DEF SaveQueued, RowPCs
  <2>2. \A i \in 1..Len(reports') : reports'[i] \in Copies
    BY <1>2, <2>1, CopiesHave, SavedCopies DEF SaveQueued
  <2>3. \A d \in Callers : work'[d].pc \in RowPCs => work'[d].row \in Copies
    BY <1>1, <1>2, CopiesHave DEF SaveQueued, Idle, RowPCs
  <2>4. QED
    BY <1>2, <2>2, <2>3, CopiesHave, CopiesBound DEF SaveQueued
<1>3. CASE ListDispatchable
  <2>1. \A i \in DOMAIN queue' : queue'[i] \in Copies
    BY <1>1, <1>3, BatchType, CopiesHave DEF ListDispatchable
  <2>2. \A c \in Callers : work'[c].pc \in RowPCs => work'[c].row \in Copies
    BY <1>1, <1>3, CopiesHave DEF ListDispatchable, RowPCs
  <2>3. QED
    BY <1>3, <2>1, <2>2, CopiesHave, CopiesBound DEF ListDispatchable
<1>4. CASE ListNotificationDispatchable
  <2>1. \A i \in DOMAIN notices' : notices'[i] \in Copies
    BY <1>1, <1>4, BatchType, CopiesHave DEF ListNotificationDispatchable
  <2>2. \A c \in Callers : work'[c].pc \in RowPCs => work'[c].row \in Copies
    BY <1>1, <1>4, CopiesHave DEF ListNotificationDispatchable, RowPCs, Idle
  <2>3. QED
    BY <1>4, <2>1, <2>2, CopiesHave, CopiesBound DEF ListNotificationDispatchable
<1>5. CASE TakeReport
  <2>1. queue[First(queue)] \in Copies
    BY <1>1, <1>5, FirstOfList, CopiesHave DEF TakeReport
  <2>2. \A i \in DOMAIN queue' : queue'[i] \in Copies
    BY <1>1, <1>5, RestOfList, CopiesHave DEF TakeReport
  <2>3. \A c \in Callers : work'[c].pc \in RowPCs => work'[c].row \in Copies
    BY <1>1, <1>5, <2>1, CopiesHave DEF TakeReport
  <2>4. QED
    BY <1>5, <2>2, <2>3, CopiesHave, CopiesBound DEF TakeReport
<1>6. CASE TakeNotification
  <2>1. notices[First(notices)] \in Copies
    BY <1>1, <1>6, FirstOfList, CopiesHave DEF TakeNotification
  <2>2. \A i \in DOMAIN notices' : notices'[i] \in Copies
    BY <1>1, <1>6, RestOfList, CopiesHave DEF TakeNotification
  <2>3. \A c \in Callers : work'[c].pc \in RowPCs => work'[c].row \in Copies
    BY <1>1, <1>6, <2>1, CopiesHave DEF TakeNotification
  <2>4. QED
    BY <1>6, <2>2, <2>3, CopiesHave, CopiesBound DEF TakeNotification
<1>7. CASE Crash
  <2>1. \A c \in Callers : work'[c].pc \notin RowPCs
    BY <1>7 DEF Crash, Idle, RowPCs
  <2>2. DOMAIN queue' = {} /\ DOMAIN notices' = {} /\ reports' = reports
    BY <1>7 DEF Crash, NoRows
  <2>3. QED
    BY <2>1, <2>2, CopiesHave, CopiesBound
<1>8. ASSUME NEW request \in Requests, DebugInsert(request)
      PROVE  Copies' \subseteq Copies \cup {}
  <2>1. request \in Callers /\ work[request].pc \in RowPCs
    BY <1>8, WorkerIsCaller DEF DebugInsert, RowPCs
  <2>2. /\ \A i \in 1..Len(reports') : reports'[i] \in Copies
        /\ work[request] = [pc |-> work[request].pc, row |-> work[request].row]
    BY <1>8, <2>1, HeldRow, CopiesHave, SavedCopies DEF DebugInsert
  <2>3. \A c \in Callers : work'[c].pc \in RowPCs => work'[c].row \in Copies
    <3>1. work' = [work EXCEPT ![request] = [work[request] EXCEPT !.pc = "begin"]]
      BY <1>8 DEF DebugInsert
    <3>2. [work[request] EXCEPT !.pc = "begin"].row = work[request].row
      BY <2>2
    <3>3. QED
      BY <1>1, <2>1, <3>1, <3>2, CopiesHave
  <2>4. QED
    BY <1>8, <2>2, <2>3, CopiesHave, CopiesBound DEF DebugInsert
<1>9. ASSUME NEW request \in Requests, DebugAbandon(request)
      PROVE  Copies' \subseteq Copies \cup {}
  <2>1. request \in Callers /\ Idle.pc \notin RowPCs
    BY WorkerIsCaller DEF Idle, RowPCs
  <2>2. QED
    BY <1>9, <2>1, OneCopyChanges DEF DebugAbandon
<1>10. ASSUME NEW c \in Callers, SaveProgress(c)
       PROVE  Copies' \subseteq Copies \cup {}
  <2>1. work[c].pc \in RowPCs
    BY <1>10 DEF SaveProgress, RowPCs
  <2>2. /\ \A i \in 1..Len(reports') : reports'[i] \in Copies
        /\ work[c] = [pc |-> work[c].pc, row |-> work[c].row]
    BY <1>10, <2>1, HeldRow, CopiesHave, SavedCopies DEF SaveProgress
  <2>3. \A d \in Callers : work'[d].pc \in RowPCs => work'[d].row \in Copies
    <3>1. work' = [work EXCEPT ![c] = [work[c] EXCEPT !.pc = "create"]]
      BY <1>10 DEF SaveProgress
    <3>2. [work[c] EXCEPT !.pc = "create"].row = work[c].row
      BY <2>2
    <3>3. QED
      BY <1>1, <2>1, <3>1, <3>2, CopiesHave
  <2>4. QED
    BY <1>10, <2>2, <2>3, CopiesHave, CopiesBound DEF SaveProgress
<1>11. ASSUME NEW c \in Callers, Save(c)
       PROVE  Copies' \subseteq Copies \cup {}
  <2>1. work[c].pc \in RowPCs
    BY <1>11 DEF Save, RowPCs
  <2>2. \A i \in 1..Len(reports') : reports'[i] \in Copies
    BY <1>11, <2>1, CopiesHave, SavedCopies DEF Save
  <2>3. \A d \in Callers : work'[d].pc \in RowPCs => work'[d].row \in Copies
    BY <1>1, <1>11, CopiesHave DEF Save, Idle, RowPCs
  <2>4. QED
    BY <1>11, <2>2, <2>3, CopiesHave, CopiesBound DEF Save
<1>12. QED
  BY <1>2, <1>3, <1>4, <1>5, <1>6, <1>7, <1>8, <1>9, <1>10, <1>11

\* The steps that build a row
Builds ==
  \/ \E w \in Writers, clock \in Clocks :
       \/ QueueClockIn(w, clock) \/ QueueClockOut(w, clock)
       \/ QueueCorrection(w, clock)
  \/ \E request \in Requests, clock \in Clocks : DebugBegin(request, clock)

\* They put a new row in the hands of one caller, and change nothing else
LEMMA BuiltCopies ==
  ASSUME TypeOK, Builds
  PROVE  \E c \in Callers, row \in NewRows :
           /\ Copies' \subseteq Copies \cup {row}
           /\ \A d \in Callers : d # c => work'[d] = work[d]
           /\ work'[c].pc \in {"queue", "insert"} /\ work'[c].row = row
           /\ c \in Writers \cup Requests
           /\ UNCHANGED <<reports, flows, messages, queue, notices, crashes, queued>>
<1>1. PICK c \in Writers \cup Requests, row \in NewRows, pc \in {"queue", "insert"} :
        /\ work' = [work EXCEPT ![c] = [pc |-> pc, row |-> row]]
        /\ UNCHANGED <<reports, flows, messages, queue, notices, crashes, queued>>
  <2>1. ASSUME NEW w \in Writers, NEW row \in NewRows, Queue(w, row)
        PROVE  /\ work' = [work EXCEPT ![w] = [pc |-> "queue", row |-> row]]
               /\ UNCHANGED <<reports, flows, messages, queue, notices, crashes, queued>>
    BY <2>1 DEF Queue
  <2>2. ASSUME NEW request \in Requests, NEW clock \in Clocks, DebugBegin(request, clock)
        PROVE  UNCHANGED <<reports, flows, messages, queue, notices, crashes, queued>>
    BY <2>2 DEF DebugBegin
  <2>3. QED
    BY <2>1, <2>2, WriterBuilds, PageBuilds DEF Builds
<1>2. c \in Callers
  BY WorkerIsCaller
<1> DEFINE state == [pc |-> pc, row |-> row]
<1>3. state.pc = pc /\ state.row = row
  OBVIOUS
<1> HIDE DEF state
<1>4. /\ work'[c] = state
      /\ \A d \in Callers : d # c => work'[d] = work[d]
      /\ Copies' \subseteq Copies \cup {row}
  BY <1>1, <1>2, <1>3, OneCopyChanges DEF state
<1>5. QED
  BY <1>1, <1>2, <1>3, <1>4

-----------------------------------------------------------------------------
(* Flows are never forgotten: a deleted flow stays known, and stays deleted *)

HasFlow(key, made) == \E f \in 1..Len(made) : made[f].key = key

FlowsGrow ==
  /\ Len(flows) \in Nat /\ Len(flows') \in Nat /\ Len(flows) <= Len(flows')
  /\ \A f \in 1..Len(flows) :
       /\ flows'[f].key = flows[f].key
       /\ flows'[f].old = flows[f].old
       /\ flows'[f].live => flows[f].live

\* A key has a flow when Feishu was given one for it
LEMMA FlowsOfKey ==
  \A key : HasFlow(key, flows) <=> FlowsOf(key) # {}
  BY DEF HasFlow, FlowsOf

\* Feishu forgets no flow it was given, deleted or not
LEMMA HasFlowStays ==
  ASSUME FlowsGrow, NEW key, HasFlow(key, flows)
  PROVE  HasFlow(key, flows')
  BY DEF FlowsGrow, HasFlow

\* DeleteFlow: what is left of the flows when the call took effect
LEMMA GoneFlows ==
  ASSUME flows \in Seq(Flow), NEW d \in Nat,
         flows' = [flows EXCEPT ![d].live = FALSE]
  PROVE  /\ FlowsGrow
         /\ d \in 1..Len(flows) => ~ flows'[d].live
<1> DEFINE gone == [flows[d] EXCEPT !.live = FALSE]
<1>1. flows' = [flows EXCEPT ![d] = gone]
  OBVIOUS
<1>2. d \in 1..Len(flows) => gone.key = flows[d].key /\ gone.old = flows[d].old /\ ~ gone.live
  <2>1. d \in 1..Len(flows) => flows[d] \in Flow
    BY ElementOfSeq
  <2>2. QED
    BY <2>1 DEF Flow
<1> HIDE DEF gone
<1>3. Len(flows') = Len(flows) /\ Len(flows) \in Nat
  BY <1>1
<1>4. ASSUME NEW f \in 1..Len(flows)
      PROVE  flows'[f] = IF f = d THEN gone ELSE flows[f]
  <2>1. f \in DOMAIN flows
    OBVIOUS
  <2>2. QED
    BY <1>1, <2>1, Zenon
<1>5. QED
  BY <1>2, <1>3, <1>4 DEF FlowsGrow

\* A creation adds one flow, with the row's key
LEMMA MadeFlows ==
  ASSUME flows \in Seq(Flow), NEW flow \in Flow, flows' = Append(flows, flow)
  PROVE  /\ FlowsGrow
         /\ Len(flows') = Len(flows) + 1
         /\ flows'[Len(flows) + 1] = flow
         /\ HasFlow(flow.key, flows')
<1>1. /\ Len(flows) \in Nat /\ Len(flows') = Len(flows) + 1
      /\ \A f \in 1..Len(flows) : flows'[f] = flows[f]
      /\ flows'[Len(flows) + 1] = flow
  OBVIOUS
<1>2. QED
  BY <1>1 DEF FlowsGrow, HasFlow

\* Feishu is as it was when nobody calls it
LEMMA SameFlows ==
  ASSUME flows \in Seq(Flow), flows' = flows
  PROVE  FlowsGrow
<1>1. Len(flows) \in Nat
  OBVIOUS
<1>2. QED
  BY <1>1 DEF FlowsGrow

\* A dispatch adds flows and marks them deleted, no more
LEMMA DispatchFlowsGrow ==
  ASSUME TypeOK, NEW c \in Callers, DispatchStep(c)
  PROVE  FlowsGrow
<1>1. flows \in Seq(Flow)
  BY TypeParts
<1>2. CASE DeleteFlow(c)
  <2>1. work[c].row.delete \in Nat
    BY <1>2, HeldRow DEF DeleteFlow, RowPCs, DispatchRow, Rows
  <2>2. flows' = flows \/ flows' = [flows EXCEPT ![work[c].row.delete].live = FALSE]
    BY <1>2 DEF DeleteFlow
  <2>3. QED
    BY <1>1, <2>1, <2>2, GoneFlows, SameFlows
<1>3. CASE CreateFlow(c)
  <2> DEFINE flow == [key |-> work[c].row.key, old |-> work[c].row.old, live |-> TRUE]
  <2>1. flow \in Flow
    BY <1>3, HeldRow DEF CreateFlow, ReadyToCreate, RowPCs, DispatchRow, Rows, Flow
  <2>2. flows' = flows \/ flows' = Append(flows, flow)
    BY <1>3 DEF CreateFlow
  <2> HIDE DEF flow
  <2>3. QED
    BY <1>1, <2>1, <2>2, MadeFlows, SameFlows
<1>4. CASE UNCHANGED flows
  BY <1>1, <1>4, SameFlows
<1>5. QED
  BY <1>2, <1>3, <1>4
  DEF DispatchStep, Reject, SaveProgress, ClearWithoutCreate, Notify, Save

\* No step of the dispatcher removes a flow
LEMMA FlowsStay ==
  ASSUME TypeOK, [Next]_vars
  PROVE  FlowsGrow
<1>1. flows \in Seq(Flow) /\ Worker \in Callers /\ Requests \subseteq Callers
  BY TypeParts, WorkerIsCaller
<1>2. CASE UNCHANGED flows
  BY <1>1, <1>2, SameFlows
<1>3. CASE \E c \in Callers : DispatchStep(c)
  BY <1>3, DispatchFlowsGrow
<1>4. QED
  BY <1>1, <1>2, <1>3
  DEF Next, QueueStep, QueueClockIn, QueueClockOut, QueueCorrection, Queue, SaveQueued,
      WorkerStep,
      ListDispatchable, ListNotificationDispatchable, TakeReport, TakeNotification,
      DebugStep, DebugBegin, DebugInsert, DebugAbandon, Crash, vars

-----------------------------------------------------------------------------
(* Nobody is told of a flow that never was *)

\* A copy that says "delivered" stands for a flow; a clear, marked skipped, for none
Owed(row, made) ==
  row.status = "success" /\ row.notif # "skipped" => HasFlow(row.key, made)

TellInv ==
  /\ \A row \in Copies : Owed(row, flows)
  /\ \A i \in DOMAIN notices : HasFlow(notices[i].key, flows)
  /\ \A c \in Callers : work[c].pc = "notify" => HasFlow(work[c].row.key, flows)
  /\ \A key \in messages : HasFlow(key, flows)

\* A delivered copy keeps its flow
LEMMA OwedStays ==
  ASSUME FlowsGrow, NEW row, Owed(row, flows)
  PROVE  Owed(row, flows')
  BY HasFlowStays DEF Owed

\* What a step must show for itself
LEMMA TellFrom ==
  ASSUME TellInv, FlowsGrow, NEW News,
         Copies' \subseteq Copies \cup News,
         \A row \in News : Owed(row, flows'),
         \A i \in DOMAIN notices' : HasFlow(notices'[i].key, flows'),
         \A c \in Callers : work'[c].pc = "notify" => HasFlow(work'[c].row.key, flows'),
         \A key \in messages' : HasFlow(key, flows')
  PROVE  TellInv'
<1>1. \A row \in Copies : Owed(row, flows')
  BY OwedStays DEF TellInv
<1>2. QED
  BY <1>1 DEF TellInv

\* Steps that copy and forget rows tell nobody anything
LEMMA TellQuiet ==
  ASSUME TellInv, FlowsGrow, Copies' \subseteq Copies,
         \A i \in DOMAIN notices' : HasFlow(notices'[i].key, flows'),
         \A c \in Callers : work'[c].pc = "notify" => HasFlow(work'[c].row.key, flows'),
         \A key \in messages' : HasFlow(key, flows')
  PROVE  TellInv'
<1>1. \A row \in Copies : Owed(row, flows')
  BY OwedStays DEF TellInv
<1>2. QED
  BY <1>1 DEF TellInv

\* A dispatch marks a row delivered when it has its flow
LEMMA TellDispatch ==
  ASSUME TypeOK, TellInv, NEW c \in Callers, DispatchStep(c)
  PROVE  TellInv'
<1> DEFINE row == work[c].row
<1>1. /\ work \in [Callers -> WorkState] /\ flows \in Seq(Flow)
      /\ FlowsGrow
  BY TypeParts, DispatchFlowsGrow
<1>2. work[c].pc \in RowPCs /\ UNCHANGED <<queue, notices>>
  BY DEF DispatchStep, Reject, DeleteFlow, SaveProgress, ClearWithoutCreate,
         CreateFlow, ReadyToCreate, Notify, Save, RowPCs
<1>3. row \in DispatchRow /\ row \in Copies /\ Owed(row, flows)
  BY <1>2, HeldRow, CopiesHave DEF TellInv
<1>4. \A i \in DOMAIN notices' : HasFlow(notices'[i].key, flows')
  BY <1>1, <1>2, HasFlowStays DEF TellInv
<1>5. \A d \in Callers : work[d].pc = "notify" => HasFlow(work[d].row.key, flows')
  BY <1>1, HasFlowStays DEF TellInv
<1>6. \A key \in messages : HasFlow(key, flows')
  BY <1>1, HasFlowStays DEF TellInv
<1>7. \A new : Owed(new, flows) => Owed(new, flows')
  BY <1>1, OwedStays
\* a step that changes the caller's copy only
<1>8. ASSUME \/ Reject(c) \/ DeleteFlow(c) \/ ClearWithoutCreate(c)
             \/ CreateFlow(c) \/ Notify(c),
             Owed(work'[c].row, flows'),
             work'[c].pc = "notify" => HasFlow(work'[c].row.key, flows'),
             \A key \in messages' : HasFlow(key, flows')
      PROVE  TellInv'
  <2>1. work' = [work EXCEPT ![c] = work'[c]] /\ UNCHANGED <<reports, queue, notices>>
    BY <1>8, DispatchOutcome
  <2>2. /\ \A d \in Callers : d # c => work'[d] = work[d]
        /\ Copies' \subseteq Copies \cup {work'[c].row}
    BY <2>1, OneCopyChanges
  <2>3. \A d \in Callers : work'[d].pc = "notify" => HasFlow(work'[d].row.key, flows')
    BY <1>5, <1>8, <2>2
  <2> DEFINE News == {work'[c].row}
  <2>4. Copies' \subseteq Copies \cup News /\ \A new \in News : Owed(new, flows')
    BY <1>8, <2>2
  <2>5. \A key \in messages' : HasFlow(key, flows')
    BY <1>8
  <2> HIDE DEF News
  <2>6. QED
    BY <1>1, <1>4, <2>3, <2>4, <2>5, TellFrom
<1>9. CASE Reject(c)
  <2>1. work'[c].row = Failed(row) /\ work'[c].pc = "save" /\ messages' = messages
    BY <1>1, <1>9 DEF Reject
  <2>2. Owed(Failed(row), flows')
    BY <1>3, FailedType DEF Owed
  <2>3. QED
    BY <1>6, <1>8, <1>9, <2>1, <2>2
<1>10. CASE DeleteFlow(c)
  <2> DEFINE kept == [row EXCEPT !.delete = NoFlow]
  <2>1. /\ work'[c].row \in {Failed(row), Cleared(kept), kept}
        /\ work'[c].pc \in {"save", "progress"}
        /\ messages' = messages
    BY <1>1, <1>10 DEF DeleteFlow
  <2>2. Owed(Failed(row), flows')
    BY <1>3, FailedType DEF Owed
  <2>3. Owed(Cleared(kept), flows')
    BY <1>3, KeptType, ClearedType DEF Owed
  <2>4. Owed(kept, flows')
    <3>1. kept.key = row.key /\ kept.status = row.status /\ kept.notif = row.notif
      BY <1>3 DEF DispatchRow, Rows
    <3> HIDE DEF kept, row
    <3>2. QED
      BY <1>3, <1>7, <3>1 DEF Owed
  <2>5. QED
    BY <1>6, <1>8, <1>10, <2>1, <2>2, <2>3, <2>4
<1>11. CASE SaveProgress(c)
  <2>1. Copies' \subseteq Copies
    BY <1>11, NoNewCopies
  <2>2. \A d \in Callers : work'[d].pc = "notify" => work'[d] = work[d]
    BY <1>1, <1>11 DEF SaveProgress
  <2>3. /\ \A d \in Callers : work'[d].pc = "notify" => HasFlow(work'[d].row.key, flows')
        /\ \A key \in messages' : HasFlow(key, flows')
    BY <1>5, <1>6, <1>11, <2>2 DEF SaveProgress
  <2>4. QED
    BY <1>1, <1>4, <2>1, <2>3, TellQuiet
<1>12. CASE ClearWithoutCreate(c)
  <2>1. /\ work'[c].row = Cleared(row) /\ work'[c].pc = "save" /\ messages' = messages
    BY <1>1, <1>12 DEF ClearWithoutCreate
  <2>2. Owed(Cleared(row), flows')
    BY <1>3, ClearedType DEF Owed
  <2>3. QED
    BY <1>6, <1>8, <1>12, <2>1, <2>2
<1>13. CASE CreateFlow(c)
  <2> DEFINE flow == [key |-> row.key, old |-> row.old, live |-> TRUE]
             made == Append(flows, flow)
  <2>1. PICK answer \in Answers, id \in RecordIDs(made) :
          /\ flows' = IF answer = "error" THEN flows ELSE made
          /\ work' = [work EXCEPT ![c] =
               IF answer = "ok" THEN [pc |-> "notify", row |-> Created(row, id)]
               ELSE [pc |-> "save", row |-> Failed(row)]]
          /\ messages' = messages
    BY <1>13 DEF CreateFlow
  <2>2. CASE answer = "ok"
    <3>1. flow \in Flow /\ flow.key = row.key
      BY <1>3 DEF DispatchRow, Rows, Flow
    <3>2. id \in Nat /\ HasFlow(row.key, flows')
      <4> HIDE DEF flow
      <4>1. QED
        BY <1>1, <2>1, <2>2, <3>1, FlowsType, MadeFlows
    <3>3. Created(row, id).key = row.key
      BY <1>3, <3>2, CreatedType
    <3>4. work'[c].row = Created(row, id)
      BY <1>1, <2>1, <2>2
    <3> HIDE DEF row
    <3>5. HasFlow(work'[c].row.key, flows')
      BY <3>2, <3>3, <3>4
    <3>6. Owed(work'[c].row, flows')
      BY <3>5 DEF Owed
    <3>7. QED
      BY <1>6, <1>8, <1>13, <2>1, <3>5, <3>6
  <2>3. CASE answer # "ok"
    <3>1. work'[c].row = Failed(row) /\ work'[c].pc = "save"
      BY <1>1, <2>1, <2>3
    <3>2. Owed(Failed(row), flows')
      BY <1>3, FailedType DEF Owed
    <3>3. QED
      BY <1>6, <1>8, <1>13, <2>1, <3>1, <3>2
  <2>4. QED
    BY <2>2, <2>3
<1>14. CASE Notify(c)
  <2>1. /\ work'[c].row \in {MessageSent(row), MessageFailed(row)}
        /\ work'[c].pc = "save"
        /\ messages' \subseteq messages \cup {row.key}
    BY <1>1, <1>14 DEF Notify
  <2>2. HasFlow(row.key, flows')
    BY <1>5, <1>14 DEF Notify
  <2>3. MessageSent(row).key = row.key /\ MessageFailed(row).key = row.key
    BY <1>3, MessageSentType, MessageFailedType
  <2> HIDE DEF row
  <2>4. Owed(work'[c].row, flows')
    BY <2>1, <2>2, <2>3 DEF Owed
  <2>5. QED
    BY <1>6, <1>8, <1>14, <2>1, <2>2, <2>4
<1>15. CASE Save(c)
  <2>1. Copies' \subseteq Copies
    BY <1>15, NoNewCopies
  <2>2. \A d \in Callers : work'[d].pc = "notify" => work'[d] = work[d]
    BY <1>1, <1>15 DEF Save, Idle
  <2>3. /\ \A d \in Callers : work'[d].pc = "notify" => HasFlow(work'[d].row.key, flows')
        /\ \A key \in messages' : HasFlow(key, flows')
    BY <1>5, <1>6, <1>15, <2>2 DEF Save
  <2>4. QED
    BY <1>1, <1>4, <2>1, <2>3, TellQuiet
<1>16. QED
  BY <1>9, <1>10, <1>11, <1>12, <1>13, <1>14, <1>15 DEF DispatchStep

\* New rows are not delivered
LEMMA TellBuild ==
  ASSUME TypeOK, TellInv, Builds
  PROVE  TellInv'
<1>1. PICK c \in Callers, row \in NewRows :
        /\ Copies' \subseteq Copies \cup {row}
        /\ \A d \in Callers : d # c => work'[d] = work[d]
        /\ work'[c].pc \in {"queue", "insert"}
        /\ UNCHANGED <<reports, flows, messages, notices>>
  BY BuiltCopies
<1>2. FlowsGrow
  BY <1>1, TypeParts, SameFlows
<1>3. row.status = "pending"
  BY TypeParts, NewRowsType
<1>4. \A new \in {row} : Owed(new, flows')
  BY <1>3 DEF Owed
<1>5. \A d \in Callers : work'[d].pc = "notify" => work'[d] = work[d]
  BY <1>1
<1>6. QED
  BY <1>1, <1>2, <1>4, <1>5, TellFrom DEF TellInv

\* Saving a new row tells nobody
LEMMA TellQueue ==
  ASSUME TypeOK, TellInv, NEW w \in Writers, QueueStep(w)
  PROVE  TellInv'
<1>1. CASE SaveQueued(w)
  <2>1. w \in Callers /\ work \in [Callers -> WorkState]
    BY TypeParts, WorkerIsCaller
  <2>2. FlowsGrow /\ Copies' \subseteq Copies
    BY <1>1, TypeParts, SameFlows, NoNewCopies DEF SaveQueued
  <2>3. \A d \in Callers : work'[d].pc = "notify" => work'[d] = work[d]
    BY <1>1, <2>1 DEF SaveQueued, Idle
  <2>4. QED
    BY <1>1, <2>2, <2>3, TellQuiet DEF TellInv, SaveQueued
<1>2. QED
  BY <1>1, TellBuild DEF QueueStep, Builds

\* The second list holds delivered rows, which have flows
LEMMA TellList ==
  ASSUME TypeOK, TellInv,
         ListDispatchable \/ ListNotificationDispatchable \/ TakeReport \/ TakeNotification
  PROVE  TellInv'
<1>1. /\ flows \in Seq(Flow) /\ work \in [Callers -> WorkState]
      /\ CopiesOK(notices) /\ reports \in Seq(DispatchRow)
      /\ Worker \in Callers /\ UNCHANGED <<flows, messages>>
  BY TypeParts, WorkerIsCaller
  DEF ListDispatchable, ListNotificationDispatchable, TakeReport, TakeNotification
<1>2. FlowsGrow /\ Copies' \subseteq Copies
  BY <1>1, SameFlows, NoNewCopies
<1>3. CASE ListDispatchable
  <2>1. notices' = notices /\ \A c \in Callers : work'[c].pc = "notify" => work'[c] = work[c]
    BY <1>1, <1>3 DEF ListDispatchable
  <2>2. QED
    BY <1>1, <1>2, <2>1, TellQuiet DEF TellInv
<1>4. CASE ListNotificationDispatchable
  <2>1. \A c \in Callers : work'[c].pc = "notify" => work'[c] = work[c]
    BY <1>1, <1>4 DEF ListNotificationDispatchable, Idle
  <2>2. ASSUME NEW i \in DOMAIN notices'
        PROVE  HasFlow(notices'[i].key, flows)
    <3>1. /\ i \in 1..Len(reports) /\ NotificationDispatchable(reports[i])
          /\ notices'[i] = reports[i]
      BY <1>1, <1>4, <2>2, BatchType DEF ListNotificationDispatchable
    <3>2. Owed(reports[i], flows)
      BY <3>1, CopiesHave DEF TellInv
    <3>3. QED
      BY <3>1, <3>2 DEF NotificationDispatchable, Owed
  <2>3. QED
    BY <1>1, <1>2, <2>1, <2>2, TellQuiet DEF TellInv
<1>5. CASE TakeReport
  <2>1. notices' = notices /\ \A c \in Callers : work'[c].pc = "notify" => work'[c] = work[c]
    BY <1>1, <1>5 DEF TakeReport
  <2>2. QED
    BY <1>1, <1>2, <2>1, TellQuiet DEF TellInv
<1>6. CASE TakeNotification
  <2>1. First(notices) \in DOMAIN notices
    BY <1>1, <1>6, FirstOfList DEF TakeNotification
  <2>2. \A c \in Callers : work'[c].pc = "notify" => HasFlow(work'[c].row.key, flows)
    BY <1>1, <1>6, <2>1 DEF TakeNotification, TellInv
  <2>3. \A i \in DOMAIN notices' : HasFlow(notices'[i].key, flows)
    BY <1>1, <1>6, RestOfList DEF TakeNotification, TellInv
  <2>4. QED
    BY <1>1, <1>2, <2>2, <2>3, TellQuiet DEF TellInv
<1>7. QED
  BY <1>3, <1>4, <1>5, <1>6

\* A debug request inserts a row that is not delivered
LEMMA TellDebug ==
  ASSUME TypeOK, TellInv, NEW request \in Requests, DebugStep(request)
  PROVE  TellInv'
<1>1. /\ flows \in Seq(Flow) /\ work \in [Callers -> WorkState]
      /\ request \in Callers
  BY TypeParts, WorkerIsCaller
<1>2. CASE DispatchStep(request)
  BY <1>1, <1>2, TellDispatch
<1>3. CASE \E clock \in Clocks : DebugBegin(request, clock)
  BY <1>3, TellBuild DEF Builds
<1>4. CASE DebugInsert(request) \/ DebugAbandon(request)
  <2>1. /\ UNCHANGED <<flows, notices, messages>>
        /\ \A c \in Callers : work'[c].pc = "notify" => work'[c] = work[c]
    <3>1. CASE DebugInsert(request)
      <4>1. work' = [work EXCEPT ![request] = [work[request] EXCEPT !.pc = "begin"]]
        BY <3>1 DEF DebugInsert
      <4>2. work[request].pc \in RowPCs
        BY <3>1 DEF DebugInsert, RowPCs
      <4>3. work[request] = [pc |-> work[request].pc, row |-> work[request].row]
        BY <1>1, <4>2, HeldRow
      <4>4. [work[request] EXCEPT !.pc = "begin"].pc = "begin"
        BY <4>3
      <4>5. work'[request].pc = "begin" /\ \A c \in Callers : c # request => work'[c] = work[c]
        BY <1>1, <4>1, <4>4
      <4>6. QED
        BY <3>1, <4>5 DEF DebugInsert
    <3>2. CASE DebugAbandon(request)
      BY <1>1, <3>2 DEF DebugAbandon, Idle
    <3>3. QED
      BY <1>4, <3>1, <3>2
  <2>2. FlowsGrow /\ Copies' \subseteq Copies
    BY <1>1, <1>4, <2>1, SameFlows, NoNewCopies
  <2>3. QED
    BY <2>1, <2>2, TellQuiet DEF TellInv
<1>5. QED
  BY <1>2, <1>3, <1>4 DEF DebugStep

\* A restart leaves fewer copies
LEMMA TellCrash ==
  ASSUME TypeOK, TellInv, Crash
  PROVE  TellInv'
<1>1. flows \in Seq(Flow) /\ UNCHANGED <<flows, messages>>
  BY TypeParts DEF Crash
<1>2. FlowsGrow /\ Copies' \subseteq Copies
  BY <1>1, SameFlows, NoNewCopies
<1>3. DOMAIN notices' = {} /\ \A c \in Callers : work'[c].pc # "notify"
  BY DEF Crash, NoRows, Idle
<1>4. QED
  BY <1>1, <1>2, <1>3, TellQuiet DEF TellInv

\* No step of the dispatcher tells of a flow that never was
LEMMA TellStep ==
  ASSUME TypeOK, TellInv, [Next]_vars
  PROVE  TellInv'
<1>1. CASE \E w \in Writers : QueueStep(w)
  BY <1>1, TellQueue
<1>2. CASE WorkerStep
  BY <1>2, TellList, TellDispatch, WorkerIsCaller DEF WorkerStep
<1>3. CASE \E request \in Requests : DebugStep(request)
  BY <1>3, TellDebug
<1>4. CASE Crash
  BY <1>4, TellCrash
<1>5. CASE UNCHANGED vars
  <2>1. Copies' = Copies
    BY <1>5 DEF vars, Copies
  <2>2. QED
    BY <1>5, <2>1 DEF vars, TellInv
<1>6. QED
  BY <1>1, <1>2, <1>3, <1>4, <1>5 DEF Next

\* At the start there are no copies
LEMMA NoCopies == Init => Copies = {}
  BY DEF Init, Copies, NoRows, Idle, RowPCs

\* At the start nothing is delivered and nobody was told
LEMMA TellInit == Init => TellInv
  BY NoCopies DEF Init, TellInv, NoRows, Idle

(***************************************************************************)
(* The employee is never told "synchronised" of a report that gave Feishu  *)
(* no flow, for any number of requests, rows, restarts and retries.        *)
(***************************************************************************)
THEOREM MessagesMeanFlows == Spec => []MessageMeansFlow
<1>1. Init => TypeOK /\ TellInv
  BY TypeInit, TellInit
<1>2. TypeOK /\ TellInv /\ [Next]_vars => (TypeOK /\ TellInv)'
  BY TypeStep, TellStep
<1>3. TellInv => MessageMeansFlow
  BY FlowsOfKey DEF TellInv, MessageMeansFlow
<1>4. QED
  BY <1>1, <1>2, <1>3, PTL DEF Spec
=============================================================================
