--------------------------- MODULE OldFlowProofs ---------------------------
(***************************************************************************)
(* A proof that a flow which has to be deleted before another is created   *)
(* is deleted first.                                                       *)
(*                                                                         *)
(* A row is at many places, and any of the copies may be dispatched, so    *)
(* the invariant speaks of all of them: as long as the flow a copy was     *)
(* queued to replace is live, the copy still says it has to be deleted,    *)
(* and nobody who holds one is past its deletion (OldInv).  That needs     *)
(* flow ids to be ids Feishu has given out (RangeInv), so that no flow     *)
(* made later takes the place of one to be deleted.                        *)
(***************************************************************************)
EXTENDS DispatcherProofs

Gone(f, made) == f = NoFlow \/ ~ made[f].live

\* A copy knows what it replaces as long as that is not gone
Agrees(row, made) == row.delete = row.old \/ Gone(row.old, made)

InRange(row, n) == row.ext <= n /\ row.delete <= n /\ row.old <= n

RangeInv ==
  /\ \A row \in Copies : InRange(row, Len(flows))
  /\ \A f \in 1..Len(flows) : flows[f].old <= Len(flows)

OldInv ==
  /\ \A f \in 1..Len(flows) : Gone(flows[f].old, flows)
  /\ \A row \in Copies : Agrees(row, flows)
  /\ \A c \in Callers :
       work[c].pc \in {"progress", "create"} => Gone(work[c].row.old, flows)

-----------------------------------------------------------------------------
(* What the steps of a dispatch do to the row in the caller's hands *)

DispatchCall(c) ==
  Reject(c) \/ DeleteFlow(c) \/ ClearWithoutCreate(c) \/ CreateFlow(c) \/ Notify(c)

\* A call keeps the row's key; it forgets the old flow by deleting it
LEMMA DispatchedRow ==
  ASSUME TypeOK, NEW c \in Callers, DispatchCall(c)
  PROVE  /\ work[c].pc \in RowPCs \ {"queue", "insert"}
         /\ work'[c].pc \in {"save", "progress", "notify"}
         /\ work'[c].row.key = work[c].row.key
         /\ work'[c].row.old = work[c].row.old
         /\ \/ work'[c].row.ext = work[c].row.ext
            \/ work'[c].row.ext \in 1..Len(flows')
         /\ \/ /\ work'[c].row.delete = work[c].row.delete
               /\ work'[c].pc # "progress"
            \/ /\ work'[c].row.delete = NoFlow
               /\ work[c].row.delete # NoFlow
               /\ flows' = [flows EXCEPT ![work[c].row.delete].live = FALSE]
<1> DEFINE row == work[c].row
<1>1. work \in [Callers -> WorkState] /\ flows \in Seq(Flow)
  BY TypeParts
<1>2. work[c].pc \in RowPCs \ {"queue", "insert"}
  BY DEF DispatchCall, Reject, DeleteFlow, ClearWithoutCreate, CreateFlow,
         ReadyToCreate, Notify, RowPCs
<1>3. row \in DispatchRow
  BY <1>2, HeldRow
<1>4. CASE Reject(c)
  <2>1. work'[c].row = Failed(row) /\ work'[c].pc = "save"
    BY <1>1, <1>4 DEF Reject
  <2>2. QED
    BY <1>2, <1>3, <2>1, FailedType
<1>5. CASE DeleteFlow(c)
  <2> DEFINE kept == [row EXCEPT !.delete = NoFlow]
  <2>1. \/ work'[c].row = Failed(row) /\ work'[c].pc = "save"
        \/ /\ work'[c].row \in {kept, Cleared(kept)}
           /\ work'[c].pc \in {"save", "progress"}
           /\ row.delete # NoFlow
           /\ flows' = [flows EXCEPT ![row.delete].live = FALSE]
    BY <1>1, <1>5 DEF DeleteFlow
  <2>2. /\ Failed(row).key = row.key /\ Failed(row).delete = row.delete
        /\ Failed(row).ext = row.ext /\ Failed(row).old = row.old
    BY <1>3, FailedType
  <2>3. /\ kept.key = row.key /\ kept.delete = NoFlow /\ kept.ext = row.ext
        /\ Cleared(kept).key = row.key /\ Cleared(kept).delete = NoFlow
        /\ Cleared(kept).ext = row.ext
        /\ kept.old = row.old /\ Cleared(kept).old = row.old
    <3>1. /\ kept \in DispatchRow
          /\ kept.key = row.key /\ kept.delete = NoFlow /\ kept.ext = row.ext
          /\ kept.old = row.old
      BY <1>3, KeptType
    <3> HIDE DEF kept
    <3>2. QED
      BY <3>1, ClearedType
  <2> HIDE DEF kept, row
  <2>4. QED
    BY <1>2, <2>1, <2>2, <2>3 DEF row
<1>6. CASE ClearWithoutCreate(c)
  <2>1. work'[c].row = Cleared(row) /\ work'[c].pc = "save"
    BY <1>1, <1>6 DEF ClearWithoutCreate
  <2>2. QED
    BY <1>2, <1>3, <2>1, ClearedType
<1>7. CASE CreateFlow(c)
  <2> DEFINE flow == [key |-> row.key, old |-> row.old, live |-> TRUE]
             made == Append(flows, flow)
  <2>1. PICK answer \in Answers, id \in RecordIDs(made) :
          /\ flows' = IF answer = "error" THEN flows ELSE made
          /\ work' = [work EXCEPT ![c] =
               IF answer = "ok" THEN [pc |-> "notify", row |-> Created(row, id)]
               ELSE [pc |-> "save", row |-> Failed(row)]]
    BY <1>7 DEF CreateFlow
  <2>2. CASE answer = "ok"
    <3>1. id \in 1..Len(flows') /\ id \in Nat
      BY <1>1, <1>3, <2>1, <2>2 DEF RecordIDs
    <3>2. work'[c].row = Created(row, id) /\ work'[c].pc = "notify"
      BY <1>1, <2>1, <2>2
    <3>3. QED
      BY <1>2, <1>3, <3>1, <3>2, CreatedType
  <2>3. CASE answer # "ok"
    <3>1. work'[c].row = Failed(row) /\ work'[c].pc = "save"
      BY <1>1, <2>1, <2>3
    <3>2. QED
      BY <1>2, <1>3, <3>1, FailedType
  <2>4. QED
    BY <2>2, <2>3
<1>8. CASE Notify(c)
  <2>1. /\ work'[c].row \in {MessageSent(row), MessageFailed(row)}
        /\ work'[c].pc = "save"
    BY <1>1, <1>8 DEF Notify
  <2>2. QED
    BY <1>2, <1>3, <2>1, MessageSentType, MessageFailedType
<1>9. QED
  BY <1>4, <1>5, <1>6, <1>7, <1>8 DEF DispatchCall

\* A call changes its caller's copy and no other
LEMMA CallChanges ==
  ASSUME TypeOK, NEW c \in Callers, DispatchCall(c)
  PROVE  /\ \A d \in Callers : d # c => work'[d] = work[d]
         /\ Copies' \subseteq Copies \cup {work'[c].row}
         /\ UNCHANGED <<reports, queue, notices, crashes, queued>>
<1>1. /\ work' = [work EXCEPT ![c] = work'[c]]
      /\ UNCHANGED <<reports, queue, notices, crashes, queued>>
  BY DispatchOutcome DEF DispatchCall
<1>2. QED
  BY <1>1, OneCopyChanges

\* Only a creation adds a flow, one that remembers what its row replaced
LEMMA CallFlows ==
  ASSUME TypeOK, NEW c \in Callers, DispatchCall(c)
  PROVE  /\ FlowsGrow
         /\ \A f \in 1..Len(flows') :
              \/ f \in 1..Len(flows)
              \/ /\ ReadyToCreate(c)
                 /\ flows'[f].key = work[c].row.key
                 /\ flows'[f].old = work[c].row.old
<1> DEFINE row == work[c].row
<1>1. FlowsGrow /\ flows \in Seq(Flow) /\ Len(flows) \in Nat
  BY TypeParts, DispatchFlowsGrow DEF DispatchCall, DispatchStep
<1>2. row \in DispatchRow
  BY DispatchedRow, HeldRow
<1>3. CASE CreateFlow(c)
  <2> DEFINE flow == [key |-> row.key, old |-> row.old, live |-> TRUE]
  <2>1. flow \in Flow /\ flow.key = row.key /\ flow.old = row.old
    BY <1>2 DEF DispatchRow, Rows, Flow
  <2>2. ReadyToCreate(c) /\ (flows' = flows \/ flows' = Append(flows, flow))
    BY <1>3 DEF CreateFlow
  <2> HIDE DEF flow, row
  <2>3. \A f \in 1..Len(flows') : f \in 1..Len(flows) \/ flows'[f] = flow
    BY <1>1, <2>1, <2>2
  <2>4. QED
    BY <1>1, <2>1, <2>2, <2>3 DEF row
<1>4. CASE DeleteFlow(c)
  <2>1. flows' = flows \/ flows' = [flows EXCEPT ![row.delete].live = FALSE]
    BY <1>4 DEF DeleteFlow
  <2>2. Len(flows') = Len(flows)
    BY <1>1, <2>1
  <2>3. QED
    BY <1>1, <2>2
<1>5. CASE UNCHANGED flows
  BY <1>1, <1>5
<1>6. QED
  BY <1>3, <1>4, <1>5 DEF DispatchCall, Reject, ClearWithoutCreate, Notify

\* A deleted flow is not live again
LEMMA GoneStays ==
  ASSUME FlowsGrow, NEW f \in 0..Len(flows), Gone(f, flows)
  PROVE  Gone(f, flows')
  BY DEF Gone, FlowsGrow, NoFlow

-----------------------------------------------------------------------------
(* Flow ids are ids Feishu has given out *)

LEMMA FlowTypes ==
  ASSUME TypeOK
  PROVE  \A f \in 1..Len(flows) : flows[f].old \in Nat
<1>1. flows \in Seq(Flow)
  BY TypeParts
<1>2. \A f \in 1..Len(flows) : flows[f] \in Flow
  BY <1>1, ElementOfSeq
<1>3. QED
  BY <1>2 DEF Flow

\* What was an id before a step is one after it
LEMMA RangeStays ==
  ASSUME RangeInv, FlowsGrow, TypeOK
  PROVE  /\ \A row \in Copies : InRange(row, Len(flows'))
         /\ \A f \in 1..Len(flows) : flows'[f].old <= Len(flows')
<1>1. Len(flows) \in Nat /\ Len(flows') \in Nat /\ Len(flows) <= Len(flows')
  BY DEF FlowsGrow
<1>2. ASSUME NEW row \in Copies PROVE InRange(row, Len(flows'))
  <2>1. row.ext \in Nat /\ row.delete \in Nat /\ row.old \in Nat
    BY CopiesType DEF DispatchRow, Rows
  <2>2. QED
    BY <1>1, <2>1 DEF RangeInv, InRange
<1>3. ASSUME NEW f \in 1..Len(flows) PROVE flows'[f].old <= Len(flows')
  <2>1. flows[f].old \in Nat
    BY FlowTypes
  <2>2. flows[f].old <= Len(flows) /\ flows'[f].old = flows[f].old
    BY DEF RangeInv, FlowsGrow
  <2>3. QED
    BY <1>1, <2>1, <2>2
<1>4. QED
  BY <1>2, <1>3

\* A call to Feishu returns an id Feishu has given out
LEMMA RangeCall ==
  ASSUME TypeOK, RangeInv, NEW c \in Callers, DispatchCall(c)
  PROVE  RangeInv'
<1>1. /\ work[c].row \in Copies /\ work[c].row \in DispatchRow /\ FlowsGrow
  BY DispatchedRow, CopiesHave, CopiesType, CallFlows
<1>2. Len(flows') \in Nat /\ InRange(work[c].row, Len(flows'))
  BY <1>1, RangeStays DEF FlowsGrow
<1>3. work'[c].row.ext <= Len(flows')
  <2>1. \/ work'[c].row.ext = work[c].row.ext
        \/ work'[c].row.ext \in 1..Len(flows')
    BY DispatchedRow
  <2>2. work[c].row.ext <= Len(flows')
    BY <1>2 DEF InRange
  <2>3. QED
    BY <1>2, <2>1, <2>2
<1>4. work'[c].row.delete <= Len(flows')
  <2>1. work'[c].row.delete \in {work[c].row.delete, NoFlow}
    BY DispatchedRow
  <2>2. work[c].row.delete <= Len(flows')
    BY <1>2 DEF InRange
  <2>3. QED
    BY <1>2, <2>1, <2>2 DEF NoFlow
<1>5. work'[c].row.old <= Len(flows')
  BY <1>2, DispatchedRow DEF InRange
<1>6. \A f \in 1..Len(flows') : flows'[f].old <= Len(flows')
  BY <1>1, <1>2, RangeStays, CallFlows DEF InRange
<1>7. QED
  BY <1>1, <1>3, <1>4, <1>5, <1>6, CallChanges, RangeStays DEF RangeInv, InRange

\* The flow a new row is to replace is one the table holds
LEMMA BuiltInRange ==
  ASSUME TypeOK, RangeInv, NEW row \in NewRows
  PROVE  InRange(row, Len(flows))
<1>1. reports \in Seq(DispatchRow) /\ Len(flows) \in Nat
  BY TypeParts
<1>2. /\ row.ext = NoFlow /\ row.old = row.delete
      /\ row.delete = NoFlow \/ \E i \in 1..Len(reports) : row.delete = reports[i].ext
  BY <1>1, NewRowsType
<1>3. \A i \in 1..Len(reports) : reports[i].ext <= Len(flows)
  BY CopiesHave DEF RangeInv, InRange
<1>4. QED
  BY <1>1, <1>2, <1>3 DEF InRange, NoFlow

\* The steps that call nobody and build nothing
Quiet ==
  \/ \E w \in Writers : SaveQueued(w)
  \/ ListDispatchable \/ ListNotificationDispatchable
  \/ TakeReport \/ TakeNotification \/ Crash
  \/ \E request \in Requests : DebugInsert(request) \/ DebugAbandon(request)
  \/ \E c \in Callers : SaveProgress(c) \/ Save(c)
  \/ UNCHANGED vars

\* They make no copy and no flow, and take nobody past a deletion
LEMMA QuietChanges ==
  ASSUME TypeOK, Quiet
  PROVE  /\ Copies' \subseteq Copies
         /\ flows' = flows
         /\ \A c \in Callers : work'[c].pc \in {"progress", "create"} =>
              /\ work[c].pc \in {"progress", "create"}
              /\ work'[c].row = work[c].row
<1>1. /\ work \in [Callers -> WorkState] /\ Worker \in Callers
      /\ Requests \subseteq Callers /\ Writers \subseteq Callers
  BY WorkerIsCaller, TypeParts
<1>2. Copies' \subseteq Copies
  <2>1. CASE UNCHANGED vars
    BY <2>1 DEF vars, Copies
  <2>2. QED
    BY <2>1, NoNewCopies DEF Quiet
<1>3. flows' = flows
  BY DEF Quiet, SaveQueued, ListDispatchable, ListNotificationDispatchable,
         TakeReport, TakeNotification, Crash, DebugInsert, DebugAbandon,
         SaveProgress, Save, vars
<1>4. ASSUME NEW d \in Callers, SaveProgress(d) \/ DebugInsert(d)
      PROVE  /\ \A c \in Callers : c # d => work'[c] = work[c]
             /\ work'[d].row = work[d].row
             /\ work'[d].pc = "create" => work[d].pc = "progress"
             /\ work'[d].pc \in {"begin", "create"}
  <2>1. work[d].pc \in RowPCs
    BY <1>4 DEF SaveProgress, DebugInsert, RowPCs
  <2>2. work[d] = [pc |-> work[d].pc, row |-> work[d].row]
    BY <2>1, HeldRow
  <2>3. PICK pc \in {"begin", "create"} :
          /\ work' = [work EXCEPT ![d] = [work[d] EXCEPT !.pc = pc]]
          /\ pc = "create" => work[d].pc = "progress"
    BY <1>4 DEF SaveProgress, DebugInsert
  <2>4. [work[d] EXCEPT !.pc = pc] = [pc |-> pc, row |-> work[d].row]
    BY <2>2
  <2>5. QED
    BY <1>1, <2>3, <2>4
<1>5. CASE \E d \in Callers : SaveProgress(d) \/ DebugInsert(d)
  BY <1>2, <1>3, <1>4, <1>5
<1>6. CASE \/ \E w \in Writers : SaveQueued(w)
           \/ ListDispatchable \/ ListNotificationDispatchable
           \/ TakeReport \/ TakeNotification \/ Crash
           \/ \E request \in Requests : DebugAbandon(request)
           \/ \E c \in Callers : Save(c)
           \/ UNCHANGED vars
  <2>1. \A c \in Callers : work'[c].pc \in {"progress", "create"} => work'[c] = work[c]
    BY <1>1, <1>6
    DEF SaveQueued, ListDispatchable, ListNotificationDispatchable, TakeReport,
        TakeNotification, Crash, DebugAbandon, Save, Idle, vars
  <2>2. QED
    BY <1>2, <1>3, <2>1
<1>7. QED
  BY <1>1, <1>5, <1>6 DEF Quiet

\* A step builds a row, makes a call, or does neither
LEMMA StepKinds ==
  ASSUME [Next]_vars
  PROVE  Builds \/ Quiet \/ \E c \in Callers : DispatchCall(c)
  BY WorkerIsCaller
  DEF Next, QueueStep, WorkerStep, DebugStep, DispatchStep, DispatchCall, Builds, Quiet

\* No step of the dispatcher invents a flow id
LEMMA RangeStep ==
  ASSUME TypeOK, RangeInv, [Next]_vars
  PROVE  RangeInv'
<1>1. flows \in Seq(Flow)
  BY TypeParts
<1>2. CASE \E c \in Callers : DispatchCall(c)
  BY <1>2, RangeCall
<1>3. CASE Builds
  <2>1. PICK row \in NewRows : Copies' \subseteq Copies \cup {row} /\ flows' = flows
    BY <1>3, BuiltCopies
  <2>2. QED
    BY <2>1, BuiltInRange DEF RangeInv
<1>4. CASE Quiet
  <2>1. Copies' \subseteq Copies /\ flows' = flows
    BY <1>4, QuietChanges
  <2>2. QED
    BY <2>1 DEF RangeInv
<1>5. QED
  BY <1>2, <1>3, <1>4, StepKinds

-----------------------------------------------------------------------------
(* The old flow goes first *)

\* What was gone stays gone, and who knew what to delete knows it still
LEMMA OldStays ==
  ASSUME TypeOK, RangeInv, OldInv, FlowsGrow
  PROVE  /\ \A row \in Copies : Gone(row.old, flows) => Gone(row.old, flows')
         /\ \A row \in Copies : Agrees(row, flows')
         /\ \A f \in 1..Len(flows) : Gone(flows'[f].old, flows')
<1>1. ASSUME NEW row \in Copies, Gone(row.old, flows)
      PROVE  Gone(row.old, flows')
  <2>1. row.old \in Nat /\ row.old <= Len(flows) /\ Len(flows) \in Nat
    BY CopiesType DEF RangeInv, InRange, DispatchRow, Rows, FlowsGrow
  <2>2. QED
    BY <1>1, <2>1, GoneStays
<1>2. ASSUME NEW f \in 1..Len(flows) PROVE Gone(flows'[f].old, flows')
  <2>1. flows[f].old \in Nat /\ flows[f].old <= Len(flows) /\ Len(flows) \in Nat
    BY FlowTypes DEF RangeInv, FlowsGrow
  <2>2. Gone(flows[f].old, flows) /\ flows'[f].old = flows[f].old
    BY DEF OldInv, FlowsGrow
  <2>3. QED
    BY <2>1, <2>2, GoneStays
<1>3. QED
  BY <1>1, <1>2 DEF Agrees, OldInv

\* A call creates a flow only after the old one is deleted
LEMMA OldCall ==
  ASSUME TypeOK, RangeInv, OldInv, NEW c \in Callers, DispatchCall(c)
  PROVE  OldInv'
<1> DEFINE row == work[c].row
           new == work'[c].row
<1>1. /\ \A d \in Callers : d # c => work'[d] = work[d]
      /\ Copies' \subseteq Copies \cup {new}
  BY CallChanges
<1>2. /\ FlowsGrow
      /\ row \in Copies /\ row \in DispatchRow /\ new.old = row.old
      /\ \A d \in Callers : work[d].pc \in RowPCs => work[d].row \in Copies
  BY CallFlows, DispatchedRow, CopiesHave, CopiesType
<1>3. /\ Gone(row.old, flows) => Gone(row.old, flows')
      /\ Agrees(row, flows) /\ Agrees(row, flows')
  BY <1>2, OldStays DEF OldInv
\* the call that deletes
<1>4. ASSUME row.delete # NoFlow, flows' = [flows EXCEPT ![row.delete].live = FALSE]
      PROVE  Gone(row.old, flows')
  <2>1. row.delete \in 1..Len(flows) /\ flows \in Seq(Flow)
    <3>1. row.delete \in Nat /\ row.delete <= Len(flows)
      BY <1>2 DEF RangeInv, InRange, DispatchRow, Rows
    <3>2. flows \in Seq(Flow) /\ Len(flows) \in Nat
      BY TypeParts
    <3>3. QED
      BY <1>4, <3>1, <3>2 DEF NoFlow
  <2>2. ~ flows'[row.delete].live
    BY <1>4, <2>1, GoneFlows
  <2>3. QED
    BY <1>3, <2>2 DEF Agrees, Gone
<1>5. Agrees(new, flows') /\ (work'[c].pc \in {"progress", "create"} => Gone(new.old, flows'))
  <2>1. CASE new.delete = row.delete /\ work'[c].pc # "progress"
    BY <1>2, <1>3, <2>1, DispatchedRow DEF Agrees
  <2>2. CASE /\ row.delete # NoFlow
             /\ flows' = [flows EXCEPT ![row.delete].live = FALSE]
    BY <1>2, <1>4, <2>2 DEF Agrees
  <2>3. QED
    BY <2>1, <2>2, DispatchedRow
<1>6. ASSUME NEW f \in 1..Len(flows') PROVE Gone(flows'[f].old, flows')
  <2>1. CASE f \in 1..Len(flows)
    BY <1>2, <2>1, OldStays
  <2>2. CASE ReadyToCreate(c) /\ flows'[f].old = row.old
    <3>1. CASE work[c].pc = "create"
      BY <1>3, <2>2, <3>1 DEF OldInv
    <3>2. CASE row.delete = NoFlow
      BY <1>3, <2>2, <3>2 DEF Agrees, Gone
    <3>3. QED
      BY <2>2, <3>1, <3>2 DEF ReadyToCreate
  <2>3. QED
    BY <2>1, <2>2, CallFlows
<1>7. \A copy \in Copies' : Agrees(copy, flows')
  BY <1>1, <1>2, <1>5, OldStays
<1>8. ASSUME NEW d \in Callers, work'[d].pc \in {"progress", "create"}
      PROVE  Gone(work'[d].row.old, flows')
  <2>1. CASE d = c
    BY <1>5, <1>8, <2>1
  <2>2. CASE d # c
    BY <1>1, <1>2, <1>8, <2>2, OldStays DEF OldInv, RowPCs
  <2>3. QED
    BY <2>1, <2>2
<1>9. QED
  BY <1>6, <1>7, <1>8 DEF OldInv

\* No step of the dispatcher creates a flow while the old one lives
LEMMA OldStep ==
  ASSUME TypeOK, RangeInv, OldInv, [Next]_vars
  PROVE  OldInv'
<1>1. CASE \E c \in Callers : DispatchCall(c)
  BY <1>1, OldCall
<1>2. CASE Builds
  <2>1. PICK c \in Callers, row \in NewRows :
          /\ Copies' \subseteq Copies \cup {row}
          /\ \A d \in Callers : d # c => work'[d] = work[d]
          /\ work'[c].pc \in {"queue", "insert"}
          /\ flows' = flows
    BY <1>2, BuiltCopies
  <2>2. Agrees(row, flows)
    BY TypeParts, NewRowsType DEF Agrees
  <2>3. \A d \in Callers :
          work'[d].pc \in {"progress", "create"} => work'[d] = work[d]
    BY <2>1
  <2>4. QED
    BY <2>1, <2>2, <2>3 DEF OldInv
<1>3. CASE Quiet
  BY <1>3, QuietChanges DEF OldInv
<1>4. QED
  BY <1>1, <1>2, <1>3, StepKinds

\* At the start there are no flows to delete
LEMMA OldInit == Init => RangeInv /\ OldInv
<1>1. ASSUME Init PROVE RangeInv /\ OldInv
  <2>1. Copies = {} /\ Len(flows) = 0 /\ \A c \in Callers : work[c] = Idle
    BY <1>1, NoCopies DEF Init
  <2>2. QED
    BY <2>1 DEF RangeInv, OldInv, Idle
<1>2. QED
  BY <1>1

(***************************************************************************)
(* Delete first, then create: for any number of rows, writers, requests,   *)
(* restarts and retries, and whichever copies are dispatched in which      *)
(* order, a flow is made of a row only when the flow that row was queued   *)
(* to replace is gone.                                                     *)
(***************************************************************************)
THEOREM OldFlowsGoFirst == Spec => []OldFlowGoneFirst
<1> DEFINE IInv == TypeOK /\ RangeInv /\ OldInv
<1>1. Init => IInv
  BY TypeInit, OldInit
<1>2. IInv /\ [Next]_vars => IInv'
  BY TypeStep, RangeStep, OldStep
<1>3. IInv => OldFlowGoneFirst
  BY DEF OldInv, Gone, OldFlowGoneFirst
<1>4. QED
  BY <1>1, <1>2, <1>3, PTL DEF Spec
=============================================================================
