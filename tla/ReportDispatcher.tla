-------------------------- MODULE ReportDispatcher --------------------------
(***************************************************************************)
(* AttendanceReportDispatcher: the loop that carries the rows of           *)
(* attendance_reports to Feishu, the debug page's DispatchAttendanceReport *)
(* that does the same for one row at a time, and Feishu's answers.         *)
(*                                                                         *)
(* Worker is the loop.  It lists rows and works on the copies, so a row    *)
(* may have changed by the time its copy is saved.  Every call to Feishu   *)
(* is a step, every Save another: the process may stop between the two.    *)
(* The services that queue rows (Attendance.tla has their detail) are one  *)
(* read of the table and one Save here, and several of them may be between *)
(* the two: the same key may be saved again, over a row in any state.      *)
(***************************************************************************)
EXTENDS ReportTable, FiniteSets

CONSTANTS
  Clocks,       \* the <<employee, kind>> pairs that are reported
  Writers,      \* services that queue rows at the same time
  Requests,     \* debug requests, by the instant that enters their keys
  Answers,      \* how Feishu answers: subset of {"ok", "error", "unknown"}
  RetryLimit,   \* report_retry_limit
  BatchLimit,   \* dispatchBatchLimit
  Versions,     \* the versions the records may have
  MaxSaves,     \* bound: rows queued by Writers, again or for the first time
  MaxCrashes    \* bound: process restarts

ASSUME DispatcherAssumption ==
  /\ \A clock \in Clocks : clock[2] \in Kinds
  /\ Requests \subseteq Nat \ {0}
  /\ Writers \cap (Requests \cup {0}) = {}
  /\ Answers \subseteq {"ok", "error", "unknown"}
  /\ RetryLimit \in Nat \ {0}
  /\ BatchLimit \in Nat \ {0}
  /\ Versions \subseteq Nat
  /\ MaxSaves \in Nat
  /\ MaxCrashes \in Nat

VARIABLES
  reports,      \* attendance_reports
  flows,        \* the attendance flows Feishu was ever given
  messages,     \* the keys of the reports whose employee got a message
  work,         \* what each writer, the loop and each debug request are doing
  queue,        \* the loop's list of reports still to dispatch
  notices,      \* the loop's list of notifications still to send
  crashes,
  queued        \* history: the rows the writers have saved

vars == <<reports, flows, messages, work, queue, notices, crashes, queued>>

Worker == 0
Callers == Writers \cup Requests \cup {Worker}

Idle == [pc |-> "idle"]

(* A list of rows: copies, by id, taken in the order of their ids *)

NoRows == [i \in {} |-> {}]

First(rows) == CHOOSE i \in DOMAIN rows : \A j \in DOMAIN rows : i <= j

Rest(rows) == [i \in DOMAIN rows \ {First(rows)} |-> rows[i]]

Init ==
  /\ reports = <<>>
  /\ flows = <<>>
  /\ messages = {}
  /\ work = [c \in Callers |-> Idle]
  /\ queue = NoRows
  /\ notices = NoRows
  /\ crashes = 0
  /\ queued = <<>>

-----------------------------------------------------------------------------
(* Rows appear.  Versions repeat: a stale Save of the record puts an older *)
(* one back (Attendance.tla), and a key's time is whole seconds.           *)

Instant == Second    \* times do not matter here, only that a create has one

Building == {w \in Writers : work[w] # Idle}

Queue(w, row) ==
  /\ work[w] = Idle
  /\ Len(queued) + Cardinality(Building) < MaxSaves
  /\ work' = [work EXCEPT ![w] = [pc |-> "queue", row |-> row]]
  /\ UNCHANGED <<reports, flows, messages, queue, notices, crashes, queued>>

Missing(key) == FindByIdempotencyKey(reports, key) = {}

\* The pipeline's: only when the key is missing, and without a delete id
QueueClockIn(w, clock) ==
  /\ clock[2] = "clock_in"
  /\ \E version \in Versions :
       LET key == BuildIdempotencyKey(clock[1], clock[2], Instant, version)
       IN  Missing(key) /\ Queue(w, NewReport(key))

\* The day end's: only when the key is missing, with the newest flow
QueueClockOut(w, clock) ==
  /\ clock[2] = "clock_out"
  /\ \E version \in Versions :
       LET key == BuildIdempotencyKey(clock[1], clock[2], Instant, version)
       IN  /\ Missing(key)
           /\ Queue(w, CopyLatestDeleteRecordID(reports, NewReport(key)))

\* A correction's: of a version it has raised, with the newest flow
QueueCorrection(w, clock) ==
  \E version \in Versions \ {1} :
    \E key \in {BuildIdempotencyKey(clock[1], clock[2], Instant, version),
               ClearKey(clock[1], clock[2], version)} :
      Queue(w, CopyLatestDeleteRecordID(reports, NewReport(key)))

SaveQueued(w) ==
  /\ work[w].pc = "queue"
  /\ reports' = SaveReport(reports, work[w].row)
  /\ queued' = Append(queued, work[w].row)
  /\ work' = [work EXCEPT ![w] = Idle]
  /\ UNCHANGED <<flows, messages, queue, notices, crashes>>

-----------------------------------------------------------------------------
(* RunOnce: two lists, read one after the other, then row by row *)

\* ORDER BY id LIMIT: copies of the first BatchLimit rows found
Batch(found) ==
  [i \in {j \in found : Cardinality({k \in found : k < j}) < BatchLimit} |-> reports[i]]

\* Mutant: a row is tried once more than the limit
DispatchableAtLimit(row) ==
  row.status \in {"pending", "failed"} /\ row.retry <= RetryLimit

Dispatchable(row) ==
  row.status \in {"pending", "failed"} /\ row.retry < RetryLimit

\* Mutant: a message that failed is not tried again
NotificationPending(row) ==
  row.status = "success" /\ row.notif = "pending" /\ row.notifRetry < RetryLimit

NotificationDispatchable(row) ==
  /\ row.status = "success"
  /\ row.notif \in {"pending", "failed"}
  /\ row.notifRetry < RetryLimit

ListDispatchable ==
  /\ work[Worker] = Idle
  /\ DOMAIN queue = {}
  /\ DOMAIN notices = {}
  /\ queue' = Batch({i \in 1..Len(reports) : Dispatchable(reports[i])})
  /\ work' = [work EXCEPT ![Worker] = [pc |-> "list"]]
  /\ UNCHANGED <<reports, flows, messages, notices, crashes, queued>>

ListNotificationDispatchable ==
  /\ work[Worker].pc = "list"
  /\ notices' = Batch({i \in 1..Len(reports) : NotificationDispatchable(reports[i])})
  /\ work' = [work EXCEPT ![Worker] = Idle]
  /\ UNCHANGED <<reports, flows, messages, queue, crashes, queued>>

TakeReport ==
  /\ work[Worker] = Idle
  /\ DOMAIN queue # {}
  /\ work' = [work EXCEPT ![Worker] = [pc |-> "begin", row |-> queue[First(queue)]]]
  /\ queue' = Rest(queue)
  /\ UNCHANGED <<reports, flows, messages, notices, crashes, queued>>

\* Mutant: a row of the second list is dispatched like one of the first
TakeNotificationAsReport ==
  /\ work[Worker] = Idle
  /\ DOMAIN queue = {}
  /\ DOMAIN notices # {}
  /\ work' = [work EXCEPT ![Worker] = [pc |-> "begin", row |-> notices[First(notices)]]]
  /\ notices' = Rest(notices)
  /\ UNCHANGED <<reports, flows, messages, queue, crashes, queued>>

TakeNotification ==
  /\ work[Worker] = Idle
  /\ DOMAIN queue = {}
  /\ DOMAIN notices # {}
  /\ work' = [work EXCEPT ![Worker] = [pc |-> "notify", row |-> notices[First(notices)]]]
  /\ notices' = Rest(notices)
  /\ UNCHANGED <<reports, flows, messages, queue, crashes, queued>>

-----------------------------------------------------------------------------
(* dispatchReport *)

\* Mutant: failures are not counted
FailedUncounted(row) == [row EXCEPT !.status = "failed"]

\* Mutant: a status the list does not know
FailedAsError(row) == [row EXCEPT !.status = "error", !.retry = @ + 1]

Failed(row) == [row EXCEPT !.status = "failed", !.retry = @ + 1]

Cleared(row) == [row EXCEPT !.status = "success", !.notif = "skipped"]

Created(row, id) == [row EXCEPT !.status = "success", !.ext = id]

MessageSent(row) == [row EXCEPT !.notif = "success", !.notifRetry = 0]

MessageFailed(row) == [row EXCEPT !.notif = "failed", !.notifRetry = @ + 1]

\* The configuration is incomplete, or the employee cannot be loaded
Reject(c) ==
  /\ work[c].pc = "begin"
  /\ "error" \in Answers
  /\ work' = [work EXCEPT ![c] = [pc |-> "save", row |-> Failed(@.row)]]
  /\ UNCHANGED <<reports, flows, messages, queue, notices, crashes, queued>>

\* DeleteFlows.  "unknown" is a time-out or a broken answer after the flow
\* was deleted; a flow that is gone may be answered as deleted or as failed
DeleteFlow(c) ==
  /\ work[c].pc = "begin"
  /\ work[c].row.delete # NoFlow
  /\ LET row == work[c].row
         gone == [flows EXCEPT ![row.delete].live = FALSE]
         kept == [row EXCEPT !.delete = NoFlow]
     IN \E answer \in Answers :
          /\ flows' = IF answer = "error" THEN flows ELSE gone
          /\ work' = [work EXCEPT ![c] =
               IF answer # "ok" THEN [pc |-> "save", row |-> Failed(row)]
               ELSE IF row.key.act = "clear"
                 THEN [pc |-> "save", row |-> Cleared(kept)]
                 ELSE [pc |-> "progress", row |-> kept]]
  /\ UNCHANGED <<reports, messages, queue, notices, crashes, queued>>

\* The Save that records the deletion before anything is created
SaveProgress(c) ==
  /\ work[c].pc = "progress"
  /\ reports' = SaveReport(reports, work[c].row)
  /\ work' = [work EXCEPT ![c].pc = "create"]
  /\ UNCHANGED <<flows, messages, queue, notices, crashes, queued>>

\* Nothing to delete: a clear is done without a call
ClearWithoutCreate(c) ==
  /\ work[c].pc = "begin"
  /\ work[c].row.delete = NoFlow
  /\ work[c].row.key.act = "clear"
  /\ work' = [work EXCEPT ![c] = [pc |-> "save", row |-> Cleared(@.row)]]
  /\ UNCHANGED <<reports, flows, messages, queue, notices, crashes, queued>>

\* Mutant: the old flow need not be gone
ReadyAnyTime(c) ==
  work[c].pc \in {"begin", "create"} /\ work[c].row.key.act = "create"

ReadyToCreate(c) ==
  \/ work[c].pc = "create"
  \/ /\ work[c].pc = "begin"
     /\ work[c].row.delete = NoFlow
     /\ work[c].row.key.act = "create"

\* The flow id CreateFlow returns: the new flow's, or, when the answer has
\* none, that of any flow of the employee with the same clock and time
RecordIDs(made) ==
  LET key == made[Len(made)].key
  IN  {f \in 1..Len(made) : /\ made[f].live
                            /\ made[f].key.emp = key.emp
                            /\ made[f].key.kind = key.kind
                            /\ made[f].key.time = key.time}

\* Mutant: the employee is told before the answer is looked at
CreateAndTell(c) ==
  /\ ReadyToCreate(c)
  /\ LET row == work[c].row
         made == Append(flows, [key |-> row.key, old |-> row.old, live |-> TRUE])
     IN \E answer \in Answers :
          /\ flows' = IF answer = "error" THEN flows ELSE made
          /\ work' = [work EXCEPT ![c] =
               [pc |-> "notify",
                row |-> IF answer = "ok" THEN Created(row, Len(made))
                        ELSE Failed(row)]]
  /\ UNCHANGED <<reports, messages, queue, notices, crashes, queued>>

\* CreateFlow.  "unknown" is a time-out, or a flow whose record id the
\* look-up did not find
CreateFlow(c) ==
  /\ ReadyToCreate(c)
  /\ LET row == work[c].row
         made == Append(flows, [key |-> row.key, old |-> row.old, live |-> TRUE])
     IN \E answer \in Answers, id \in RecordIDs(made) :
          /\ flows' = IF answer = "error" THEN flows ELSE made
          /\ work' = [work EXCEPT ![c] =
               IF answer = "ok"
                 THEN [pc |-> "notify", row |-> Created(row, id)]
                 ELSE [pc |-> "save", row |-> Failed(row)]]
  /\ UNCHANGED <<reports, messages, queue, notices, crashes, queued>>

\* SendTextMessage.  Its uuid is the row's key, so a repeated message is one
Notify(c) ==
  /\ work[c].pc = "notify"
  /\ \E answer \in Answers :
       /\ messages' = IF answer = "error" THEN messages
                      ELSE messages \cup {work[c].row.key}
       /\ work' = [work EXCEPT ![c] =
            [pc |-> "save",
             row |-> IF answer = "ok" THEN MessageSent(@.row) ELSE MessageFailed(@.row)]]
  /\ UNCHANGED <<reports, flows, queue, notices, crashes, queued>>

Save(c) ==
  /\ work[c].pc = "save"
  /\ reports' = SaveReport(reports, work[c].row)
  /\ work' = [work EXCEPT ![c] = Idle]
  /\ UNCHANGED <<flows, messages, queue, notices, crashes, queued>>

-----------------------------------------------------------------------------
(* DebugAdminService.DispatchAttendanceReport *)

ManualKey(clock, request) ==
  [BuildIdempotencyKey(clock[1], clock[2], Instant, 1) EXCEPT !.manual = request]

DebugBegin(request, clock) ==
  /\ work[request] = Idle
  /\ \A i \in 1..Len(reports) : reports[i].key.manual # request
  /\ work' = [work EXCEPT ![request] =
       [pc |-> "insert",
        row |-> CopyLatestDeleteRecordID(reports, NewReport(ManualKey(clock, request)))]]
  /\ UNCHANGED <<reports, flows, messages, queue, notices, crashes, queued>>

DebugInsert(request) ==
  /\ work[request].pc = "insert"
  /\ reports' = SaveReport(reports, work[request].row)
  /\ work' = [work EXCEPT ![request].pc = "begin"]
  /\ UNCHANGED <<flows, messages, queue, notices, crashes, queued>>

\* The browser goes away or a Save fails: the request ends where it was
DebugAbandon(request) ==
  /\ work[request] # Idle
  /\ work' = [work EXCEPT ![request] = Idle]
  /\ UNCHANGED <<reports, flows, messages, queue, notices, crashes, queued>>

\* The process stops (a failed Save of the loop stops it too) and restarts
Crash ==
  /\ crashes < MaxCrashes
  /\ crashes' = crashes + 1
  /\ work' = [c \in Callers |-> Idle]
  /\ queue' = NoRows
  /\ notices' = NoRows
  /\ UNCHANGED <<reports, flows, messages, queued>>

-----------------------------------------------------------------------------
QueueStep(w) ==
  \/ \E clock \in Clocks :
       QueueClockIn(w, clock) \/ QueueClockOut(w, clock) \/ QueueCorrection(w, clock)
  \/ SaveQueued(w)

DispatchStep(c) ==
  \/ Reject(c) \/ DeleteFlow(c) \/ SaveProgress(c) \/ ClearWithoutCreate(c)
  \/ CreateFlow(c) \/ Notify(c) \/ Save(c)

WorkerStep ==
  \/ ListDispatchable \/ ListNotificationDispatchable
  \/ TakeReport \/ TakeNotification \/ DispatchStep(Worker)

DebugStep(request) ==
  \/ \E clock \in Clocks : DebugBegin(request, clock)
  \/ DebugInsert(request) \/ DispatchStep(request) \/ DebugAbandon(request)

Next ==
  \/ \E w \in Writers : QueueStep(w)
  \/ WorkerStep
  \/ \E request \in Requests : DebugStep(request)
  \/ Crash

Spec == Init /\ [][Next]_vars

\* The loop ticks as long as the process runs, every call to Feishu returns
\* within report_timeout_seconds, and restarts come to an end
FairSpec == Spec /\ WF_vars(WorkerStep)

-----------------------------------------------------------------------------
(* Properties *)

DispatchKeys == Keys({clock[1] : clock \in Clocks}, Requests)

DispatchRow == Rows(DispatchKeys)

\* Every variable has its type
TypeOK ==
  /\ reports \in Seq(DispatchRow)
  /\ flows \in Seq([key : DispatchKeys, old : Nat, live : BOOLEAN])
  /\ messages \subseteq DispatchKeys
  /\ work \in [Callers -> {Idle, [pc |-> "list"]} \cup
                 [pc : {"queue", "insert", "begin", "progress", "create", "notify", "save"},
                  row : DispatchRow]]
  /\ queue \in [DOMAIN queue -> DispatchRow] /\ DOMAIN queue \subseteq 1..Len(reports)
  /\ notices \in [DOMAIN notices -> DispatchRow] /\ DOMAIN notices \subseteq 1..Len(reports)
  /\ crashes \in 0..MaxCrashes
  /\ queued \in Seq(DispatchRow)

RowIds == 1..(MaxSaves + Cardinality(Requests))

FlowsOf(key) == {f \in 1..Len(flows) : flows[f].key = key}

\* How often the writers have queued a row with this key
Saves(key) == {n \in 1..Len(queued) : queued[n].key = key}

(***************************************************************************)
(* Delete first, then create: a flow is made of a row only when the flow   *)
(* that row was queued to replace is gone, through retries, crashes        *)
(* between the two calls, lost answers, a row queued again while a copy of *)
(* it is dispatched, and a debug request working on the same row.          *)
(***************************************************************************)
OldFlowGoneFirst ==
  \A f \in 1..Len(flows) :
    flows[f].old # NoFlow => ~ flows[flows[f].old].live

(***************************************************************************)
(* "Synchronised to Feishu", says the message: an employee who got one     *)
(* has, or had until it was replaced, the flow in Feishu, whatever was     *)
(* retried or saved over.                                                  *)
(***************************************************************************)
MessageMeansFlow == \A key \in messages : FlowsOf(key) # {}

(***************************************************************************)
(* The retry limit bounds the harm: with the loop alone, a row gives       *)
(* Feishu at most RetryLimit flows each time it is queued, and one more    *)
(* per restart.  A Save over a row in flight resets its count; neither it  *)
(* nor the stale copy that is saved over it afterwards adds to the bound.  *)
(***************************************************************************)
FlowsBoundedByRetries ==
  \A i \in 1..Len(reports) :
    LET key == reports[i].key
    IN  Cardinality(FlowsOf(key)) <= RetryLimit * Cardinality(Saves(key)) + crashes

(***************************************************************************)
(* With the loop alone, a delivered row stays delivered with the same flow *)
(* until a service queues it again: neither its notification, sent later   *)
(* from another list, nor a stale copy, nor a restart sends it again.      *)
(***************************************************************************)
DeliveredOnce ==
  [][\A i \in 1..Len(reports) :
       reports[i].status = "success" =>
         \/ Saves(reports[i].key)' # Saves(reports[i].key)
         \/ /\ reports'[i].status = "success" /\ reports'[i].ext = reports[i].ext
            /\ \A f \in FlowsOf(reports[i].key)' : f <= Len(flows)]_vars

Queued(i) == i <= Len(reports)

Settled(i) ==
  Queued(i) /\ (reports[i].status = "success" \/ reports[i].retry >= RetryLimit)

(***************************************************************************)
(* Every queued row is delivered or uses up its retries, whatever the rows *)
(* before it in the batch do, restarts included.                           *)
(***************************************************************************)
EveryRowSettles == \A i \in RowIds : Queued(i) ~> Settled(i)

Done(i) == Queued(i) /\ reports[i].status = "success"

Told(i) ==
  /\ Queued(i)
  /\ \/ reports[i].notif \in {"success", "skipped"}
     \/ reports[i].notifRetry >= RetryLimit

(***************************************************************************)
(* Every delivered row's message is sent or uses up its retries, unless    *)
(* the row is queued again before that.                                    *)
(***************************************************************************)
EveryMessageSettles == \A i \in RowIds : Done(i) ~> (Told(i) \/ ~ Done(i))

(***************************************************************************)
(* "Automatic retries do not report twice", nor do manual operations: a    *)
(* row gives Feishu one flow.                                              *)
(***************************************************************************)
OneFlowPerReport ==
  \A f, g \in 1..Len(flows) : flows[f].key = flows[g].key => f = g

(***************************************************************************)
(* "To keep the remote state consistent with the current record, a manual  *)
(* send deletes the old and imports the new": once everything queued has   *)
(* been delivered, no flow of a row queued before a manual one is live.    *)
(***************************************************************************)
ManualSendReplaces ==
  /\ \A c \in Callers : work[c] = Idle
  /\ DOMAIN queue = {}
  /\ \A i \in 1..Len(reports) : reports[i].status = "success"
  => \A i, j \in 1..Len(reports) :
       /\ i < j
       /\ reports[j].key.manual # 0
       /\ reports[i].key.emp = reports[j].key.emp
       /\ reports[i].key.kind = reports[j].key.kind
       => \A f \in FlowsOf(reports[i].key) : ~ flows[f].live
=============================================================================
