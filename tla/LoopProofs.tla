----------------------------- MODULE LoopProofs -----------------------------
(***************************************************************************)
(* Proofs about the dispatcher's loop when it is alone: no debug request   *)
(* dispatches a row behind its back (Requests = {}), but any number of     *)
(* services queue rows, old keys again among them.                         *)
(*                                                                         *)
(* Every copy of a row that may still be dispatched or saved, be it in the *)
(* table, in a list or in the loop's hands, is within what its key is      *)
(* allowed: the flows Feishu was given for the key, and the tries the copy *)
(* has left, are at most RetryLimit for each time the key was queued and   *)
(* one per restart (Within).  Only while the loop has made its call and    *)
(* not saved the outcome is the row in the table one flow behind.  The     *)
(* lists and the loop's hands never hold the same row, and a copy that may *)
(* be sent is never one of a delivered row (ListsInv, HandInv).            *)
(***************************************************************************)
EXTENDS OldFlowProofs, FiniteSetTheorems

Known(key, rows) == \E i \in 1..Len(rows) : rows[i].key = key

Held == work[Worker].pc \in RowPCs

\* The row the loop works on
HeldRowIs(i) == Held /\ work[Worker].row.key = reports[i].key

Undecided == {"begin", "progress", "create"}

\* The loop has made its call and has not saved the outcome
PastCall == work[Worker].pc \in {"notify", "save"}

\* The creations and failures a row has counted
Tries(row) == IF row.status = "success" THEN row.retry + 1 ELSE row.retry

\* Copies that agree on what a dispatch changes, but for the flow to delete
SameSoFar(row, other) ==
  row.status = other.status /\ row.retry = other.retry /\ row.ext = other.ext

Count(key, list) == Cardinality({n \in 1..Len(list) : list[n].key = key})

\* The flows a key may have: the bound of FlowsBoundedByRetries
Allowed(key, rows, restarts) == RetryLimit * Count(key, rows) + restarts

\* With the tries the copy has left, the key stays within its allowance
Within(row, slack) ==
  /\ Tries(row) <= RetryLimit
  /\ Count(row.key, flows) + RetryLimit
       <= Allowed(row.key, queued, crashes) + Tries(row) + slack

UniqueKeys ==
  \A i, j \in 1..Len(reports) : reports[i].key = reports[j].key => i = j

\* Feishu has flows of queued rows only, and what is being queued is new
SourcesInv ==
  /\ \A f \in 1..Len(flows) : Known(flows[f].key, reports)
  /\ \A w \in Writers :
       work[w].pc = "queue" => work[w].row.status = "pending" /\ work[w].row.retry = 0

TableInv ==
  \A i \in 1..Len(reports) :
    /\ Within(reports[i], 1)
    /\ Within(reports[i], 0) \/ (HeldRowIs(i) /\ PastCall)

ListsInv ==
  /\ \A i \in DOMAIN queue :
       /\ queue[i].key = reports[i].key
       /\ Dispatchable(queue[i]) /\ Within(queue[i], 0)
       /\ reports[i].status # "success"
  /\ \A i \in DOMAIN notices :
       /\ notices[i].key = reports[i].key
       /\ notices[i].status = "success" /\ Within(notices[i], 0)
       /\ reports[i].status = "success" => notices[i].ext = reports[i].ext
       /\ i \notin DOMAIN queue

HandInv ==
  /\ Held =>
       /\ Known(work[Worker].row.key, reports)
       /\ Within(work[Worker].row, 0)
       /\ work[Worker].pc \in Undecided => Dispatchable(work[Worker].row)
       /\ work[Worker].pc \notin {"queue", "insert"}
  /\ \A i \in 1..Len(reports) : HeldRowIs(i) =>
       /\ i \notin DOMAIN queue /\ i \notin DOMAIN notices
       /\ work[Worker].pc \in Undecided => reports[i].status # "success"
       /\ reports[i].status = "success" =>
            /\ work[Worker].row.status = "success"
            /\ work[Worker].row.ext = reports[i].ext

LoopInv == UniqueKeys /\ SourcesInv /\ TableInv /\ ListsInv /\ HandInv

-----------------------------------------------------------------------------
(* Counting *)

\* A row counts with natural numbers
LEMMA TriesType ==
  ASSUME NEW row \in DispatchRow
  PROVE  Tries(row) \in Nat /\ row.retry \in Nat
  BY DEF Tries, DispatchRow, Rows

\* Rows that agree count the same
LEMMA TriesSame ==
  ASSUME NEW row, NEW other, SameSoFar(row, other)
  PROVE  /\ Tries(row) = Tries(other)
         /\ Dispatchable(row) <=> Dispatchable(other)
  BY DEF Tries, SameSoFar, Dispatchable

\* The flows of a key, or the times it was queued, are finitely many
LEMMA CountType ==
  ASSUME NEW S, NEW list \in Seq(S), NEW key
  PROVE  /\ IsFiniteSet({n \in 1..Len(list) : list[n].key = key})
         /\ Count(key, list) \in Nat
<1> DEFINE mine == {n \in 1..Len(list) : list[n].key = key}
<1>1. Len(list) \in Int /\ 1 \in Int
  OBVIOUS
<1>2. IsFiniteSet(1..Len(list))
  BY <1>1, FS_Interval
<1>3. mine \in SUBSET (1..Len(list))
  OBVIOUS
<1>4. IsFiniteSet(mine)
  BY <1>2, <1>3, FS_Subset
<1>5. Cardinality(mine) \in Nat
  BY <1>4, FS_CardinalityType
<1>6. QED
  BY <1>4, <1>5 DEF Count

\* Deleting a flow changes no count
LEMMA CountSame ==
  ASSUME NEW made, NEW other, Len(made) = Len(other),
         \A f \in 1..Len(made) : other[f].key = made[f].key
  PROVE  \A key : Count(key, other) = Count(key, made)
<1>1. ASSUME NEW key
      PROVE  {f \in 1..Len(made) : made[f].key = key}
               = {f \in 1..Len(other) : other[f].key = key}
  OBVIOUS
<1>2. QED
  BY <1>1 DEF Count

\* A creation is one more flow for its key, a Save one more row queued
LEMMA CountMade ==
  ASSUME NEW S, NEW list \in Seq(S), NEW new \in S
  PROVE  /\ Count(new.key, Append(list, new)) = Count(new.key, list) + 1
         /\ \A key : key # new.key =>
              Count(key, Append(list, new)) = Count(key, list)
<1> DEFINE more == Append(list, new)
           Mine(key) == {n \in 1..Len(list) : list[n].key = key}
           Those(key) == {n \in 1..Len(more) : more[n].key = key}
<1>1. /\ Len(list) \in Nat /\ Len(more) = Len(list) + 1
      /\ more[Len(list) + 1] = new
      /\ \A n \in 1..Len(list) : more[n] = list[n]
  OBVIOUS
<1> HIDE DEF more
<1>2. Count(new.key, more) = Count(new.key, list) + 1
  <2> DEFINE mine == Mine(new.key)
             those == Those(new.key)
             last == Len(list) + 1
  <2>1. those = mine \cup {last} /\ last \notin mine
    BY <1>1
  <2>2. IsFiniteSet(mine) /\ Cardinality(mine) \in Nat
    BY CountType DEF Count
  <2>3. /\ Count(new.key, list) = Cardinality(mine)
        /\ Count(new.key, more) = Cardinality(those)
    BY DEF Count
  <2> HIDE DEF mine, those, last
  <2>4. Cardinality(mine \cup {last}) = Cardinality(mine) + 1
    BY <2>1, <2>2, FS_AddElement
  <2>5. QED
    BY <2>1, <2>2, <2>3, <2>4
<1>3. ASSUME NEW key, key # new.key
      PROVE  Count(key, more) = Count(key, list)
  <2>1. Those(key) = Mine(key)
    BY <1>1, <1>3
  <2>2. QED
    BY <2>1 DEF Count
<1>4. QED
  BY <1>2, <1>3 DEF more

\* What the operations on a copy count
LEMMA RowCounts ==
  ASSUME NEW row \in DispatchRow
  PROVE  /\ SameSoFar([row EXCEPT !.delete = NoFlow], row)
         /\ SameSoFar(MessageSent(row), row)
         /\ SameSoFar(MessageFailed(row), row)
         /\ Tries(Failed(row)) = row.retry + 1
         /\ Tries(Cleared(row)) = row.retry + 1
         /\ \A id \in Nat : Tries(Created(row, id)) = row.retry + 1
<1>1. SameSoFar([row EXCEPT !.delete = NoFlow], row)
  BY DEF SameSoFar, DispatchRow, Rows
<1>2. SameSoFar(MessageSent(row), row)
  BY DEF SameSoFar, MessageSent, DispatchRow, Rows
<1>3. SameSoFar(MessageFailed(row), row)
  BY DEF SameSoFar, MessageFailed, DispatchRow, Rows
<1>4. Tries(Failed(row)) = row.retry + 1
  <2>1. Failed(row).retry = row.retry + 1
    BY DEF Failed, DispatchRow, Rows
  <2>2. QED
    BY <2>1, FailedType DEF Tries
<1>5. Tries(Cleared(row)) = row.retry + 1
  <2>1. Cleared(row).retry = row.retry
    BY DEF Cleared, DispatchRow, Rows
  <2>2. QED
    BY <2>1, ClearedType DEF Tries
<1>6. ASSUME NEW id \in Nat PROVE Tries(Created(row, id)) = row.retry + 1
  <2>1. Created(row, id).retry = row.retry
    BY DEF Created, DispatchRow, Rows
  <2>2. QED
    BY <2>1, CreatedType DEF Tries
<1>7. QED
  BY <1>1, <1>2, <1>3, <1>4, <1>5, <1>6

\* A Save adds the row's key to those of the table, or changes none
LEMMA KeysAfterSave ==
  ASSUME TypeOK, NEW row \in DispatchRow, reports' = SaveReport(reports, row)
  PROVE  /\ \A key : Known(key, reports') <=> Known(key, reports) \/ key = row.key
         /\ Known(row.key, reports) =>
              /\ Len(reports') = Len(reports)
              /\ \A i \in 1..Len(reports) : reports'[i].key = reports[i].key
         /\ ~ Known(row.key, reports) => reports' = Append(reports, row)
<1>1. reports \in Seq(DispatchRow)
  BY TypeParts
<1>2. CASE FindByIdempotencyKey(reports, row.key) = {}
  <2>1. reports' = Append(reports, row) /\ ~ Known(row.key, reports)
    BY <1>2 DEF SaveReport, FindByIdempotencyKey, Known
  <2>2. /\ Len(reports') = Len(reports) + 1 /\ Len(reports) \in Nat
        /\ reports'[Len(reports) + 1] = row
        /\ \A i \in 1..Len(reports) : reports'[i] = reports[i]
    BY <1>1, <2>1
  <2>3. ASSUME NEW key PROVE Known(key, reports') <=> Known(key, reports) \/ key = row.key
    BY <2>2 DEF Known
  <2>4. QED
    BY <2>1, <2>3
<1>3. CASE FindByIdempotencyKey(reports, row.key) # {}
  <2>1. /\ Known(row.key, reports)
        /\ reports' = [i \in 1..Len(reports) |->
                         IF reports[i].key = row.key THEN row ELSE reports[i]]
    BY <1>3 DEF SaveReport, FindByIdempotencyKey, Known
  <2>2. reports' \in Seq(DispatchRow) /\ Len(reports') = Len(reports)
    BY <1>1, <2>1
  <2>3. \A i \in 1..Len(reports) : reports'[i].key = reports[i].key
    BY <2>1
  <2>4. ASSUME NEW key PROVE Known(key, reports') <=> Known(key, reports) \/ key = row.key
    BY <2>1, <2>2, <2>3 DEF Known
  <2>5. QED
    BY <2>1, <2>2, <2>3, <2>4
<1>4. QED
  BY <1>2, <1>3

-----------------------------------------------------------------------------
(* What a call does to the copy and to the flows *)

\* A call that may have made a flow is counted by the copy
LEMMA CallCounts ==
  ASSUME TypeOK, NEW c \in Callers, DispatchCall(c)
  PROVE  LET row == work[c].row
             new == work'[c].row
         IN  /\ \A key : key # row.key =>
                  Count(key, flows') = Count(key, flows)
             /\ \A f \in 1..Len(flows') :
                  \/ f <= Len(flows)
                  \/ /\ flows'[f].key = row.key
                     /\ work[c].pc \in {"begin", "create"}
             /\ \/ /\ \/ work[c].pc = "notify" /\ work'[c].pc = "save"
                      \/ work[c].pc = "begin" /\ work'[c].pc = "progress"
                   /\ SameSoFar(new, row)
                   /\ Count(row.key, flows') = Count(row.key, flows)
                \/ /\ work[c].pc \in {"begin", "create"}
                   /\ work'[c].pc \in {"save", "notify"}
                   /\ Tries(new) = row.retry + 1
                   /\ Count(row.key, flows') <= Count(row.key, flows) + 1
<1> DEFINE row == work[c].row
           new == work'[c].row
           Kept == \A key : Count(key, flows') = Count(key, flows)
           Old == \A f \in 1..Len(flows') : f <= Len(flows)
<1>1. work \in [Callers -> WorkState] /\ flows \in Seq(Flow) /\ Len(flows) \in Nat
  BY TypeParts
<1>2. /\ row \in DispatchRow /\ row.key \in DispatchKeys /\ row.old \in Nat
      /\ Count(row.key, flows) \in Nat
  <2>1. row \in DispatchRow
    BY DispatchedRow, HeldRow
  <2>2. QED
    BY <1>1, <2>1, CountType DEF DispatchRow, Rows
<1>3. flows' = flows => Kept /\ Old
  BY <1>1
<1>4. CASE Reject(c)
  <2>1. /\ new = Failed(row) /\ work'[c].pc = "save" /\ work[c].pc = "begin"
        /\ flows' = flows
    BY <1>1, <1>4 DEF Reject
  <2>2. Tries(new) = row.retry + 1
    BY <1>2, <2>1, RowCounts
  <2> HIDE DEF row, new
  <2>3. QED
    BY <1>2, <1>3, <2>1, <2>2 DEF row, new
<1>5. CASE DeleteFlow(c)
  <2> DEFINE kept == [row EXCEPT !.delete = NoFlow]
  <2>1. /\ work[c].pc = "begin"
        /\ \/ new = Failed(row) /\ work'[c].pc = "save"
           \/ new = Cleared(kept) /\ work'[c].pc = "save"
           \/ new = kept /\ work'[c].pc = "progress"
        /\ \/ flows' = flows
           \/ flows' = [flows EXCEPT ![row.delete].live = FALSE]
    BY <1>1, <1>5 DEF DeleteFlow
  <2>2. kept \in DispatchRow /\ SameSoFar(kept, row)
    BY <1>2, KeptType, RowCounts
  <2> HIDE DEF kept
  <2>3. /\ Tries(Failed(row)) = row.retry + 1
        /\ Tries(Cleared(kept)) = row.retry + 1
    BY <1>2, <2>2, RowCounts DEF SameSoFar
  <2>4. Kept /\ Old
    <3>1. CASE flows' = [flows EXCEPT ![row.delete].live = FALSE]
      <4>1. row.delete \in Nat
        BY <1>2 DEF DispatchRow, Rows
      <4>2. FlowsGrow
        BY <1>1, <3>1, <4>1, GoneFlows
      <4>3. Len(flows') = Len(flows)
        BY <1>1, <3>1
      <4>4. Kept
        BY <4>2, <4>3, CountSame DEF FlowsGrow
      <4>5. QED
        BY <1>1, <4>3, <4>4
    <3>2. QED
      BY <1>3, <2>1, <3>1
  <2> HIDE DEF row, new
  <2>5. QED
    BY <1>2, <2>1, <2>2, <2>3, <2>4 DEF row, new
<1>6. CASE ClearWithoutCreate(c)
  <2>1. /\ new = Cleared(row) /\ work'[c].pc = "save" /\ work[c].pc = "begin"
        /\ flows' = flows
    BY <1>1, <1>6 DEF ClearWithoutCreate
  <2>2. Tries(new) = row.retry + 1
    BY <1>2, <2>1, RowCounts
  <2> HIDE DEF row, new
  <2>3. QED
    BY <1>2, <1>3, <2>1, <2>2 DEF row, new
<1>7. CASE CreateFlow(c)
  <2> DEFINE flow == [key |-> row.key, old |-> row.old, live |-> TRUE]
             made == Append(flows, flow)
  <2>1. PICK answer \in Answers, id \in RecordIDs(made) :
          /\ flows' = IF answer = "error" THEN flows ELSE made
          /\ work' = [work EXCEPT ![c] =
               IF answer = "ok" THEN [pc |-> "notify", row |-> Created(row, id)]
               ELSE [pc |-> "save", row |-> Failed(row)]]
    BY <1>7 DEF CreateFlow
  <2>2. flow \in Flow /\ flow.key = row.key /\ id \in Nat
    <3>1. flow \in Flow /\ flow.key = row.key
      BY <1>2 DEF Flow
    <3>2. QED
      BY <1>1, <3>1, FlowsType
  <2>3. /\ work[c].pc \in {"begin", "create"}
        /\ work'[c].pc \in {"save", "notify"}
        /\ new \in {Created(row, id), Failed(row)}
    BY <1>1, <1>7, <2>1 DEF CreateFlow, ReadyToCreate
  <2>4. Tries(new) = row.retry + 1
    BY <1>2, <2>2, <2>3, RowCounts
  <2>5. CASE flows' = flows
    <3> HIDE DEF row, new
    <3>1. QED
      BY <1>2, <1>3, <2>3, <2>4, <2>5 DEF row, new
  <2>6. CASE flows' = made
    <3> HIDE DEF flow
    <3>1. /\ Count(row.key, flows') <= Count(row.key, flows) + 1
          /\ \A key : key # row.key => Count(key, flows') = Count(key, flows)
      <4>1. /\ Count(flow.key, Append(flows, flow)) = Count(flow.key, flows) + 1
            /\ \A key : key # flow.key =>
                 Count(key, Append(flows, flow)) = Count(key, flows)
        BY <1>1, <2>2, CountMade
      <4>2. QED
        BY <1>2, <2>2, <2>6, <4>1
    <3>2. Len(flows') = Len(flows) + 1 /\ flows'[Len(flows) + 1] = flow
      BY <1>1, <2>2, <2>6
    <3>3. \A f \in 1..Len(flows') : f <= Len(flows) \/ flows'[f].key = row.key
      BY <1>1, <2>2, <3>2
    <3> HIDE DEF row, new
    <3>4. QED
      BY <2>3, <2>4, <3>1, <3>3 DEF row, new
  <2>7. QED
    BY <2>1, <2>5, <2>6
<1>8. CASE Notify(c)
  <2>1. /\ new \in {MessageSent(row), MessageFailed(row)}
        /\ work'[c].pc = "save" /\ work[c].pc = "notify"
        /\ flows' = flows
    BY <1>1, <1>8 DEF Notify
  <2>2. SameSoFar(new, row)
    BY <1>2, <2>1, RowCounts
  <2> HIDE DEF row, new
  <2>3. QED
    BY <1>3, <2>1, <2>2 DEF row, new
<1>9. QED
  BY <1>4, <1>5, <1>6, <1>7, <1>8 DEF DispatchCall

-----------------------------------------------------------------------------
(* What is allowed *)

\* A product of counts is one
LEMMA Product ==
  ASSUME NEW a \in Nat, NEW b \in Nat
  PROVE  a * b \in Nat /\ a * (b + 1) = a * b + a
  OBVIOUS

\* A row queued again earns its key RetryLimit flows, a restart one
LEMMA AllowedGrows ==
  ASSUME NEW rows \in Seq(DispatchRow), NEW restarts \in Nat, NEW key
  PROVE  /\ Allowed(key, rows, restarts) \in Nat
         /\ Allowed(key, rows, restarts + 1) = Allowed(key, rows, restarts) + 1
         /\ \A row \in DispatchRow :
              /\ key = row.key =>
                   Allowed(key, Append(rows, row), restarts)
                     = Allowed(key, rows, restarts) + RetryLimit
              /\ key # row.key =>
                   Allowed(key, Append(rows, row), restarts)
                     = Allowed(key, rows, restarts)
<1> PICK n \in Nat : n = Count(key, rows)
  BY CountType
<1>1. RetryLimit \in Nat
  BY DispatcherAssumption
<1> PICK m \in Nat : m = RetryLimit * n
  BY <1>1, Product
<1>2. RetryLimit * (n + 1) = m + RetryLimit
  BY <1>1, Product
<1>3. \A any : Allowed(key, rows, any) = m + any
  BY DEF Allowed
<1>4. ASSUME NEW row \in DispatchRow, key = row.key
      PROVE  Allowed(key, Append(rows, row), restarts) = m + restarts + RetryLimit
  <2>1. Count(key, Append(rows, row)) = n + 1
    BY <1>4, CountMade
  <2>2. Allowed(key, Append(rows, row), restarts) = m + RetryLimit + restarts
    BY <1>2, <2>1 DEF Allowed
  <2>3. QED
    BY <1>1, <2>2
<1>5. ASSUME NEW row \in DispatchRow, key # row.key
      PROVE  Allowed(key, Append(rows, row), restarts) = m + restarts
  <2>1. Count(key, Append(rows, row)) = n
    BY <1>5, CountMade
  <2>2. QED
    BY <2>1 DEF Allowed
<1>6. QED
  BY <1>1, <1>3, <1>4, <1>5

\* All that is counted is a natural number
LEMMA LoopNumbers ==
  ASSUME TypeOK
  PROVE  /\ crashes \in Nat /\ RetryLimit \in Nat \ {0} /\ Len(reports) \in Nat
         /\ \A key : /\ Count(key, flows) \in Nat
                     /\ Allowed(key, queued, crashes) \in Nat
         /\ \A i \in 1..Len(reports) :
              reports[i] \in DispatchRow /\ Tries(reports[i]) \in Nat
         /\ \A i \in DOMAIN queue :
              /\ i \in 1..Len(reports)
              /\ queue[i] \in DispatchRow /\ Tries(queue[i]) \in Nat
         /\ \A i \in DOMAIN notices :
              /\ i \in 1..Len(reports)
              /\ notices[i] \in DispatchRow /\ Tries(notices[i]) \in Nat
         /\ Held => /\ work[Worker].row \in DispatchRow
                    /\ Tries(work[Worker].row) \in Nat
                    /\ work[Worker].row.retry \in Nat
<1>1. /\ reports \in Seq(DispatchRow) /\ flows \in Seq(Flow)
      /\ queued \in Seq(DispatchRow) /\ crashes \in 0..MaxCrashes
      /\ CopiesOK(queue) /\ CopiesOK(notices)
  BY TypeParts
<1>2. crashes \in Nat /\ RetryLimit \in Nat \ {0} /\ Len(reports) \in Nat
  BY <1>1, DispatcherAssumption
<1>3. \A key : Count(key, flows) \in Nat /\ Allowed(key, queued, crashes) \in Nat
  BY <1>1, <1>2, CountType, AllowedGrows
<1>4. \A i \in 1..Len(reports) : reports[i] \in DispatchRow /\ Tries(reports[i]) \in Nat
  BY <1>1, TriesType, ElementOfSeq
<1>5. \A i \in DOMAIN queue : /\ i \in 1..Len(reports)
                              /\ queue[i] \in DispatchRow /\ Tries(queue[i]) \in Nat
  BY <1>1, TriesType DEF CopiesOK
<1>6. \A i \in DOMAIN notices : /\ i \in 1..Len(reports)
                                /\ notices[i] \in DispatchRow /\ Tries(notices[i]) \in Nat
  BY <1>1, TriesType DEF CopiesOK
<1>7. Held => /\ work[Worker].row \in DispatchRow
              /\ Tries(work[Worker].row) \in Nat
              /\ work[Worker].row.retry \in Nat
  BY WorkerIsCaller, HeldRow, TriesType DEF Held
<1>8. QED
  BY <1>2, <1>3, <1>4, <1>5, <1>6, <1>7

\* Whatever is in flight, no key has more flows than it is allowed
LEMMA FlowsAllowed ==
  ASSUME TypeOK, LoopInv, NEW key
  PROVE  Count(key, flows) <= Allowed(key, queued, crashes)
<1>1. CASE ~ Known(key, reports)
  <2>1. {f \in 1..Len(flows) : flows[f].key = key} = {}
    BY <1>1 DEF LoopInv, SourcesInv
  <2>2. Count(key, flows) = 0
    BY <2>1, FS_EmptySet DEF Count
  <2>3. QED
    BY <2>2, LoopNumbers
<1>2. CASE Known(key, reports)
  <2>1. PICK i \in 1..Len(reports) : reports[i].key = key
    BY <1>2 DEF Known
  <2>2. CASE HeldRowIs(i) /\ PastCall
    <3>1. Within(work[Worker].row, 0) /\ work[Worker].row.key = key /\ Held
      BY <2>1, <2>2 DEF LoopInv, HandInv, HeldRowIs
    <3>2. QED
      BY <3>1, LoopNumbers DEF Within
  <2>3. CASE Within(reports[i], 0)
    BY <2>1, <2>3, LoopNumbers DEF Within
  <2>4. QED
    BY <2>2, <2>3 DEF LoopInv, TableInv
<1>3. QED
  BY <1>1, <1>2

-----------------------------------------------------------------------------
(* Each step keeps every copy within what its key is allowed *)

\* The writers and the loop are different callers
LEMMA LoopIsNoWriter ==
  Worker \in Callers /\ Worker \notin Writers /\ Writers \subseteq Callers
  BY WorkerIsCaller, DispatcherAssumption DEF Worker

\* A row being built has not been tried
LEMMA LoopBuild ==
  ASSUME TypeOK, LoopInv, Requests = {}, Builds
  PROVE  LoopInv'
<1>1. PICK c \in Writers, row \in NewRows :
        /\ \A d \in Callers : d # c => work'[d] = work[d]
        /\ work'[c].row = row
        /\ UNCHANGED <<reports, flows, messages, queue, notices, crashes, queued>>
  BY BuiltCopies
<1>2. row.status = "pending" /\ row.retry = 0
  BY NewRowsType, TypeParts
<1>3. work'[Worker] = work[Worker]
  BY <1>1, LoopIsNoWriter
<1>4. SourcesInv'
  <2>1. \A w \in Writers : w = c \/ work'[w] = work[w]
    BY <1>1, LoopIsNoWriter
  <2>2. \A w \in Writers :
          work'[w].pc = "queue" => work'[w].row.status = "pending" /\ work'[w].row.retry = 0
    BY <1>1, <1>2, <2>1 DEF LoopInv, SourcesInv
  <2>3. QED
    BY <1>1, <2>2 DEF LoopInv, SourcesInv
<1>5. TableInv'
  BY <1>1, <1>3 DEF LoopInv, TableInv, Within, HeldRowIs, Held, PastCall
<1>6. ListsInv' /\ UniqueKeys'
  BY <1>1 DEF LoopInv, ListsInv, UniqueKeys, Within
<1>7. HandInv'
  BY <1>1, <1>3 DEF LoopInv, HandInv, Within, HeldRowIs, Held
<1>8. QED
  BY <1>4, <1>5, <1>6, <1>7 DEF LoopInv

\* Growing the allowance, or leaving the flows alone, keeps a copy within it
LEMMA StillWithin ==
  ASSUME TypeOK, queued' \in Seq(DispatchRow), flows' = flows, crashes' = crashes,
         queued' = queued \/ \E row \in DispatchRow : queued' = Append(queued, row)
  PROVE  \A row \in DispatchRow, slack \in {0, 1} :
           Within(row, slack) =>
             /\ Tries(row) <= RetryLimit
             /\ Count(row.key, flows') + RetryLimit
                  <= Allowed(row.key, queued', crashes') + Tries(row) + slack
<1> SUFFICES ASSUME NEW row \in DispatchRow, NEW slack \in {0, 1}, Within(row, slack)
             PROVE  Count(row.key, flows) + RetryLimit
                      <= Allowed(row.key, queued', crashes) + Tries(row) + slack
  BY DEF Within
<1>1. Count(row.key, flows) + RetryLimit
        <= Allowed(row.key, queued, crashes) + Tries(row) + slack
  BY DEF Within
<1>2. /\ queued \in Seq(DispatchRow) /\ crashes \in Nat /\ RetryLimit \in Nat
      /\ Allowed(row.key, queued, crashes) \in Nat
      /\ Tries(row) \in Nat /\ Count(row.key, flows) \in Nat
  BY TypeParts, LoopNumbers, TriesType
<1>3. /\ Allowed(row.key, queued, crashes) <= Allowed(row.key, queued', crashes)
      /\ Allowed(row.key, queued', crashes) \in Nat
  <2>1. CASE queued' = queued
    BY <1>2, <2>1
  <2>2. ASSUME NEW other \in DispatchRow, queued' = Append(queued, other)
        PROVE  \/ Allowed(row.key, queued', crashes)
                    = Allowed(row.key, queued, crashes) + RetryLimit
               \/ Allowed(row.key, queued', crashes) = Allowed(row.key, queued, crashes)
    <3> PICK key : key = row.key
      OBVIOUS
    <3>1. queued \in Seq(DispatchRow) /\ crashes \in Nat
      BY <1>2
    <3>2. \A new \in DispatchRow :
            /\ key = new.key => Allowed(key, Append(queued, new), crashes)
                                  = Allowed(key, queued, crashes) + RetryLimit
            /\ key # new.key => Allowed(key, Append(queued, new), crashes)
                                  = Allowed(key, queued, crashes)
      BY <3>1, AllowedGrows
    <3>3. \/ Allowed(key, Append(queued, other), crashes)
               = Allowed(key, queued, crashes) + RetryLimit
          \/ Allowed(key, Append(queued, other), crashes) = Allowed(key, queued, crashes)
      BY <2>2, <3>2
    <3>4. QED
      BY <2>2, <3>3
  <2>3. QED
    BY <1>2, <2>1, <2>2
<1>4. QED
  BY <1>1, <1>2, <1>3

\* A queued row, old or new, is allowed RetryLimit flows more
LEMMA LoopQueue ==
  ASSUME TypeOK, LoopInv, NEW w \in Writers, SaveQueued(w)
  PROVE  LoopInv'
<1> DEFINE row == work[w].row
<1>1. /\ w \in Callers /\ Worker \in Callers /\ w # Worker
      /\ work \in [Callers -> WorkState]
      /\ reports \in Seq(DispatchRow) /\ queued \in Seq(DispatchRow)
      /\ UNCHANGED <<flows, queue, notices, crashes>>
  BY TypeParts, LoopIsNoWriter DEF SaveQueued
<1>2. /\ row \in DispatchRow /\ row.status = "pending" /\ row.retry = 0
  BY <1>1, HeldRow DEF SaveQueued, RowPCs, LoopInv, SourcesInv
<1>3. /\ work'[Worker] = work[Worker]
      /\ \A v \in Writers : work'[v] = work[v] \/ work'[v] = Idle
      /\ reports' = SaveReport(reports, row) /\ queued' = Append(queued, row)
  BY <1>1, LoopIsNoWriter DEF SaveQueued
<1> HIDE DEF row
<1>4. /\ queued' \in Seq(DispatchRow) /\ reports' \in Seq(DispatchRow)
      /\ Len(reports) \in Nat /\ Len(reports') \in Nat /\ Len(reports) <= Len(reports')
  BY <1>1, <1>2, <1>3, SavedType
<1>5. /\ \A key : Known(key, reports') <=> Known(key, reports) \/ key = row.key
      /\ \A i \in 1..Len(reports) :
           /\ reports'[i].key = reports[i].key
           /\ reports'[i] = IF reports[i].key = row.key THEN row ELSE reports[i]
      /\ \A i \in 1..Len(reports') :
           i \in 1..Len(reports) \/ (reports'[i] = row /\ ~ Known(row.key, reports))
      /\ UniqueKeys'
  <2>1. \A key : Known(key, reports') <=> Known(key, reports) \/ key = row.key
    BY <1>2, <1>3, KeysAfterSave
  <2>2. CASE Known(row.key, reports)
    <3>1. /\ Len(reports') = Len(reports)
          /\ \A i \in 1..Len(reports) : reports'[i].key = reports[i].key
      BY <1>2, <1>3, <2>2, KeysAfterSave
    <3>2. reports' = [i \in 1..Len(reports) |->
                        IF reports[i].key = row.key THEN row ELSE reports[i]]
      BY <1>3, <2>2 DEF SaveReport, FindByIdempotencyKey, Known
    <3>3. QED
      BY <2>1, <3>1, <3>2 DEF LoopInv, UniqueKeys
  <2>3. CASE ~ Known(row.key, reports)
    <3>1. reports' = Append(reports, row)
      BY <1>2, <1>3, <2>3, KeysAfterSave
    <3>2. /\ Len(reports') = Len(reports) + 1 /\ reports'[Len(reports) + 1] = row
          /\ \A i \in 1..Len(reports) : reports'[i] = reports[i]
      BY <1>1, <1>2, <3>1
    <3>3. \A i \in 1..Len(reports) : reports[i].key # row.key
      BY <2>3 DEF Known
    <3>4. \A i \in 1..Len(reports') : i \in 1..Len(reports) \/ i = Len(reports) + 1
      BY <1>4, <3>2
    <3>5. UniqueKeys'
      BY <3>2, <3>3, <3>4 DEF LoopInv, UniqueKeys
    <3>6. QED
      BY <2>1, <2>3, <3>2, <3>3, <3>4, <3>5
  <2>4. QED
    BY <2>2, <2>3
<1>6. /\ Tries(row) <= RetryLimit
      /\ \A slack \in {0, 1} :
           Count(row.key, flows') + RetryLimit
             <= Allowed(row.key, queued', crashes') + Tries(row) + slack
  <2>1. Tries(row) = 0 /\ RetryLimit \in Nat
    BY <1>2, LoopNumbers DEF Tries
  <2>2. Count(row.key, flows) <= Allowed(row.key, queued, crashes)
    BY FlowsAllowed
  <2>3. /\ Allowed(row.key, queued', crashes)
             = Allowed(row.key, queued, crashes) + RetryLimit
        /\ Allowed(row.key, queued, crashes) \in Nat /\ Count(row.key, flows) \in Nat
    BY <1>1, <1>2, <1>3, LoopNumbers, AllowedGrows
  <2>4. QED
    BY <1>1, <2>1, <2>2, <2>3
<1>7. \A other \in DispatchRow, slack \in {0, 1} :
        Within(other, slack) =>
          /\ Tries(other) <= RetryLimit
          /\ Count(other.key, flows') + RetryLimit
               <= Allowed(other.key, queued', crashes') + Tries(other) + slack
  BY <1>1, <1>2, <1>3, <1>4, StillWithin
<1>8. \A i \in 1..Len(reports') :
        HeldRowIs(i)' => i \in 1..Len(reports) /\ HeldRowIs(i)
  BY <1>3, <1>5 DEF HeldRowIs, Held, LoopInv, HandInv
<1>9. SourcesInv'
  BY <1>1, <1>3, <1>5 DEF LoopInv, SourcesInv, Idle
<1>10. TableInv'
  <2>1. ASSUME NEW i \in 1..Len(reports')
        PROVE  Within(reports[i], 1)' /\ (Within(reports[i], 0)' \/ (HeldRowIs(i) /\ PastCall)')
    <3>1. CASE reports'[i] = row
      BY <1>6, <3>1 DEF Within
    <3>2. CASE i \in 1..Len(reports) /\ reports'[i] = reports[i]
      <4>1. /\ Within(reports[i], 1)
            /\ Within(reports[i], 0) \/ (HeldRowIs(i) /\ PastCall)
            /\ reports[i] \in DispatchRow
        BY <3>2, LoopNumbers DEF LoopInv, TableInv
      <4>2. (HeldRowIs(i) /\ PastCall) => (HeldRowIs(i) /\ PastCall)'
        BY <1>3, <3>2 DEF HeldRowIs, Held, PastCall
      <4>3. QED
        BY <1>7, <3>2, <4>1, <4>2 DEF Within
    <3>3. QED
      BY <1>5, <3>1, <3>2
  <2>2. QED
    BY <2>1 DEF TableInv
<1>11. ListsInv'
  <2>1. ASSUME NEW i \in DOMAIN queue
        PROVE  /\ queue[i].key = reports'[i].key
               /\ Dispatchable(queue[i]) /\ Within(queue[i], 0)'
               /\ reports'[i].status # "success"
    <3>1. i \in 1..Len(reports) /\ queue[i] \in DispatchRow
      BY LoopNumbers
    <3>2. Within(queue[i], 0)'
      BY <1>1, <1>7, <3>1 DEF LoopInv, ListsInv, Within
    <3>3. QED
      BY <1>2, <1>5, <3>1, <3>2 DEF LoopInv, ListsInv
  <2>2. ASSUME NEW i \in DOMAIN notices
        PROVE  /\ notices[i].key = reports'[i].key
               /\ notices[i].status = "success" /\ Within(notices[i], 0)'
               /\ reports'[i].status = "success" => notices[i].ext = reports'[i].ext
               /\ i \notin DOMAIN queue
    <3>1. i \in 1..Len(reports) /\ notices[i] \in DispatchRow
      BY LoopNumbers
    <3>2. Within(notices[i], 0)'
      BY <1>1, <1>7, <3>1 DEF LoopInv, ListsInv, Within
    <3>3. QED
      BY <1>2, <1>5, <3>1, <3>2 DEF LoopInv, ListsInv
  <2>3. QED
    BY <1>1, <2>1, <2>2 DEF ListsInv
<1>12. HandInv'
  <2>1. Held' => Held /\ work[Worker].row \in DispatchRow
    BY <1>3, LoopNumbers DEF Held
  <2>2. Held' => Within(work[Worker].row, 0)'
    BY <1>3, <1>7, <2>1 DEF LoopInv, HandInv, Within
  <2>3. ASSUME NEW i \in 1..Len(reports'), HeldRowIs(i)'
        PROVE  /\ i \notin DOMAIN queue /\ i \notin DOMAIN notices
               /\ work[Worker].pc \in Undecided => reports'[i].status # "success"
               /\ reports'[i].status = "success" =>
                    /\ work[Worker].row.status = "success"
                    /\ work[Worker].row.ext = reports'[i].ext
    BY <1>2, <1>5, <1>8, <2>3 DEF LoopInv, HandInv
  <2>4. QED
    BY <1>1, <1>3, <1>5, <2>1, <2>2, <2>3 DEF LoopInv, HandInv
<1>13. QED
  BY <1>5, <1>9, <1>10, <1>11, <1>12 DEF LoopInv

\* A row that is listed is not in the loop's hands, and on one list only
LEMMA LoopList ==
  ASSUME TypeOK, LoopInv, ListDispatchable \/ ListNotificationDispatchable
  PROVE  LoopInv'
<1>1. /\ reports \in Seq(DispatchRow) /\ work \in [Callers -> WorkState]
      /\ UNCHANGED <<reports, flows, crashes, queued>>
      /\ \A w \in Writers : work'[w] = work[w]
  BY TypeParts, LoopIsNoWriter DEF ListDispatchable, ListNotificationDispatchable
<1>2. ~ Held /\ ~ Held'
  BY <1>1, LoopIsNoWriter
  DEF ListDispatchable, ListNotificationDispatchable, Idle, RowPCs, Held
<1>3. \A i \in 1..Len(reports) : Within(reports[i], 0)
  BY <1>2 DEF LoopInv, TableInv, HeldRowIs
<1>4. ListsInv'
  <2>1. CASE ListDispatchable
    <3>1. /\ queue' = Batch({i \in 1..Len(reports) : Dispatchable(reports[i])})
          /\ notices' = notices /\ DOMAIN notices = {}
      BY <2>1 DEF ListDispatchable
    <3>2. \A i \in DOMAIN queue' : /\ i \in 1..Len(reports)
                                   /\ queue'[i] = reports[i] /\ Dispatchable(reports[i])
      BY <1>1, <3>1, BatchType
    <3>3. QED
      BY <1>1, <1>3, <3>1, <3>2 DEF ListsInv, Dispatchable, Within
  <2>2. CASE ListNotificationDispatchable
    <3>1. /\ notices' = Batch({i \in 1..Len(reports) : NotificationDispatchable(reports[i])})
          /\ queue' = queue
      BY <2>2 DEF ListNotificationDispatchable
    <3>2. \A i \in DOMAIN notices' :
            /\ i \in 1..Len(reports)
            /\ notices'[i] = reports[i] /\ reports[i].status = "success"
      BY <1>1, <3>1, BatchType DEF NotificationDispatchable
    <3>3. QED
      BY <1>1, <1>3, <3>1, <3>2 DEF LoopInv, ListsInv, Within
  <2>3. QED
    BY <2>1, <2>2
<1>5. SourcesInv' /\ UniqueKeys'
  BY <1>1 DEF LoopInv, SourcesInv, UniqueKeys
<1>6. TableInv'
  BY <1>1, <1>3 DEF LoopInv, TableInv, Within
<1>7. HandInv'
  BY <1>2 DEF HandInv, HeldRowIs
<1>8. QED
  BY <1>4, <1>5, <1>6, <1>7 DEF LoopInv

\* The copy that is taken is within its key's allowance, and on no list any more
LEMMA LoopTake ==
  ASSUME TypeOK, LoopInv, TakeReport \/ TakeNotification
  PROVE  LoopInv'
<1>1. /\ reports \in Seq(DispatchRow) /\ work \in [Callers -> WorkState]
      /\ CopiesOK(queue) /\ CopiesOK(notices)
      /\ Worker \in Callers
      /\ UNCHANGED <<reports, flows, crashes, queued>>
      /\ \A w \in Writers : work'[w] = work[w]
  BY TypeParts, LoopIsNoWriter DEF TakeReport, TakeNotification
<1>2. ~ Held
  BY DEF TakeReport, TakeNotification, Idle, RowPCs, Held
<1>3. \A i \in 1..Len(reports) : Within(reports[i], 0)
  BY <1>2 DEF LoopInv, TableInv, HeldRowIs
<1>4. PICK i \in 1..Len(reports), row \in DispatchRow :
        /\ work'[Worker].row = row /\ row.key = reports[i].key /\ Within(row, 0)
        /\ i \notin DOMAIN queue' /\ i \notin DOMAIN notices'
        /\ \/ /\ work'[Worker].pc = "begin" /\ Dispatchable(row)
              /\ reports[i].status # "success"
           \/ /\ work'[Worker].pc = "notify" /\ row.status = "success"
              /\ reports[i].status = "success" => row.ext = reports[i].ext
        /\ \A j \in DOMAIN queue' : j \in DOMAIN queue /\ queue'[j] = queue[j]
        /\ \A j \in DOMAIN notices' : j \in DOMAIN notices /\ notices'[j] = notices[j]
  <2>1. CASE TakeReport
    <3>1. /\ First(queue) \in DOMAIN queue /\ First(queue) \in 1..Len(reports)
          /\ queue[First(queue)] \in DispatchRow
      BY <1>1, <2>1, FirstOfList DEF TakeReport, CopiesOK
    <3>2. /\ work'[Worker] = [pc |-> "begin", row |-> queue[First(queue)]]
          /\ queue' = Rest(queue) /\ notices' = notices
      BY <1>1, <2>1 DEF TakeReport
    <3>3. First(queue) \notin DOMAIN queue'
      BY <3>2 DEF Rest
    <3>4. \A j \in DOMAIN queue' : j \in DOMAIN queue /\ queue'[j] = queue[j]
      BY <1>1, <3>2, RestOfList
    <3>5. /\ queue[First(queue)].key = reports[First(queue)].key
          /\ Dispatchable(queue[First(queue)]) /\ Within(queue[First(queue)], 0)
          /\ reports[First(queue)].status # "success"
          /\ First(queue) \notin DOMAIN notices
      BY <3>1 DEF LoopInv, ListsInv
    <3>6. QED
      BY <3>1, <3>2, <3>3, <3>4, <3>5
  <2>2. CASE TakeNotification
    <3>1. /\ First(notices) \in DOMAIN notices /\ First(notices) \in 1..Len(reports)
          /\ notices[First(notices)] \in DispatchRow
      BY <1>1, <2>2, FirstOfList DEF TakeNotification, CopiesOK
    <3>2. /\ work'[Worker] = [pc |-> "notify", row |-> notices[First(notices)]]
          /\ notices' = Rest(notices) /\ queue' = queue /\ DOMAIN queue = {}
      BY <1>1, <2>2 DEF TakeNotification
    <3>3. First(notices) \notin DOMAIN notices'
      BY <3>2 DEF Rest
    <3>4. \A j \in DOMAIN notices' : j \in DOMAIN notices /\ notices'[j] = notices[j]
      BY <1>1, <3>2, RestOfList
    <3>5. /\ notices[First(notices)].key = reports[First(notices)].key
          /\ notices[First(notices)].status = "success"
          /\ Within(notices[First(notices)], 0)
          /\ reports[First(notices)].status = "success"
               => notices[First(notices)].ext = reports[First(notices)].ext
      BY <3>1 DEF LoopInv, ListsInv
    <3>6. QED
      BY <3>1, <3>2, <3>3, <3>4, <3>5
  <2>3. QED
    BY <2>1, <2>2
<1>5. \A j \in 1..Len(reports) : HeldRowIs(j)' => j = i
  BY <1>1, <1>4 DEF LoopInv, UniqueKeys, HeldRowIs
<1>6. ListsInv'
  BY <1>1, <1>4 DEF LoopInv, ListsInv, Within
<1>7. HandInv'
  <2>1. Known(row.key, reports)
    BY <1>4 DEF Known
  <2>2. Within(work[Worker].row, 0)'
    BY <1>1, <1>4 DEF Within
  <2>3. QED
    BY <1>1, <1>4, <1>5, <2>1, <2>2 DEF HandInv, Undecided
<1>8. TableInv'
  BY <1>1, <1>3 DEF LoopInv, TableInv, Within
<1>9. UniqueKeys' /\ SourcesInv'
  BY <1>1 DEF LoopInv, UniqueKeys, SourcesInv
<1>10. QED
  BY <1>6, <1>7, <1>8, <1>9 DEF LoopInv

\* A call is counted by the copy in the loop's hands
LEMMA LoopCall ==
  ASSUME TypeOK, LoopInv, DispatchCall(Worker)
  PROVE  LoopInv'
<1> DEFINE row == work[Worker].row
           new == work'[Worker].row
<1>1. /\ Worker \in Callers
      /\ UNCHANGED <<reports, queue, notices, crashes, queued>>
      /\ \A w \in Writers : work'[w] = work[w]
  BY LoopIsNoWriter, CallChanges
<1>2. /\ Held /\ Held' /\ row \in DispatchRow /\ new.key = row.key
      /\ work'[Worker].pc \in {"save", "progress", "notify"}
  BY <1>1, DispatchedRow, HeldRow DEF Held, RowPCs
<1>3. \A i \in 1..Len(reports) : HeldRowIs(i)' <=> HeldRowIs(i)
  BY <1>1, <1>2 DEF HeldRowIs
<1>4. /\ \A key : key # row.key => Count(key, flows') = Count(key, flows)
      /\ \/ /\ \/ work[Worker].pc = "notify" /\ work'[Worker].pc = "save"
               \/ work[Worker].pc = "begin" /\ work'[Worker].pc = "progress"
            /\ SameSoFar(new, row)
            /\ Count(row.key, flows') = Count(row.key, flows)
         \/ /\ work[Worker].pc \in {"begin", "create"}
            /\ work'[Worker].pc \in {"save", "notify"}
            /\ Tries(new) = row.retry + 1
            /\ Count(row.key, flows') <= Count(row.key, flows) + 1
  BY <1>1, CallCounts
<1>5. Count(row.key, flows') \in Nat
  <2>1. TypeOK'
    BY <1>1, DispatchTypes DEF DispatchCall, DispatchStep
  <2>2. flows' \in Seq(Flow)
    BY <2>1 DEF TypeOK, Flow
  <2>3. QED
    BY <2>2, CountType
<1>6. /\ row.retry \in Nat /\ Tries(row) \in Nat /\ RetryLimit \in Nat
      /\ Count(row.key, flows) \in Nat /\ Allowed(row.key, queued, crashes) \in Nat
  BY <1>2, LoopNumbers DEF row
<1>7. /\ Within(row, 0) /\ Known(row.key, reports)
      /\ work[Worker].pc \in Undecided => Dispatchable(row)
  BY <1>2 DEF LoopInv, HandInv
<1> HIDE DEF row, new
<1>8. ASSUME \/ work[Worker].pc = "notify" /\ work'[Worker].pc = "save"
             \/ work[Worker].pc = "begin" /\ work'[Worker].pc = "progress",
             SameSoFar(new, row),
             Count(row.key, flows') = Count(row.key, flows)
      PROVE  HandInv' /\ TableInv' /\ ListsInv' /\ UniqueKeys'
  <2>1. Tries(new) = Tries(row) /\ (Dispatchable(new) <=> Dispatchable(row))
    BY <1>8, TriesSame
  <2>2. \A key : Count(key, flows') = Count(key, flows)
    BY <1>4, <1>8
  <2>3. HandInv'
    <3>1. Within(work[Worker].row, 0)'
      BY <1>1, <1>2, <1>7, <2>1, <2>2 DEF Within, new
    <3>2. ASSUME NEW i \in 1..Len(reports), HeldRowIs(i)
          PROVE  /\ i \notin DOMAIN queue /\ i \notin DOMAIN notices
                 /\ work'[Worker].pc \in Undecided => reports[i].status # "success"
                 /\ reports[i].status = "success" =>
                      new.status = "success" /\ new.ext = reports[i].ext
      BY <1>8, <3>2 DEF LoopInv, HandInv, Undecided, SameSoFar, row
    <3>3. Held' => /\ Known(new.key, reports)
                   /\ work'[Worker].pc \in Undecided => Dispatchable(new)
                   /\ work'[Worker].pc \notin {"queue", "insert"}
      BY <1>2, <1>7, <1>8, <2>1 DEF Undecided
    <3>4. QED
      BY <1>1, <1>3, <3>1, <3>2, <3>3 DEF HandInv, new
  <2>4. TableInv'
    BY <1>1, <1>3, <1>8, <2>2 DEF LoopInv, TableInv, Within, PastCall
  <2>5. ListsInv'
    BY <1>1, <2>2 DEF LoopInv, ListsInv, Within
  <2>6. UniqueKeys'
    BY <1>1 DEF LoopInv, UniqueKeys
  <2>7. QED
    BY <2>3, <2>4, <2>5, <2>6
<1>9. ASSUME work[Worker].pc \in {"begin", "create"},
             work'[Worker].pc \in {"save", "notify"},
             Tries(new) = row.retry + 1,
             Count(row.key, flows') <= Count(row.key, flows) + 1
      PROVE  HandInv' /\ TableInv' /\ ListsInv' /\ UniqueKeys'
  <2>1. Tries(row) = row.retry /\ row.retry < RetryLimit
    BY <1>7, <1>9 DEF Undecided, Dispatchable, Tries
  <2>2. PastCall' /\ ~ PastCall /\ work'[Worker].pc \notin Undecided
    BY <1>9 DEF PastCall, Undecided
  <2>3. HandInv'
    <3>1. Within(work[Worker].row, 0)'
      <4>1. Count(row.key, flows) + RetryLimit
              <= Allowed(row.key, queued, crashes) + Tries(row)
        BY <1>6, <1>7 DEF Within
      <4>2. /\ Tries(new) <= RetryLimit
            /\ Count(new.key, flows') + RetryLimit
                 <= Allowed(new.key, queued, crashes) + Tries(new) + 0
        BY <1>2, <1>5, <1>6, <1>9, <2>1, <4>1
      <4>3. QED
        BY <1>1, <4>2 DEF Within, new
    <3>2. ASSUME NEW i \in 1..Len(reports), HeldRowIs(i)
          PROVE  /\ i \notin DOMAIN queue /\ i \notin DOMAIN notices
                 /\ reports[i].status # "success"
      BY <1>9, <3>2 DEF LoopInv, HandInv, Undecided
    <3>3. QED
      BY <1>1, <1>2, <1>3, <1>7, <2>2, <3>1, <3>2 DEF HandInv, new
  <2>4. TableInv'
    <3>1. ASSUME NEW i \in 1..Len(reports)
          PROVE  /\ Within(reports[i], 1)'
                 /\ HeldRowIs(i) \/ Within(reports[i], 0)'
      <4>1. Within(reports[i], 0) /\ Within(reports[i], 1)
        BY <2>2 DEF LoopInv, TableInv
      <4>2. /\ reports[i] \in DispatchRow /\ Tries(reports[i]) \in Nat
            /\ Count(reports[i].key, flows) \in Nat
            /\ Allowed(reports[i].key, queued, crashes) \in Nat
        BY LoopNumbers
      <4>3. CASE HeldRowIs(i)
        <5>1. reports[i].key = row.key
          BY <4>3 DEF HeldRowIs, row
        <5>2. Count(reports[i].key, flows') + RetryLimit
                <= Allowed(reports[i].key, queued, crashes) + Tries(reports[i]) + 1
          BY <1>5, <1>6, <1>9, <4>1, <4>2, <5>1 DEF Within
        <5>3. Within(reports[i], 1)'
          BY <1>1, <4>1, <5>2 DEF Within
        <5>4. QED
          BY <4>3, <5>3
      <4>4. CASE ~ HeldRowIs(i)
        <5>1. reports[i].key # row.key
          BY <1>2, <4>4 DEF HeldRowIs, row
        <5>2. QED
          BY <1>1, <1>4, <4>1, <5>1 DEF Within
      <4>5. QED
        BY <4>3, <4>4
    <3>2. QED
      BY <1>1, <1>3, <2>2, <3>1 DEF TableInv
  <2>5. ListsInv'
    <3>1. \A i \in DOMAIN queue : queue[i].key = reports[i].key /\ queue[i].key # row.key
      BY <1>2, LoopNumbers DEF LoopInv, ListsInv, HandInv, HeldRowIs, row
    <3>2. \A i \in DOMAIN notices : notices[i].key = reports[i].key /\ notices[i].key # row.key
      BY <1>2, LoopNumbers DEF LoopInv, ListsInv, HandInv, HeldRowIs, row
    <3>3. QED
      BY <1>1, <1>4, <3>1, <3>2 DEF LoopInv, ListsInv, Within
  <2>6. UniqueKeys'
    BY <1>1 DEF LoopInv, UniqueKeys
  <2>7. QED
    BY <2>3, <2>4, <2>5, <2>6
<1>10. SourcesInv'
  <2>1. FlowsGrow
        /\ \A f \in 1..Len(flows') : f \in 1..Len(flows) \/ flows'[f].key = row.key
    BY <1>1, CallFlows DEF row
  <2>2. \A f \in 1..Len(flows') : Known(flows'[f].key, reports)
    BY <1>7, <2>1 DEF LoopInv, SourcesInv, FlowsGrow
  <2>3. QED
    BY <1>1, <2>2 DEF LoopInv, SourcesInv
<1>11. HandInv' /\ TableInv' /\ ListsInv' /\ UniqueKeys'
  BY <1>4, <1>8, <1>9
<1>12. QED
  BY <1>10, <1>11 DEF LoopInv

\* The copy becomes the row
LEMMA LoopSave ==
  ASSUME TypeOK, LoopInv, SaveProgress(Worker) \/ Save(Worker)
  PROVE  LoopInv'
<1> DEFINE row == work[Worker].row
<1>1. /\ work \in [Callers -> WorkState] /\ Worker \in Callers
      /\ reports \in Seq(DispatchRow)
      /\ UNCHANGED <<flows, queue, notices, crashes, queued>>
      /\ \A w \in Writers : work'[w] = work[w]
  BY TypeParts, LoopIsNoWriter DEF SaveProgress, Save
<1>2. /\ Held /\ row \in DispatchRow
      /\ work[Worker] = [pc |-> work[Worker].pc, row |-> row]
  BY <1>1, HeldRow DEF SaveProgress, Save, RowPCs, Held
<1>3. /\ Known(row.key, reports) /\ Within(row, 0)
      /\ work[Worker].pc \in Undecided => Dispatchable(row)
  BY <1>2 DEF LoopInv, HandInv
<1>4. /\ reports' = [i \in 1..Len(reports) |->
                       IF reports[i].key = row.key THEN row ELSE reports[i]]
      /\ Len(reports') = Len(reports)
  <2>1. reports' = SaveReport(reports, row)
    BY DEF SaveProgress, Save
  <2>2. FindByIdempotencyKey(reports, row.key) # {}
    BY <1>3 DEF Known, FindByIdempotencyKey
  <2>3. Len(reports') = Len(reports)
    BY <1>1, <1>2, <1>3, <2>1, KeysAfterSave
  <2>4. QED
    BY <2>1, <2>2, <2>3 DEF SaveReport
<1>5. \A i \in 1..Len(reports) :
        /\ reports'[i].key = reports[i].key
        /\ HeldRowIs(i) => reports'[i] = row
        /\ ~ HeldRowIs(i) => reports'[i] = reports[i]
  BY <1>2, <1>4 DEF HeldRowIs
<1>6. \/ /\ work[Worker].pc = "progress"
         /\ work'[Worker] = [pc |-> "create", row |-> row]
      \/ work'[Worker] = Idle
  <2>1. CASE Save(Worker)
    BY <1>1, <2>1 DEF Save
  <2>2. CASE SaveProgress(Worker)
    <3>1. work' = [work EXCEPT ![Worker] = [work[Worker] EXCEPT !.pc = "create"]]
      BY <2>2 DEF SaveProgress
    <3>2. [work[Worker] EXCEPT !.pc = "create"] = [pc |-> "create", row |-> row]
      BY <1>2
    <3>3. QED
      BY <1>1, <2>2, <3>1, <3>2 DEF SaveProgress
  <2>3. QED
    BY <2>1, <2>2
<1> HIDE DEF row
<1>7. \A i \in 1..Len(reports) : Within(reports[i], 0)' /\ Within(reports[i], 1)'
  <2>1. ASSUME NEW i \in 1..Len(reports)
        PROVE  Within(reports'[i], 0) /\ reports'[i] \in DispatchRow
    <3>1. CASE HeldRowIs(i)
      BY <1>2, <1>3, <1>5, <3>1 DEF row
    <3>2. CASE ~ HeldRowIs(i)
      BY <1>5, <3>2, LoopNumbers DEF LoopInv, TableInv
    <3>3. QED
      BY <3>1, <3>2
  <2>2. ASSUME NEW i \in 1..Len(reports)
        PROVE  /\ Count(reports'[i].key, flows) + RetryLimit
                    <= Allowed(reports'[i].key, queued, crashes) + Tries(reports'[i]) + 0
               /\ Count(reports'[i].key, flows) + RetryLimit
                    <= Allowed(reports'[i].key, queued, crashes) + Tries(reports'[i]) + 1
               /\ Tries(reports'[i]) <= RetryLimit
    BY <2>1, LoopNumbers, TriesType DEF Within
  <2>3. QED
    BY <1>1, <2>2 DEF Within
<1>8. TableInv'
  BY <1>4, <1>7 DEF TableInv
<1>9. UniqueKeys'
  BY <1>4, <1>5 DEF LoopInv, UniqueKeys
<1>10. ListsInv'
  <2>1. \A i \in 1..Len(reports) :
          i \in DOMAIN queue \/ i \in DOMAIN notices => reports'[i] = reports[i]
    BY <1>5 DEF LoopInv, HandInv
  <2>2. /\ \A i \in DOMAIN queue : i \in 1..Len(reports)
        /\ \A i \in DOMAIN notices : i \in 1..Len(reports)
    BY LoopNumbers
  <2>3. QED
    BY <1>1, <2>1, <2>2 DEF LoopInv, ListsInv, Within
<1>11. SourcesInv'
  <2>1. \A f \in 1..Len(flows) : Known(flows[f].key, reports')
    BY <1>4, <1>5 DEF LoopInv, SourcesInv, Known
  <2>2. QED
    BY <1>1, <2>1 DEF LoopInv, SourcesInv
<1>12. HandInv'
  <2>1. CASE work'[Worker] = Idle
    BY <2>1 DEF HandInv, HeldRowIs, Held, Idle, RowPCs
  <2>2. CASE /\ work[Worker].pc = "progress"
             /\ work'[Worker] = [pc |-> "create", row |-> row]
    <3>1. work'[Worker].pc = "create" /\ work'[Worker].row = row
      BY <2>2
    <3>2. Known(row.key, reports')
      BY <1>3, <1>4, <1>5 DEF Known
    <3>3. Dispatchable(row) /\ row.status # "success"
      BY <1>3, <2>2 DEF Undecided, Dispatchable
    <3>4. Within(work[Worker].row, 0)'
      BY <1>1, <1>3, <3>1 DEF Within
    <3>5. ASSUME NEW i \in 1..Len(reports'), HeldRowIs(i)'
          PROVE  /\ i \notin DOMAIN queue /\ i \notin DOMAIN notices
                 /\ reports'[i].status # "success"
      <4>1. i \in 1..Len(reports) /\ HeldRowIs(i)
        BY <1>2, <1>4, <1>5, <3>1, <3>5 DEF HeldRowIs, row
      <4>2. QED
        BY <1>5, <3>3, <4>1 DEF LoopInv, HandInv
    <3>6. QED
      BY <1>1, <3>1, <3>2, <3>3, <3>4, <3>5 DEF HandInv
  <2>3. QED
    BY <1>6, <2>1, <2>2
<1>13. QED
  BY <1>8, <1>9, <1>10, <1>11, <1>12 DEF LoopInv

\* A restart pays for the call it may have forgotten
LEMMA LoopCrash ==
  ASSUME TypeOK, LoopInv, Crash
  PROVE  LoopInv'
<1>1. /\ \A c \in Callers : work'[c] = Idle
      /\ DOMAIN queue' = {} /\ DOMAIN notices' = {}
      /\ crashes' = crashes + 1
      /\ UNCHANGED <<reports, flows, queued>>
  BY DEF Crash, NoRows
<1>2. ~ Held' /\ \A w \in Writers : work'[w].pc # "queue"
  BY <1>1, LoopIsNoWriter DEF Held, Idle, RowPCs
<1>3. TableInv'
  <2>1. ASSUME NEW i \in 1..Len(reports)
        PROVE  /\ Tries(reports[i]) <= RetryLimit
               /\ Count(reports[i].key, flows) + RetryLimit
                    <= Allowed(reports[i].key, queued, crashes + 1) + Tries(reports[i]) + 0
               /\ Count(reports[i].key, flows) + RetryLimit
                    <= Allowed(reports[i].key, queued, crashes + 1) + Tries(reports[i]) + 1
    <3>1. Within(reports[i], 1)
      BY DEF LoopInv, TableInv
    <3>2. /\ Allowed(reports[i].key, queued, crashes + 1)
               = Allowed(reports[i].key, queued, crashes) + 1
          /\ Allowed(reports[i].key, queued, crashes) \in Nat
          /\ Count(reports[i].key, flows) \in Nat /\ Tries(reports[i]) \in Nat
          /\ RetryLimit \in Nat
      BY TypeParts, LoopNumbers, AllowedGrows
    <3>3. QED
      BY <3>1, <3>2 DEF Within
  <2>2. QED
    BY <1>1, <2>1 DEF TableInv, Within
<1>4. UniqueKeys' /\ SourcesInv' /\ ListsInv' /\ HandInv'
  BY <1>1, <1>2 DEF LoopInv, UniqueKeys, SourcesInv, ListsInv, HandInv, HeldRowIs
<1>5. QED
  BY <1>3, <1>4 DEF LoopInv

\* The steps when no debug request interferes
LEMMA LoopNext ==
  ASSUME Requests = {}, Next
  PROVE  \/ Builds
         \/ \E w \in Writers : SaveQueued(w)
         \/ ListDispatchable \/ ListNotificationDispatchable
         \/ TakeReport \/ TakeNotification
         \/ DispatchCall(Worker)
         \/ SaveProgress(Worker) \/ Save(Worker)
         \/ Crash
  BY DEF Next, QueueStep, WorkerStep, DispatchStep, DispatchCall, Builds

\* None of them puts a copy beyond what its key is allowed
LEMMA LoopStep ==
  ASSUME TypeOK, LoopInv, Requests = {}, [Next]_vars
  PROVE  LoopInv'
<1>1. CASE Next
  BY <1>1, LoopNext, LoopBuild, LoopQueue, LoopList, LoopTake, LoopCall, LoopSave,
     LoopCrash
<1>2. CASE UNCHANGED vars
  BY <1>2 DEF vars, LoopInv, UniqueKeys, SourcesInv, TableInv, ListsInv, HandInv,
              Within, HeldRowIs, Held, PastCall
<1>3. QED
  BY <1>1, <1>2

\* At the start there is nothing to allow
LEMMA LoopInit == Init => LoopInv
<1>1. ASSUME Init
      PROVE  /\ Len(reports) = 0 /\ Len(flows) = 0
             /\ DOMAIN queue = {} /\ DOMAIN notices = {}
             /\ ~ Held /\ \A w \in Writers : work[w].pc # "queue"
  BY <1>1, LoopIsNoWriter DEF Init, NoRows, Held, Idle, RowPCs
<1>2. QED
  BY <1>1 DEF LoopInv, UniqueKeys, SourcesInv, TableInv, ListsInv, HandInv, HeldRowIs

\* Nothing the loop does to a delivered row, or to its copies, sends it again
LEMMA LoopKeepsDelivered ==
  ASSUME TypeOK, LoopInv, Requests = {}, [Next]_vars,
         NEW i \in 1..Len(reports), reports[i].status = "success"
  PROVE  \/ Saves(reports[i].key)' # Saves(reports[i].key)
         \/ /\ reports'[i].status = "success" /\ reports'[i].ext = reports[i].ext
            /\ \A f \in FlowsOf(reports[i].key)' : f <= Len(flows)
<1>1. /\ reports \in Seq(DispatchRow) /\ flows \in Seq(Flow) /\ Len(flows) \in Nat
      /\ queued \in Seq(DispatchRow) /\ Worker \in Callers
  BY TypeParts, WorkerIsCaller
<1>2. flows' = flows => \A f \in FlowsOf(reports[i].key)' : f <= Len(flows)
  BY <1>1 DEF FlowsOf
<1>3. HeldRowIs(i) =>
        /\ work[Worker].pc \notin Undecided
        /\ work[Worker].row.status = "success"
        /\ work[Worker].row.ext = reports[i].ext
  BY DEF LoopInv, HandInv
<1>4. CASE DispatchCall(Worker)
  <2>1. reports' = reports
    BY <1>1, <1>4, CallChanges
  <2>2. /\ Held
        /\ \A f \in 1..Len(flows') :
             \/ f <= Len(flows)
             \/ /\ flows'[f].key = work[Worker].row.key
                /\ work[Worker].pc \in {"begin", "create"}
    BY <1>1, <1>4, DispatchedRow, CallCounts DEF Held
  <2>3. ASSUME NEW f \in FlowsOf(reports[i].key)' PROVE f <= Len(flows)
    BY <1>3, <2>1, <2>2, <2>3 DEF FlowsOf, HeldRowIs, Undecided
  <2>4. QED
    BY <2>1, <2>3
<1>5. CASE SaveProgress(Worker) \/ Save(Worker)
  <2> DEFINE row == work[Worker].row
  <2>1. /\ Held /\ row \in DispatchRow
        /\ reports' = SaveReport(reports, row) /\ flows' = flows
    BY <1>1, <1>5, HeldRow DEF SaveProgress, Save, RowPCs, Held
  <2> HIDE DEF row
  <2>2. (reports'[i] = row /\ HeldRowIs(i)) \/ reports'[i] = reports[i]
    <3>1. CASE reports[i].key = row.key
      BY <2>1, <3>1 DEF SaveReport, FindByIdempotencyKey, HeldRowIs, row
    <3>2. CASE reports[i].key # row.key
      BY <1>1, <2>1, <3>2 DEF SaveReport, FindByIdempotencyKey
    <3>3. QED
      BY <3>1, <3>2
  <2>3. QED
    BY <1>2, <1>3, <2>1, <2>2 DEF row
<1>6. ASSUME NEW w \in Writers, SaveQueued(w)
      PROVE  \/ Saves(reports[i].key)' # Saves(reports[i].key)
             \/ reports'[i] = reports[i] /\ flows' = flows
  <2> DEFINE row == work[w].row
  <2>1. /\ row \in DispatchRow /\ reports' = SaveReport(reports, row)
        /\ queued' = Append(queued, row) /\ flows' = flows
    BY <1>6, LoopIsNoWriter, HeldRow DEF SaveQueued, RowPCs
  <2> HIDE DEF row
  <2>2. CASE reports[i].key # row.key
    BY <1>1, <2>1, <2>2 DEF SaveReport, FindByIdempotencyKey
  <2>3. CASE reports[i].key = row.key
    <3>1. reports'[i].key = reports[i].key
      BY <1>1, <2>1, SaveReportKeepsKeys
    <3>2. /\ Len(queued) + 1 \in 1..Len(queued') /\ queued'[Len(queued) + 1] = row
          /\ Len(queued) + 1 \notin 1..Len(queued)
      BY <1>1, <2>1
    <3>3. Len(queued) + 1 \in Saves(reports[i].key)'
      BY <2>3, <3>1, <3>2 DEF Saves
    <3>4. Len(queued) + 1 \notin Saves(reports[i].key)
      BY <3>2 DEF Saves
    <3>5. QED
      BY <3>3, <3>4
  <2>4. QED
    BY <2>2, <2>3
<1>7. CASE UNCHANGED <<reports, flows>>
  BY <1>2, <1>7
<1>8. Builds => UNCHANGED <<reports, flows>>
  BY BuiltCopies
<1>9. QED
  BY <1>2, <1>4, <1>5, <1>6, <1>7, <1>8, LoopNext
  DEF ListDispatchable, ListNotificationDispatchable, TakeReport, TakeNotification,
      Crash, vars

\* All that the loop's properties rest on
LoopAll == TypeOK /\ LoopInv

\* It holds at the start and every step preserves it
LEMMA LoopInductive ==
  ASSUME Requests = {}
  PROVE  /\ Init => LoopAll
         /\ LoopAll /\ [Next]_vars => LoopAll'
<1>1. Init => LoopAll
  BY TypeInit, LoopInit DEF LoopAll
<1>2. LoopAll /\ [Next]_vars => LoopAll'
  BY TypeStep, LoopStep DEF LoopAll
<1>3. QED
  BY <1>1, <1>2

(***************************************************************************)
(* The retry limit bounds the harm: when no debug request dispatches, a    *)
(* row gives Feishu at most RetryLimit flows each time it is queued and    *)
(* one more per restart, however many answers are lost, however the        *)
(* batches are cut, and whoever saves the row again under the loop's copy. *)
(***************************************************************************)
THEOREM FlowsAreBounded ==
  ASSUME Requests = {}
  PROVE  Spec => []FlowsBoundedByRetries
<1>1. LoopAll => FlowsBoundedByRetries
  <2> SUFFICES ASSUME LoopAll, NEW i \in 1..Len(reports)
               PROVE  Cardinality(FlowsOf(reports[i].key))
                        <= RetryLimit * Cardinality(Saves(reports[i].key)) + crashes
    BY DEF FlowsBoundedByRetries
  <2>1. Count(reports[i].key, flows) <= Allowed(reports[i].key, queued, crashes)
    BY FlowsAllowed DEF LoopAll
  <2>2. /\ Cardinality(FlowsOf(reports[i].key)) = Count(reports[i].key, flows)
        /\ Cardinality(Saves(reports[i].key)) = Count(reports[i].key, queued)
    BY DEF FlowsOf, Saves, Count
  <2>3. QED
    BY <2>1, <2>2 DEF Allowed
<1>2. QED
  BY <1>1, LoopInductive, PTL DEF Spec

(***************************************************************************)
(* When no debug request dispatches, a delivered row stays delivered with  *)
(* its flow and gets no other until a service queues its key again: a copy *)
(* that may be dispatched is never one of a delivered row, though the row  *)
(* may be queued again, and delivered again, while copies of it are about. *)
(***************************************************************************)
THEOREM DeliveredAreSentOnce ==
  ASSUME Requests = {}
  PROVE  Spec => DeliveredOnce
<1>1. LoopAll /\ [Next]_vars =>
        [\A i \in 1..Len(reports) :
           reports[i].status = "success" =>
             \/ Saves(reports[i].key)' # Saves(reports[i].key)
             \/ /\ reports'[i].status = "success" /\ reports'[i].ext = reports[i].ext
                /\ \A f \in FlowsOf(reports[i].key)' : f <= Len(flows)]_vars
  BY LoopKeepsDelivered DEF LoopAll
<1>2. QED
  BY <1>1, LoopInductive, PTL DEF Spec, DeliveredOnce
=============================================================================
