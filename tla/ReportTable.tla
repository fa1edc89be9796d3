---------------------------- MODULE ReportTable ----------------------------
(***************************************************************************)
(* The attendance_reports table and the rows the services put in it.       *)
(*                                                                         *)
(* The table is a sequence: a row's id is its index, rows are never        *)
(* deleted, and a Save either overwrites the row with the same             *)
(* idempotency key, keeping its id, or appends.  A row's payload (who,     *)
(* which clock, create or clear, when) is a function of its key, so the    *)
(* key stands for both: the payload's timestamp is the key's, the same     *)
(* formatting of the same time.                                            *)
(***************************************************************************)
EXTENDS Naturals, Sequences

Kinds == {"clock_in", "clock_out"}

NoTime == 0     \* a NULL timestamp
NoFlow == 0     \* an empty external_record_id or delete_record_id

(***************************************************************************)
(* Times are in milliseconds.  The services compute with an instant as     *)
(* they heard it; a DATETIME column keeps it rounded to a second, and a    *)
(* key or a payload formats it (RFC3339) truncated to one.                 *)
(***************************************************************************)
Second == 1000

Truncated(time) == time - (time % Second)

Rounded(time) == Truncated(time + (Second \div 2))

WholeSeconds == {time \in Nat : time % Second = 0}

(***************************************************************************)
(* Idempotency keys.  "manual" is 0 but for the keys of the debug page,    *)
(* which carry the instant of the request.                                 *)
(***************************************************************************)
BuildIdempotencyKey(emp, kind, time, version) ==
  [emp |-> emp, kind |-> kind, act |-> "create", time |-> Truncated(time),
   version |-> version, manual |-> 0]

ClearKey(emp, kind, version) ==
  [emp |-> emp, kind |-> kind, act |-> "clear", time |-> NoTime,
   version |-> version, manual |-> 0]

Keys(emps, requests) ==
  [emp : emps, kind : Kinds, act : {"create", "clear"},
   time : WholeSeconds, version : Nat, manual : requests \cup {0}]

Rows(keys) ==
  [key : keys,
   status : {"pending", "failed", "success"}, delete : Nat, ext : Nat,
   retry : Nat, old : Nat,
   notif : {"pending", "failed", "success", "skipped"}, notifRetry : Nat]

-----------------------------------------------------------------------------
\* A new row for a key, before copyLatestDeleteRecordID.  "old" is history:
\* the flow the row was queued to delete, when "delete" is cleared as well
NewReport(key) ==
  [key |-> key, status |-> "pending", delete |-> NoFlow, ext |-> NoFlow,
   retry |-> 0, old |-> NoFlow,
   notif |-> IF key.act = "clear" THEN "skipped" ELSE "pending",
   notifRetry |-> 0]

FindByIdempotencyKey(rows, key) == {i \in 1..Len(rows) : rows[i].key = key}

\* INSERT ... ON DUPLICATE KEY UPDATE: every column is overwritten
SaveReport(rows, row) ==
  IF FindByIdempotencyKey(rows, row.key) = {}
    THEN Append(rows, row)
    ELSE [i \in 1..Len(rows) |-> IF rows[i].key = row.key THEN row ELSE rows[i]]

\* Some row tells Feishu that time
HasCreate(rows, emp, kind, time) ==
  \E i \in 1..Len(rows) : /\ rows[i].key.emp = emp
                          /\ rows[i].key.kind = kind
                          /\ rows[i].key.act = "create"
                          /\ rows[i].key.time = time

Delivered(rows, emp, kind) ==
  {i \in 1..Len(rows) : /\ rows[i].key.emp = emp
                        /\ rows[i].key.kind = kind
                        /\ rows[i].status = "success"
                        /\ rows[i].ext # NoFlow}

\* The flow of the newest delivered row of an employee's clock-in or clock-out
LatestFlow(rows, emp, kind) ==
  LET found == Delivered(rows, emp, kind)
  IN  IF found = {} THEN NoFlow
      ELSE rows[CHOOSE i \in found : \A j \in found : j <= i].ext

CopyLatestDeleteRecordID(rows, row) ==
  LET flow == LatestFlow(rows, row.key.emp, row.key.kind)
  IN  [row EXCEPT !.delete = flow, !.old = flow]
=============================================================================
