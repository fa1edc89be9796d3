-------------------------- MODULE EmployeeRegistry --------------------------
(***************************************************************************)
(* employees and employee_devices, and the requests that change them, each *)
(* in one transaction: the employee's row, then his devices are deleted    *)
(* and inserted anew.                                                      *)
(*                                                                         *)
(* staff and devices are what is committed.  A transaction's statements    *)
(* take locks that make others wait: the employee's row from the first     *)
(* write, a device's place in the unique index from its deletion or        *)
(* insertion.  Two requests may come to wait for each other, and the       *)
(* database then ends one.                                                 *)
(***************************************************************************)
EXTENDS Naturals, FiniteSets

CONSTANTS
  Employees,
  Macs,         \* devices, normalised
  Nobody,
  OldOwner,     \* whose device is which in a database already in use
  SaveInputs,   \* what requests ask for an employee: [status, macs, off]
  Clerks        \* concurrent requests that change employees

Statuses == {"active", "disabled"}

ASSUME RegistryAssumption ==
  /\ Nobody \notin Employees
  /\ OldOwner \in [Macs -> Employees \cup {Nobody}]
  /\ SaveInputs \subseteq [status : Statuses, macs : SUBSET Macs, off : SUBSET Macs]

VARIABLES
  staff,        \* each employee's status, "absent" before he is created
  devices,      \* each device's employee and status
  clerk,        \* what each request is doing
  asked         \* history: what the last successful request asked of each employee

registryVars == <<staff, devices, clerk, asked>>

NoDevice == [emp |-> Nobody, status |-> "absent"]

Devices == [emp : Employees, status : Statuses] \cup {NoDevice}

\* A request: its statements so far are "row" (employee written) and "list"
\* (devices deleted or disabled); off are the devices it enters as disabled,
\* left those still to insert
Free == [pc |-> "idle", op |-> "none", emp |-> Nobody, status |-> "absent",
         macs |-> {}, off |-> {}, left |-> {}]

DevicesOf(table, e) == {m \in Macs : table[m].emp = e}

Owned(owner, m) ==
  IF owner[m] = Nobody THEN NoDevice ELSE [emp |-> owner[m], status |-> "active"]

RegistryInit(owner) ==
  LET inUse(e) == \E m \in Macs : owner[m] = e
      status(e) == IF inUse(e) THEN "active" ELSE "absent"
  IN
  /\ staff = [e \in Employees |-> status(e)]
  /\ devices = [m \in Macs |-> Owned(owner, m)]
  /\ asked = [e \in Employees |->
                [status |-> status(e),
                 list |-> [m \in {n \in Macs : owner[n] = e} |-> "active"]]]
  /\ clerk = [c \in Clerks |-> Free]

\* The employee a device's events belong to; no status is looked at
FindByMACAddress(mac) == devices[mac].emp

-----------------------------------------------------------------------------
(* Locks *)

Writing(c) == clerk[c].pc \in {"row", "list"}

RowLocked(c) == \E b \in Clerks \ {c} : Writing(b) /\ clerk[b].emp = clerk[c].emp

\* Devices a transaction has deleted or inserted and not committed
Touched(b) ==
  IF clerk[b].pc = "list" /\ clerk[b].op # "disable"
    THEN DevicesOf(devices, clerk[b].emp) \cup (clerk[b].macs \ clerk[b].left)
    ELSE {}

MacLocked(c, m) == \E b \in Clerks \ {c} : m \in Touched(b)

WaitsFor(c, b) ==
  /\ b # c
  /\ \/ /\ clerk[c].pc = "found"
        /\ Writing(b) /\ clerk[b].emp = clerk[c].emp
     \/ clerk[c].pc = "list" /\ \E m \in clerk[c].left : m \in Touched(b)

-----------------------------------------------------------------------------
(* Steps of a request *)

Goto(c, pc) == clerk' = [clerk EXCEPT ![c].pc = pc]

\* Mutant: an error returns without rolling the transaction back
FailedOpen(c) == clerk' = [clerk EXCEPT ![c].pc = "list"]

\* Every error rolls back and releases the locks
Failed(c) == clerk' = [clerk EXCEPT ![c] = Free]

\* The input is validated, and an update or disable finds the employee
BeginSave(c, op, e, input) ==
  /\ clerk[c].pc = "idle"
  /\ op = "update" => staff[e] # "absent"
  /\ clerk' = [clerk EXCEPT ![c] =
                 [pc |-> "found", op |-> op, emp |-> e, status |-> input.status,
                  macs |-> input.macs, off |-> input.off, left |-> input.macs]]
  /\ UNCHANGED <<staff, devices, asked>>

BeginDisable(c, e) ==
  /\ clerk[c].pc = "idle"
  /\ staff[e] # "absent"
  /\ clerk' = [clerk EXCEPT ![c] = [pc |-> "found", op |-> "disable", emp |-> e,
                                    status |-> "disabled", macs |-> {}, off |-> {},
                                    left |-> {}]]
  /\ UNCHANGED <<staff, devices, asked>>

\* INSERT or UPDATE of the employee; employee_no is unique
WriteEmployee(c) ==
  /\ clerk[c].pc = "found"
  /\ ~RowLocked(c)
  /\ IF clerk[c].op = "create" /\ staff[clerk[c].emp] # "absent"
       THEN Failed(c)
       ELSE Goto(c, "row")
  /\ UNCHANGED <<staff, devices, asked>>

\* Mutant: the devices are replaced outside the transaction
ClearDevicesNow(c) ==
  /\ clerk[c].pc = "row"
  /\ Goto(c, "list")
  /\ devices' = IF clerk[c].op = "disable" THEN devices
                ELSE [m \in Macs |-> IF devices[m].emp = clerk[c].emp
                                       THEN NoDevice ELSE devices[m]]
  /\ UNCHANGED <<staff, asked>>

\* DELETE of the employee's devices, or UPDATE of their status
ClearDevices(c) ==
  /\ clerk[c].pc = "row"
  /\ Goto(c, "list")
  /\ UNCHANGED <<staff, devices, asked>>

\* The devices come in the order of the request, which may be any.  One that
\* belongs to another employee is a duplicate
InsertDevice(c, m) ==
  /\ clerk[c].pc = "list"
  /\ m \in clerk[c].left
  /\ ~MacLocked(c, m)
  /\ IF devices[m].emp \in {Nobody, clerk[c].emp}
       THEN clerk' = [clerk EXCEPT ![c].left = @ \ {m}]
       ELSE Failed(c)
  /\ UNCHANGED <<staff, devices, asked>>

\* InnoDB rolls back a transaction of a cycle of waits
DeadlockVictim(c) ==
  /\ \E b \in Clerks : WaitsFor(c, b) /\ WaitsFor(b, c)
  /\ Failed(c)
  /\ UNCHANGED <<staff, devices, asked>>

DeviceStatus(req, m) == IF m \in req.off THEN "disabled" ELSE "active"

Replaced(c) ==
  [m \in Macs |->
     IF m \in clerk[c].macs
       THEN [emp |-> clerk[c].emp, status |-> DeviceStatus(clerk[c], m)]
     ELSE IF devices[m].emp = clerk[c].emp THEN NoDevice
     ELSE devices[m]]

AllDisabled(e) ==
  [m \in Macs |-> IF devices[m].emp = e
                    THEN [devices[m] EXCEPT !.status = "disabled"] ELSE devices[m]]

Granted(req) ==
  IF req.op = "disable"
    THEN [m \in DOMAIN asked[req.emp].list |-> "disabled"]
    ELSE [m \in req.macs |-> DeviceStatus(req, m)]

CommitRequest(c) ==
  LET req == clerk[c] IN
  /\ req.pc = "list"
  /\ req.left = {}
  /\ staff' = [staff EXCEPT ![req.emp] = req.status]
  /\ devices' = IF req.op = "disable" THEN AllDisabled(req.emp) ELSE Replaced(c)
  /\ asked' = [asked EXCEPT ![req.emp] = [status |-> req.status, list |-> Granted(req)]]
  /\ clerk' = [clerk EXCEPT ![c] = Free]

StopClerks ==
  /\ clerk' = [c \in Clerks |-> Free]
  /\ UNCHANGED <<staff, devices, asked>>

BeginRequest(c) ==
  \E e \in Employees :
    \/ \E op \in {"create", "update"}, input \in SaveInputs :
         BeginSave(c, op, e, input)
    \/ BeginDisable(c, e)

ContinueRequest(c) ==
  \/ WriteEmployee(c)
  \/ ClearDevices(c)
  \/ \E m \in Macs : InsertDevice(c, m)
  \/ DeadlockVictim(c)
  \/ CommitRequest(c)

-----------------------------------------------------------------------------
Requests == [pc : {"idle", "found", "row", "list"},
             op : {"none", "create", "update", "disable"},
             emp : Employees \cup {Nobody}, status : Statuses \cup {"absent"},
             macs : SUBSET Macs, off : SUBSET Macs, left : SUBSET Macs]

RegistryTypeOK ==
  /\ staff \in [Employees -> Statuses \cup {"absent"}]
  /\ devices \in [Macs -> Devices]
  /\ clerk \in [Clerks -> Requests]
  /\ \A e \in Employees : /\ asked[e].status \in Statuses \cup {"absent"}
                          /\ DOMAIN asked[e].list \subseteq Macs

\* The registry shows requests whole: each employee has the status and the
\* devices that his last successful request asked for, no fewer while an update
\* replaces them, none of a request that failed half-way, none taken from him by
\* another's request
RegistryAsAsked ==
  \A e \in Employees :
    /\ staff[e] = asked[e].status
    /\ DevicesOf(devices, e) = DOMAIN asked[e].list
    /\ \A m \in DOMAIN asked[e].list : devices[m].status = asked[e].list[m]

\* Every request ends, also when two exchange devices and wait for each other
EveryRequestEnds == \A c \in Clerks : []<>(clerk[c].pc = "idle")
=============================================================================
