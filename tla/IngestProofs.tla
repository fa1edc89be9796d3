---------------------------- MODULE IngestProofs ----------------------------
(***************************************************************************)
(* Proofs about the way of a message, for any rules, employees, devices,   *)
(* concurrent requests, page size and number of messages.                  *)
(*                                                                         *)
(* The registry: of two transactions under way none may write what the     *)
(* other's end will write too (RegistryInv).  The log: whatever pages were *)
(* read before, a row still to come is not newer than a row seen (LogInv). *)
(*                                                                         *)
(* The rules: a table is as old as its orders, all 0 or none (RulesInv).   *)
(* Moves and debug requests read the rules and go on later: what each has  *)
(* read is still so, or somebody has committed a change since, which edits *)
(* counts (MoveInv, CallInv).                                              *)
(***************************************************************************)
EXTENDS SyslogIngest, FiniteSetTheorems, SequenceTheorems, TLAPS

-----------------------------------------------------------------------------
(* The registry *)

Lists == UNION {[macs -> Statuses] : macs \in SUBSET Macs}

Asked == [status : Statuses \cup {"absent"}, list : Lists]

Inserted(c) == clerk[c].macs \ clerk[c].left

RegistryTypes ==
  /\ staff \in [Employees -> Statuses \cup {"absent"}]
  /\ devices \in [Macs -> Devices]
  /\ clerk \in [Clerks -> Requests]
  /\ asked \in [Employees -> Asked]

\* What a request that has begun is like
RequestFits(req) ==
  req.pc # "idle" =>
    /\ req.emp \in Employees
    /\ req.status \in Statuses
    /\ req.left \subseteq req.macs
    /\ req.op \in {"create", "update", "disable"}
    /\ req.op = "disable" => req.macs = {}
    /\ req.pc \in {"found", "row"} => req.left = req.macs

\* The devices a transaction has inserted are free or its employee's own
InsertedAreFree(c) ==
  clerk[c].pc = "list" =>
    \A m \in Inserted(c) : devices[m].emp \in {Nobody, clerk[c].emp}

\* Two transactions that write do not write the same employee or device
Apart(b, c) ==
  /\ Writing(b) /\ Writing(c) => clerk[b].emp # clerk[c].emp
  /\ clerk[b].pc = "list" /\ clerk[c].pc = "list" => Inserted(b) \cap Inserted(c) = {}

RegistryInv ==
  /\ RegistryTypes
  /\ \A c \in Clerks : RequestFits(clerk[c]) /\ InsertedAreFree(c)
  /\ \A b, c \in Clerks : b # c => Apart(b, c)
  /\ RegistryAsAsked

\* The registry before the first request
LEMMA RegistryStarts == Init => RegistryInv
<1> SUFFICES ASSUME NEW owner \in [Macs -> Employees \cup {Nobody}], RegistryInit(owner)
             PROVE  RegistryInv
  BY RegistryAssumption DEF Init
<1> USE RegistryAssumption DEF RegistryInit, Statuses
<1>1. clerk = [c \in Clerks |-> Free]
  OBVIOUS
<1>2. clerk \in [Clerks -> Requests]
  BY <1>1 DEF Free, Requests
<1>3. devices \in [Macs -> Devices]
  BY DEF Owned, Devices, NoDevice
<1>4. staff \in [Employees -> Statuses \cup {"absent"}]
  OBVIOUS
<1>5. ASSUME NEW e \in Employees
      PROVE  /\ asked[e].status = staff[e]
             /\ asked[e].list \in [{n \in Macs : owner[n] = e} -> Statuses]
             /\ \A m \in DOMAIN asked[e].list : asked[e].list[m] = "active"
  OBVIOUS
<1>6. asked \in [Employees -> Asked]
  <2>1. \A macs \in SUBSET Macs : [m \in macs |-> "active"] \in [macs -> Statuses]
    OBVIOUS
  <2>2. \A macs \in SUBSET Macs : [m \in macs |-> "active"] \in Lists
    BY <2>1 DEF Lists
  <2>3. \A e \in Employees : [m \in {n \in Macs : owner[n] = e} |-> "active"] \in Lists
    BY <2>2
  <2>4. QED
    BY <2>3 DEF Asked
<1>7. \A m \in Macs : devices[m] = Owned(owner, m)
  OBVIOUS
<1>8. RegistryAsAsked
  <2>1. \A m \in Macs : devices[m].emp = owner[m]
    BY <1>7 DEF Owned, NoDevice
  <2>2. ASSUME NEW e \in Employees
        PROVE  DevicesOf(devices, e) = DOMAIN asked[e].list
    <3>1. DOMAIN asked[e].list = {n \in Macs : owner[n] = e}
      BY <1>5
    <3>2. QED
      BY <2>1, <3>1 DEF DevicesOf
  <2>3. ASSUME NEW e \in Employees, NEW m \in DOMAIN asked[e].list
        PROVE  devices[m].status = asked[e].list[m]
    <3>1. m \in Macs /\ owner[m] = e /\ asked[e].list[m] = "active"
      BY <1>5
    <3>2. devices[m] = [emp |-> e, status |-> "active"]
      BY <1>7, <3>1 DEF Owned
    <3>3. QED
      BY <3>1, <3>2
  <2>4. \A e \in Employees : staff[e] = asked[e].status
    BY <1>5
  <2>5. QED
    BY <2>2, <2>3, <2>4 DEF RegistryAsAsked
<1>9. \A c \in Clerks : clerk[c].pc = "idle"
  BY <1>1 DEF Free
<1>10. /\ \A c \in Clerks : RequestFits(clerk[c]) /\ InsertedAreFree(c)
       /\ \A b, c \in Clerks : b # c => Apart(b, c)
  BY <1>9 DEF RequestFits, InsertedAreFree, Apart, Writing
<1>11. QED
  BY <1>2, <1>3, <1>4, <1>6, <1>8, <1>10 DEF RegistryInv, RegistryTypes

\* A step that touches one request only, and neither employees nor devices
LEMMA RequestMoves ==
  ASSUME RegistryInv, NEW c \in Clerks, NEW req \in Requests,
         clerk' = [clerk EXCEPT ![c] = req],
         UNCHANGED <<staff, devices, asked>>,
         RequestFits(req),
         req.pc = "list" =>
           \A m \in req.macs \ req.left :
             /\ devices[m].emp \in {Nobody, req.emp}
             /\ \A b \in Clerks \ {c} : clerk[b].pc = "list" => m \notin Inserted(b),
         req.pc \in {"row", "list"} =>
           \A b \in Clerks \ {c} : Writing(b) => clerk[b].emp # req.emp
  PROVE  RegistryInv'
<1>1. \A b \in Clerks : clerk'[b] = IF b = c THEN req ELSE clerk[b]
  BY DEF RegistryInv, RegistryTypes
<1>2. RegistryTypes'
  BY DEF RegistryInv, RegistryTypes
<1>3. \A b \in Clerks : RequestFits(clerk'[b])
  BY <1>1 DEF RegistryInv
<1>4. \A b \in Clerks : InsertedAreFree(b)'
  BY <1>1 DEF RegistryInv, InsertedAreFree, Inserted
<1>5. \A a, b \in Clerks : a # b => Apart(a, b)'
  BY <1>1 DEF RegistryInv, Apart, Writing, Inserted
<1>6. RegistryAsAsked'
  BY DEF RegistryInv, RegistryAsAsked, DevicesOf
<1>7. QED
  BY <1>2, <1>3, <1>4, <1>5, <1>6 DEF RegistryInv, RequestFits

\* A request that failed holds nothing
LEMMA RequestFails ==
  ASSUME RegistryInv, NEW c \in Clerks, Failed(c), UNCHANGED <<staff, devices, asked>>
  PROVE  RegistryInv'
<1>1. Free \in Requests /\ RequestFits(Free) /\ Free.pc = "idle"
  BY DEF Free, Requests, RequestFits
<1>2. QED
  BY <1>1, RequestMoves DEF Failed

\* Beginning a request
LEMMA RequestBegins ==
  ASSUME RegistryInv, NEW c \in Clerks, BeginRequest(c)
  PROVE  RegistryInv'
<1>1. PICK e \in Employees :
        \/ \E op \in {"create", "update"}, input \in SaveInputs : BeginSave(c, op, e, input)
        \/ BeginDisable(c, e)
  BY DEF BeginRequest
<1>2. ASSUME NEW op \in {"create", "update"}, NEW input \in SaveInputs,
             BeginSave(c, op, e, input)
      PROVE  RegistryInv'
  <2> DEFINE req == [pc |-> "found", op |-> op, emp |-> e, status |-> input.status,
                     macs |-> input.macs, off |-> input.off, left |-> input.macs]
  <2>1. /\ input.status \in Statuses
        /\ input.macs \in SUBSET Macs /\ input.off \in SUBSET Macs
    BY RegistryAssumption
  <2>2. req \in Requests /\ RequestFits(req) /\ req.pc = "found"
    BY <2>1 DEF Requests, RequestFits
  <2>3. clerk' = [clerk EXCEPT ![c] = req] /\ UNCHANGED <<staff, devices, asked>>
    BY <1>2 DEF BeginSave
  <2>4. QED
    BY <2>2, <2>3, RequestMoves
<1>3. ASSUME BeginDisable(c, e)
      PROVE  RegistryInv'
  <2> DEFINE req == [pc |-> "found", op |-> "disable", emp |-> e,
                     status |-> "disabled", macs |-> {}, off |-> {}, left |-> {}]
  <2>1. req \in Requests /\ RequestFits(req) /\ req.pc = "found"
    BY DEF Requests, RequestFits, Statuses
  <2>2. clerk' = [clerk EXCEPT ![c] = req] /\ UNCHANGED <<staff, devices, asked>>
    BY <1>3 DEF BeginDisable
  <2>3. QED
    BY <2>1, <2>2, RequestMoves
<1>4. QED
  BY <1>1, <1>2, <1>3

\* What a request has asked for is what its commit leaves, to him and to others
LEMMA RequestCommits ==
  ASSUME RegistryInv, NEW c \in Clerks, CommitRequest(c)
  PROVE  RegistryInv'
<1> DEFINE req == clerk[c]
           e == req.emp
<1>1. /\ req.pc = "list" /\ req.left = {}
      /\ staff' = [staff EXCEPT ![e] = req.status]
      /\ asked' = [asked EXCEPT ![e] = [status |-> req.status, list |-> Granted(req)]]
      /\ clerk' = [clerk EXCEPT ![c] = Free]
  BY DEF CommitRequest
<1>2. /\ req \in Requests /\ e \in Employees /\ e # Nobody /\ req.status \in Statuses
      /\ req.macs \in SUBSET Macs
      /\ Inserted(c) = req.macs
  BY <1>1, RegistryAssumption
     DEF RegistryInv, RegistryTypes, RequestFits, Requests, Inserted
<1>3. \A m \in req.macs : devices[m].emp \in {Nobody, e}
  BY <1>1, <1>2 DEF RegistryInv, InsertedAreFree
<1> DEFINE Fits ==
             /\ devices' \in [Macs -> Devices]
             /\ Granted(req) \in Lists
             /\ DevicesOf(devices', e) = DOMAIN Granted(req)
             /\ \A m \in DOMAIN Granted(req) : devices'[m].status = Granted(req)[m]
             /\ \A m \in Macs : \A f \in Employees \ {e} :
                  /\ devices'[m].emp = f <=> devices[m].emp = f
                  /\ devices[m].emp = f => devices'[m] = devices[m]
             /\ \A b \in Clerks \ {c} : clerk[b].pc = "list" =>
                  \A m \in Inserted(b) : devices'[m].emp \in {Nobody, clerk[b].emp}
<1>4. ASSUME req.op = "disable" PROVE Fits
  <2>1. /\ devices' = AllDisabled(e)
        /\ Granted(req) = [m \in DOMAIN asked[e].list |-> "disabled"]
    BY <1>1, <1>4 DEF CommitRequest, Granted
  <2>2. \A m \in Macs :
          /\ devices[m].emp = e =>
               devices[m] \in [emp : Employees, status : Statuses]
          /\ devices'[m] = IF devices[m].emp = e
                             THEN [devices[m] EXCEPT !.status = "disabled"]
                             ELSE devices[m]
    BY <1>2, <2>1 DEF AllDisabled, RegistryInv, RegistryTypes, Devices, NoDevice
  <2>3. \A m \in Macs :
          IF devices[m].emp = e
            THEN devices'[m] = [emp |-> e, status |-> "disabled"]
            ELSE devices'[m] = devices[m]
    BY <2>2
  <2>4. \A m \in Macs : devices'[m].emp = devices[m].emp
    BY <2>3
  <2>5. devices' \in [Macs -> Devices]
    BY <1>2, <2>1, <2>3 DEF AllDisabled, RegistryInv, RegistryTypes, Devices, Statuses
  <2>6. /\ DOMAIN Granted(req) = DOMAIN asked[e].list
        /\ DOMAIN asked[e].list = DevicesOf(devices, e)
        /\ \A m \in DOMAIN Granted(req) : Granted(req)[m] = "disabled"
    BY <1>2, <2>1 DEF RegistryInv, RegistryAsAsked
  <2>7. DevicesOf(devices', e) = DevicesOf(devices, e)
    BY <2>4 DEF DevicesOf
  <2>8. Granted(req) \in Lists
    <3>1. DevicesOf(devices, e) \in SUBSET Macs
      BY DEF DevicesOf
    <3>2. Granted(req) \in [DevicesOf(devices, e) -> Statuses]
      BY <2>1, <2>6 DEF Statuses
    <3>3. QED
      BY <3>1, <3>2 DEF Lists
  <2>9. \A m \in DOMAIN Granted(req) : devices'[m].status = Granted(req)[m]
    BY <2>3, <2>6 DEF DevicesOf
  <2>10. \A b \in Clerks \ {c} : clerk[b].pc = "list" =>
           \A m \in Inserted(b) : devices'[m].emp \in {Nobody, clerk[b].emp}
    BY <2>4 DEF RegistryInv, InsertedAreFree, Inserted, RegistryTypes, Requests
  <2>11. QED
    BY <2>3, <2>4, <2>5, <2>6, <2>7, <2>8, <2>9, <2>10
<1>5. ASSUME req.op # "disable" PROVE Fits
  <2> DEFINE new(m) == [emp |-> e, status |-> DeviceStatus(req, m)]
  <2>0. \A m : new(m).emp = e /\ new(m).status = DeviceStatus(req, m)
    OBVIOUS
  <2>1. /\ devices' = Replaced(c)
        /\ Granted(req) = [m \in req.macs |-> DeviceStatus(req, m)]
        /\ \A m \in Macs : DeviceStatus(req, m) \in Statuses
    BY <1>1, <1>5 DEF CommitRequest, Granted, DeviceStatus, Statuses
  <2>2. \A m \in Macs :
          devices'[m] = IF m \in req.macs
                          THEN new(m)
                        ELSE IF devices[m].emp = e THEN NoDevice
                        ELSE devices[m]
    BY <2>1 DEF Replaced
  <2>3. devices' \in [Macs -> Devices]
    BY <1>2, <2>1, <2>2 DEF Replaced, RegistryInv, RegistryTypes, Devices, Statuses
  <2>4. \A m \in Macs : devices'[m].emp = IF m \in req.macs THEN e
                                          ELSE IF devices[m].emp = e THEN Nobody
                                          ELSE devices[m].emp
    <3> HIDE DEF new, req, e
    <3>1. QED
      BY <2>0, <2>2 DEF NoDevice
  <2>5. DevicesOf(devices', e) = req.macs
    BY <1>2, <2>4 DEF DevicesOf
  <2>6. Granted(req) \in Lists
    <3>1. Granted(req) \in [req.macs -> Statuses]
      BY <1>2, <2>1
    <3>2. QED
      BY <1>2, <3>1 DEF Lists
  <2>7. \A m \in Macs : \A f \in Employees \ {e} :
          /\ devices'[m].emp = f <=> devices[m].emp = f
          /\ devices[m].emp = f => devices'[m] = devices[m]
    BY <1>2, <1>3, <2>2, <2>4, RegistryAssumption
  <2>8. \A b \in Clerks \ {c} : clerk[b].pc = "list" =>
          \A m \in Inserted(b) : devices'[m].emp \in {Nobody, clerk[b].emp}
    <3> SUFFICES ASSUME NEW b \in Clerks \ {c}, clerk[b].pc = "list", NEW m \in Inserted(b)
                 PROVE  devices'[m].emp \in {Nobody, clerk[b].emp}
      OBVIOUS
    <3>1. m \in Macs /\ m \notin req.macs
      BY <1>1, <1>2 DEF RegistryInv, Apart, Inserted, RegistryTypes, Requests
    <3>2. devices[m].emp \in {Nobody, clerk[b].emp}
      BY DEF RegistryInv, InsertedAreFree
    <3>3. QED
      BY <2>4, <3>1, <3>2
  <2>9. \A m \in DOMAIN Granted(req) : devices'[m].status = Granted(req)[m]
    <3> HIDE DEF new, req, e
    <3>1. QED
      BY <1>2, <2>0, <2>1, <2>2
  <2>10. DevicesOf(devices', e) = DOMAIN Granted(req)
    BY <2>1, <2>5
  <2>11. QED
    BY <2>3, <2>6, <2>7, <2>8, <2>9, <2>10
<1>6. Fits
  BY <1>4, <1>5
<1>7. \A b \in Clerks : clerk'[b] = IF b = c THEN Free ELSE clerk[b]
  BY <1>1 DEF RegistryInv, RegistryTypes
<1>8. RegistryTypes'
  <2>1. clerk' \in [Clerks -> Requests]
    BY <1>1 DEF RegistryInv, RegistryTypes, Free, Requests
  <2>2. staff' \in [Employees -> Statuses \cup {"absent"}]
    BY <1>1, <1>2 DEF RegistryInv, RegistryTypes
  <2>3. asked' \in [Employees -> Asked]
    BY <1>1, <1>2, <1>6 DEF RegistryInv, RegistryTypes, Asked
  <2>4. QED
    BY <1>6, <2>1, <2>2, <2>3 DEF RegistryTypes
<1>9. RegistryAsAsked'
  <2>1. ASSUME NEW f \in Employees \ {e}
        PROVE  /\ staff'[f] = asked'[f].status
               /\ DevicesOf(devices', f) = DOMAIN asked'[f].list
               /\ \A m \in DOMAIN asked'[f].list : devices'[m].status = asked'[f].list[m]
    <3>1. staff'[f] = staff[f] /\ asked'[f] = asked[f]
      BY <1>1 DEF RegistryInv, RegistryTypes
    <3>2. DevicesOf(devices', f) = DevicesOf(devices, f)
      BY <1>6 DEF DevicesOf
    <3>3. \A m \in DevicesOf(devices, f) : devices'[m] = devices[m]
      BY <1>6 DEF DevicesOf
    <3>4. QED
      BY <3>1, <3>2, <3>3 DEF RegistryInv, RegistryAsAsked
  <2>2. staff'[e] = req.status /\ asked'[e] = [status |-> req.status, list |-> Granted(req)]
    BY <1>1, <1>2 DEF RegistryInv, RegistryTypes
  <2>3. QED
    BY <1>6, <2>1, <2>2 DEF RegistryAsAsked
<1>10. \A b \in Clerks : RequestFits(clerk'[b]) /\ InsertedAreFree(b)'
  BY <1>6, <1>7 DEF RegistryInv, RequestFits, InsertedAreFree, Inserted, Free
<1>11. \A a, b \in Clerks : a # b => Apart(a, b)'
  BY <1>7 DEF RegistryInv, Apart, Writing, Inserted, Free
<1>12. QED
  BY <1>8, <1>9, <1>10, <1>11 DEF RegistryInv, RequestFits

\* Every request's transaction
LEMMA RequestContinues ==
  ASSUME RegistryInv, NEW c \in Clerks, ContinueRequest(c)
  PROVE  RegistryInv'
<1> DEFINE old == clerk[c]
<1>0. old \in Requests /\ RequestFits(old)
  BY DEF RegistryInv, RegistryTypes
<1>1. CASE WriteEmployee(c)
  <2>1. CASE Failed(c)
    BY <1>1, <2>1, RequestFails DEF WriteEmployee
  <2>2. CASE Goto(c, "row")
    <3> DEFINE req == [old EXCEPT !.pc = "row"]
    <3>1. /\ clerk' = [clerk EXCEPT ![c] = req]
          /\ UNCHANGED <<staff, devices, asked>>
          /\ old.pc = "found"
      BY <1>1, <2>2 DEF WriteEmployee, Goto
    <3>2. req \in Requests /\ req.pc = "row" /\ req.emp = old.emp
      BY <1>0 DEF Requests
    <3>3. RequestFits(req)
      BY <1>0, <3>1 DEF Requests, RequestFits
    <3>4. \A b \in Clerks \ {c} : Writing(b) => clerk[b].emp # req.emp
      BY <1>1, <3>2 DEF WriteEmployee, RowLocked
    <3>5. QED
      BY <3>1, <3>2, <3>3, <3>4, RequestMoves
  <2>3. QED
    BY <1>1, <2>1, <2>2 DEF WriteEmployee
<1>2. CASE ClearDevices(c)
  <2> DEFINE req == [old EXCEPT !.pc = "list"]
  <2>1. /\ clerk' = [clerk EXCEPT ![c] = req]
        /\ UNCHANGED <<staff, devices, asked>>
        /\ old.pc = "row"
    BY <1>2 DEF ClearDevices, Goto
  <2>2. /\ req \in Requests /\ req.pc = "list" /\ req.emp = old.emp
        /\ req.macs \ req.left = {}
    BY <1>0, <2>1 DEF Requests, RequestFits
  <2>3. RequestFits(req)
    BY <1>0, <2>1 DEF Requests, RequestFits
  <2>4. \A b \in Clerks \ {c} : Writing(b) => clerk[b].emp # req.emp
    BY <2>1, <2>2 DEF RegistryInv, Apart, Writing
  <2>5. QED
    BY <2>1, <2>2, <2>3, <2>4, RequestMoves
<1>3. CASE \E m \in Macs : InsertDevice(c, m)
  <2>1. PICK m \in Macs : InsertDevice(c, m)
    BY <1>3
  <2>2. CASE Failed(c)
    BY <2>1, <2>2, RequestFails DEF InsertDevice
  <2>3. CASE /\ devices[m].emp \in {Nobody, old.emp}
             /\ clerk' = [clerk EXCEPT ![c].left = @ \ {m}]
    <3> DEFINE req == [old EXCEPT !.left = @ \ {m}]
    <3>1. /\ clerk' = [clerk EXCEPT ![c] = req]
          /\ UNCHANGED <<staff, devices, asked>>
          /\ old.pc = "list" /\ m \in old.left /\ ~MacLocked(c, m)
      BY <2>1, <2>3 DEF InsertDevice
    <3>2. /\ req \in Requests /\ req.pc = "list" /\ req.emp = old.emp
          /\ req.macs \ req.left \subseteq Inserted(c) \cup {m}
      BY <1>0, <3>1 DEF Requests, Inserted
    <3>3. RequestFits(req)
      BY <1>0, <3>1 DEF Requests, RequestFits
    <3>4. \A b \in Clerks \ {c} : Writing(b) => clerk[b].emp # req.emp
      BY <3>1, <3>2 DEF RegistryInv, Apart, Writing
    <3>5. \A b \in Clerks \ {c} : clerk[b].pc = "list" => m \notin Inserted(b)
      BY <3>1 DEF RegistryInv, RequestFits, MacLocked, Touched, Inserted
    <3>6. \A n \in Inserted(c) :
            /\ devices[n].emp \in {Nobody, req.emp}
            /\ \A b \in Clerks \ {c} : clerk[b].pc = "list" => n \notin Inserted(b)
      BY <3>1, <3>2 DEF RegistryInv, InsertedAreFree, Apart
    <3>7. \A n \in req.macs \ req.left :
            /\ devices[n].emp \in {Nobody, req.emp}
            /\ \A b \in Clerks \ {c} : clerk[b].pc = "list" => n \notin Inserted(b)
      BY <2>3, <3>2, <3>5, <3>6
    <3> HIDE DEF req
    <3>8. QED
      BY <3>1, <3>2, <3>3, <3>4, <3>7, RequestMoves
  <2>4. QED
    BY <2>1, <2>2, <2>3 DEF InsertDevice
<1>4. CASE DeadlockVictim(c)
  BY <1>4, RequestFails DEF DeadlockVictim
<1>5. CASE CommitRequest(c)
  BY <1>5, RequestCommits
<1>6. QED
  BY <1>1, <1>2, <1>3, <1>4, <1>5 DEF ContinueRequest

\* No step of any other part of the process changes what the registry has
LEMMA RegistryStep ==
  ASSUME RegistryInv, [Next]_vars
  PROVE  RegistryInv'
<1>1. ASSUME UNCHANGED registryVars
      PROVE  RegistryInv'
  BY <1>1
     DEF registryVars, RegistryInv, RegistryTypes, InsertedAreFree, Inserted, Apart,
              Writing, RegistryAsAsked, DevicesOf
<1>2. ASSUME StopClerks
      PROVE  RegistryInv'
  <2>1. /\ clerk' = [c \in Clerks |-> Free]
        /\ UNCHANGED <<staff, devices, asked>>
    BY <1>2 DEF StopClerks
  <2>2. clerk' \in [Clerks -> Requests] /\ \A c \in Clerks : clerk'[c].pc = "idle"
    BY <2>1 DEF Free, Requests
  <2>3. /\ \A c \in Clerks : RequestFits(clerk'[c]) /\ InsertedAreFree(c)'
        /\ \A b, c \in Clerks : b # c => Apart(b, c)'
    BY <2>2 DEF RequestFits, InsertedAreFree, Apart, Writing
  <2>4. QED
    BY <2>1, <2>2, <2>3
       DEF RegistryInv, RegistryTypes, RegistryAsAsked, DevicesOf, RequestFits
<1>3. CASE \E c \in Clerks : BeginClerk(c) \/ ContinueClerk(c)
  BY <1>3, RequestBegins, RequestContinues DEF BeginClerk, ContinueClerk
<1>4. ASSUME NEW c \in Callers, HandleStep(c) \/ FailCall(c)
      PROVE  StopClerks \/ UNCHANGED registryVars
  BY <1>4
     DEF HandleStep, FailCall, ParseSyslog, SaveMessage, MatchEmployee, SaveEvent,
              Answer, Fail, Stop, Unchanged
<1>5. CASE \/ Start
           \/ \E msg \in Messages : Receive(msg)
           \/ \E c \in Debuggers, msg \in Messages, at \in Times : Inject(c, msg, at)
           \/ \E a \in RuleAdmins : RulesPage(a)
           \/ LogsPage
  BY <1>1, <1>5 DEF Start, Receive, Inject, RulesPage, LogsPage, Unchanged
<1>6. CASE Crash
  BY <1>2, <1>6 DEF Crash, Stop
<1>7. CASE UNCHANGED vars
  BY <1>1, <1>7 DEF vars
<1>8. QED
  BY <1>1, <1>2, <1>3, <1>4, <1>5, <1>6, <1>7 DEF Next

\* For any employees, devices and number of requests at once, the registry shows
\* whole requests: an employee has the devices of his last successful request,
\* whatever others insert, wait for, or give up meanwhile
THEOREM RegistryIsAsAsked == Spec => []RegistryAsAsked
<1>1. Spec => []RegistryInv
  BY RegistryStarts, RegistryStep, PTL DEF Spec
<1>2. RegistryInv => RegistryAsAsked
  BY DEF RegistryInv
<1>3. QED
  BY <1>1, <1>2, PTL
-----------------------------------------------------------------------------
(* Messages and their events *)

IsASequence(s) == \E S : s \in Seq(S)

\* What appending to a sequence does
LEMMA Appended ==
  ASSUME NEW s, NEW row, IsASequence(s)
  PROVE  /\ Len(s) \in Nat /\ DOMAIN s = 1..Len(s)
         /\ IsASequence(Append(s, row))
         /\ DOMAIN Append(s, row) = 1..(Len(s) + 1)
         /\ \A i \in DOMAIN s : Append(s, row)[i] = s[i]
         /\ Append(s, row)[Len(s) + 1] = row
<1>1. PICK S : s \in Seq(S)
  BY DEF IsASequence
<1>2. s \in Seq(S \cup {row}) /\ row \in S \cup {row}
  BY <1>1
<1>3. /\ Append(s, row) \in Seq(S \cup {row})
      /\ Len(Append(s, row)) = Len(s) + 1
      /\ \A i \in 1..Len(s) : Append(s, row)[i] = s[i]
      /\ Append(s, row)[Len(s) + 1] = row
  BY <1>2, AppendProperties
<1>4. Len(s) \in Nat /\ DOMAIN s = 1..Len(s)
  BY <1>1
<1>5. DOMAIN Append(s, row) = 1..(Len(s) + 1)
  BY <1>3
<1>6. IsASequence(Append(s, row))
  BY <1>3 DEF IsASequence
<1>7. QED
  BY <1>3, <1>4, <1>5, <1>6

\* A handler that has stored his message knows its id, one that has it still to
\* store knows when it came
HandlerFits(h, ids) ==
  /\ DOMAIN h = DOMAIN Resting
  /\ h.pc \in {"match", "event"} => h.id \in ids
  /\ h.pc \in {"parse", "save"} => h.at \in Times

MessageInv ==
  /\ IsASequence(messages)
  /\ \A i \in DOMAIN messages : messages[i].at \in Times
  /\ DOMAIN events \subseteq DOMAIN messages
  /\ DOMAIN handler = Callers
  /\ \A c \in Callers : HandlerFits(handler[c], DOMAIN messages)
  /\ ParsedMessagesHaveEvents

\* The log of a new database
LEMMA MessagesStart == Init => MessageInv
<1> SUFFICES ASSUME Init PROVE MessageInv
  OBVIOUS
<1>1. messages = <<>> /\ DOMAIN events = {} /\ handler = [c \in Callers |-> Resting]
  BY DEF Init, LogInit
<1>2. IsASequence(<<>>) /\ DOMAIN <<>> = {}
  <2>1. <<>> \in Seq({})
    OBVIOUS
  <2>2. QED
    BY <2>1 DEF IsASequence
<1>3. \A c \in Callers : handler[c].pc = "idle"
  BY <1>1 DEF Resting
<1>4. QED
  BY <1>1, <1>2, <1>3 DEF MessageInv, HandlerFits, ParsedMessagesHaveEvents

\* A handler goes on, or gives up: his message has its event, or he has still to
\* store it, or the message is known to be cut
LEMMA HandlerMoves ==
  ASSUME MessageInv, NEW c \in Callers, NEW h, Step(c, h), HandlerFits(h, DOMAIN messages'),
         UNCHANGED messages,
         DOMAIN events' \subseteq DOMAIN messages,
         DOMAIN events \cup cut \subseteq DOMAIN events' \cup cut',
         Stored(c) =>
           \/ handler[c].id \in DOMAIN events' \cup cut'
           \/ h.pc \in {"match", "event"} /\ h.id = handler[c].id
  PROVE  MessageInv'
<1>1. DOMAIN handler' = Callers /\ \A d \in Callers : handler'[d] = IF d = c THEN h ELSE handler[d]
  BY DEF MessageInv, Step
<1>2. \A d \in Callers : HandlerFits(handler'[d], DOMAIN messages')
  BY <1>1 DEF MessageInv, HandlerFits
<1>3. ParsedMessagesHaveEvents'
  BY <1>1 DEF MessageInv, ParsedMessagesHaveEvents, Stored
<1>4. QED
  BY <1>1, <1>2, <1>3 DEF MessageInv

\* The process stops: whatever was under way is cut
LEMMA HandlersStop ==
  ASSUME MessageInv, Stop
  PROVE  MessageInv'
<1>1. /\ handler' = [c \in Callers |-> Resting]
      /\ cut' = cut \cup {handler[c].id : c \in {d \in Callers : Stored(d)}}
      /\ UNCHANGED <<messages, events>>
  BY DEF Stop
<1>2. \A c \in Callers : HandlerFits(handler'[c], DOMAIN messages')
  BY <1>1 DEF HandlerFits, Resting
<1>3. ParsedMessagesHaveEvents'
  BY <1>1 DEF MessageInv, ParsedMessagesHaveEvents
<1>4. QED
  BY <1>1, <1>2, <1>3 DEF MessageInv

\* A handler gives up: the loop stops the process, a request its own message
LEMMA HandlerFails ==
  ASSUME MessageInv, NEW c \in Callers, Fail(c)
  PROVE  MessageInv'
<1>1. CASE Stop
  BY <1>1, HandlersStop
<1>2. CASE /\ Step(c, Resting)
           /\ cut' = IF Stored(c) THEN cut \cup {handler[c].id} ELSE cut
           /\ UNCHANGED <<messages, events>>
  <2>1. HandlerFits(Resting, DOMAIN messages')
    BY DEF HandlerFits, Resting
  <2>2. QED
    BY <1>2, <2>1, HandlerMoves DEF MessageInv
<1>3. QED
  BY <1>1, <1>2 DEF Fail, logVars

\* No step loses an event
LEMMA MessageStep ==
  ASSUME MessageInv, [Next]_vars
  PROVE  MessageInv'
<1> USE IngestAssumption
<1>1. ASSUME UNCHANGED <<messages, events, handler, cut>>
      PROVE  MessageInv'
  BY <1>1 DEF MessageInv, HandlerFits, ParsedMessagesHaveEvents, Stored
<1>2. CASE Crash
  BY <1>2, HandlersStop DEF Crash
<1>3. CASE \E msg \in Messages : Receive(msg)
  <2>1. PICK msg \in Messages : Receive(msg)
    BY <1>3
  <2> DEFINE h == [Resting EXCEPT !.pc = "parse", !.msg = msg, !.at = Now]
  <2>2. Udp \in Callers /\ Step(Udp, h) /\ ~Stored(Udp) /\ UNCHANGED <<messages, events, cut>>
    BY <2>1 DEF Receive, logVars, Callers, Stored
  <2>3. HandlerFits(h, DOMAIN messages')
    BY DEF HandlerFits, Resting, Now
  <2>4. QED
    BY <2>2, <2>3, HandlerMoves DEF MessageInv
<1>4. CASE \E c \in Debuggers, msg \in Messages, at \in Times : Inject(c, msg, at)
  <2>1. PICK c \in Debuggers, msg \in Messages, at \in Times : Inject(c, msg, at)
    BY <1>4
  <2>2. PICK preview : Step(c, [Resting EXCEPT !.pc = "parse", !.msg = msg, !.at = at,
                                  !.preview = preview, !.edits = edits])
    BY <2>1 DEF Inject
  <2> DEFINE h == [Resting EXCEPT !.pc = "parse", !.msg = msg, !.at = at,
                     !.preview = preview, !.edits = edits]
  <2>3. c \in Callers /\ ~Stored(c) /\ UNCHANGED <<messages, events, cut>>
    BY <2>1 DEF Inject, logVars, Callers, Stored
  <2>4. HandlerFits(h, DOMAIN messages')
    BY DEF HandlerFits, Resting
  <2>5. Step(c, h)
    BY <2>2
  <2> HIDE DEF h
  <2>6. QED
    BY <2>3, <2>4, <2>5, HandlerMoves DEF MessageInv
<1>5. ASSUME NEW c \in Callers, ParseSyslog(c)
      PROVE  MessageInv'
  <2>1. CASE Fail(c)
    BY <2>1, HandlerFails
  <2>2. CASE ~Fail(c)
    <3>1. PICK match : /\ Step(c, [handler[c] EXCEPT !.pc = "save", !.rule = match.rule,
                                                     !.outcome = match.outcome])
                       /\ UNCHANGED <<messages, events, cut>>
      BY <1>5, <2>2 DEF ParseSyslog, logVars
    <3> DEFINE h == [handler[c] EXCEPT !.pc = "save", !.rule = match.rule,
                                       !.outcome = match.outcome]
    <3>2. handler[c].pc = "parse" /\ HandlerFits(handler[c], DOMAIN messages)
      BY <1>5 DEF ParseSyslog, MessageInv
    <3>3. h.at = handler[c].at /\ h.pc = "save" /\ DOMAIN h = DOMAIN handler[c]
      BY <3>2 DEF HandlerFits, Resting
    <3>4. HandlerFits(h, DOMAIN messages') /\ ~Stored(c)
      BY <3>2, <3>3 DEF HandlerFits, Stored
    <3>5. QED
      BY <3>1, <3>4, HandlerMoves DEF MessageInv
  <2>3. QED
    BY <2>1, <2>2
<1>6. ASSUME NEW c \in Callers, SaveMessage(c)
      PROVE  MessageInv'
  <2>1. PICK row, h :
          /\ messages' = Append(messages, row) /\ Step(c, h)
          /\ row.at = handler[c].at
          /\ HandlerFits(h, {Len(messages) + 1})
          /\ row.status = "parsed" => h.pc = "match" /\ h.id = Len(messages) + 1
    <3>1. CASE handler[c].outcome = Miss
      <4> DEFINE row == [at |-> handler[c].at, rule |-> NoRule, status |-> "ignored"]
                 h == Handled(c, StoredAs(handler[c]))
      <4>1. messages' = Append(messages, row) /\ Step(c, h)
        BY <1>6, <3>1 DEF SaveMessage
      <4>2. HandlerFits(h, {Len(messages) + 1})
        BY DEF Handled, Resting, HandlerFits
      <4>3. row.at = handler[c].at /\ row.status # "parsed"
        OBVIOUS
      <4> HIDE DEF row, h
      <4>4. QED
        BY <4>1, <4>2, <4>3
    <3>2. CASE handler[c].outcome # Miss
      <4> DEFINE row == [at |-> handler[c].at, rule |-> handler[c].rule,
                         status |-> "parsed"]
                 h == [StoredAs(handler[c]) EXCEPT !.pc = "match"]
      <4>1. messages' = Append(messages, row) /\ Step(c, h)
        BY <1>6, <3>2 DEF SaveMessage
      <4>2. DOMAIN handler[c] = DOMAIN Resting
        BY DEF MessageInv, HandlerFits
      <4>3. /\ DOMAIN h = DOMAIN Resting
            /\ h.pc = "match" /\ h.id = Len(messages) + 1
        BY <4>2 DEF StoredAs, Resting
      <4>4. row.at = handler[c].at
        OBVIOUS
      <4> HIDE DEF row, h
      <4>5. QED
        BY <4>1, <4>3, <4>4 DEF HandlerFits
    <3>3. QED
      BY <3>1, <3>2
  <2>2. handler[c].pc = "save" /\ handler[c].at \in Times /\ UNCHANGED <<events, cut>>
    BY <1>6 DEF SaveMessage, MessageInv, HandlerFits
  <2>3. /\ Len(messages) \in Nat /\ DOMAIN messages = 1..Len(messages)
        /\ IsASequence(messages')
        /\ DOMAIN messages' = 1..(Len(messages) + 1)
        /\ \A i \in DOMAIN messages : messages'[i] = messages[i]
        /\ messages'[Len(messages) + 1] = row
    BY <2>1, Appended DEF MessageInv
  <2>4. /\ DOMAIN handler' = Callers
        /\ \A d \in Callers : handler'[d] = IF d = c THEN h ELSE handler[d]
    BY <2>1 DEF Step, MessageInv
  <2>5. \A i \in DOMAIN messages' : messages'[i].at \in Times
    BY <2>1, <2>2, <2>3 DEF MessageInv
  <2>6. \A d \in Callers : HandlerFits(handler'[d], DOMAIN messages')
    BY <2>1, <2>3, <2>4 DEF MessageInv, HandlerFits
  <2>7. ASSUME NEW i \in DOMAIN messages', messages'[i].status = "parsed"
        PROVE  \/ i \in DOMAIN events' \cup cut'
               \/ \E d \in Callers : Stored(d)' /\ handler'[d].id = i
    <3>1. CASE i = Len(messages) + 1
      BY <2>1, <2>3, <2>4, <2>7, <3>1 DEF Stored
    <3>2. CASE i \in DOMAIN messages
      BY <2>2, <2>3, <2>4, <2>7, <3>2 DEF MessageInv, ParsedMessagesHaveEvents, Stored
    <3>3. QED
      BY <2>3, <3>1, <3>2
  <2>8. QED
    BY <2>2, <2>3, <2>4, <2>5, <2>6, <2>7 DEF MessageInv, ParsedMessagesHaveEvents
<1>7. ASSUME NEW c \in Callers, MatchEmployee(c)
      PROVE  MessageInv'
  <2>1. PICK emp : /\ Step(c, [handler[c] EXCEPT !.pc = "event", !.emp = emp])
                   /\ UNCHANGED <<messages, events, cut>>
    BY <1>7 DEF MatchEmployee, logVars
  <2> DEFINE h == [handler[c] EXCEPT !.pc = "event", !.emp = emp]
  <2>2. handler[c].pc = "match" /\ HandlerFits(handler[c], DOMAIN messages)
    BY <1>7 DEF MatchEmployee, MessageInv
  <2>3. h.id = handler[c].id /\ h.pc = "event" /\ DOMAIN h = DOMAIN handler[c]
    BY <2>2 DEF HandlerFits, Resting
  <2>4. HandlerFits(h, DOMAIN messages')
    BY <2>1, <2>2, <2>3 DEF HandlerFits
  <2>5. QED
    BY <2>1, <2>3, <2>4, HandlerMoves DEF MessageInv
<1>8. ASSUME NEW c \in Callers, SaveEvent(c)
      PROVE  MessageInv'
  <2> DEFINE h == Handled(c, handler[c])
  <2>1. /\ Step(c, h) /\ UNCHANGED <<messages, cut>>
        /\ DOMAIN events' = DOMAIN events \cup {handler[c].id}
    BY <1>8 DEF SaveEvent
  <2>2. handler[c].id \in DOMAIN messages
    BY <1>8 DEF SaveEvent, MessageInv, HandlerFits
  <2>3. HandlerFits(h, DOMAIN messages')
    BY DEF Handled, HandlerFits, Resting
  <2>4. QED
    BY <2>1, <2>2, <2>3, HandlerMoves DEF MessageInv
<1>9. ASSUME NEW c \in Callers, Answer(c)
      PROVE  MessageInv'
  <2>1. Step(c, Resting) /\ ~Stored(c) /\ UNCHANGED <<messages, events, cut>>
    BY <1>9 DEF Answer, Stored, logVars
  <2>2. HandlerFits(Resting, DOMAIN messages')
    BY DEF HandlerFits, Resting
  <2>3. QED
    BY <2>1, <2>2, HandlerMoves DEF MessageInv
<1>10. ASSUME NEW c \in Callers, FailCall(c)
       PROVE  MessageInv'
  BY <1>10, HandlerFails DEF FailCall
<1>11. CASE \/ Start
            \/ \E a \in RuleAdmins : RulesPage(a)
            \/ \E c \in Clerks : BeginClerk(c) \/ ContinueClerk(c)
            \/ LogsPage
            \/ UNCHANGED vars
  BY <1>1, <1>11 DEF Start, RulesPage, BeginClerk, ContinueClerk, LogsPage, OpenLogs,
                     ReaderStep, CountLogs, ListLogs, CloseLogs, Others, logVars, callVars, vars
<1>12. QED
  BY <1>2, <1>3, <1>4, <1>5, <1>6, <1>7, <1>8, <1>9, <1>10, <1>11 DEF Next, HandleStep

\* For any messages, rules and number of requests, a message stored as parsed has
\* its event, or a handler that still has to store it, or is one whose handling
\* was ended by an error or a stop: restarts lose no event unnoticed
THEOREM ParsedHaveEvents == Spec => []ParsedMessagesHaveEvents
<1>1. Spec => []MessageInv
  BY MessagesStart, MessageStep, PTL DEF Spec
<1>2. MessageInv => ParsedMessagesHaveEvents
  BY DEF MessageInv
<1>3. QED
  BY <1>1, <1>2, PTL

-----------------------------------------------------------------------------
(* The walk through the log *)

Scopes == {"all", "matched"}

Readers == [pc : {"idle", "count", "list", "read"}, scope : Scopes, page : Nat,
            total : Nat, start : SUBSET Nat, seen : SUBSET Nat]

Walking == reader.pc \in {"count", "list"}

\* What is still unseen of the rows at the start is not before the next page
LogInv ==
  /\ reader \in Readers
  /\ reader.start \subseteq Listed(reader.scope)
  /\ reader.seen \subseteq DOMAIN messages
  /\ Walking =>
       /\ reader.page # 0
       /\ \A i \in reader.start \ reader.seen :
            Position(i, reader.scope) >= LogsOffset(reader.page)
  /\ LogWalkHasNoGap

\* The first n numbers are finitely many
LEMMA UpToFinite ==
  ASSUME NEW n \in Nat
  PROVE  IsFiniteSet(1..n)
  BY FS_Interval

\* Rows are finitely many, so that positions are numbers
LEMMA RowsFinite ==
  ASSUME MessageInv
  PROVE  /\ DOMAIN messages \subseteq Nat
         /\ IsFiniteSet(DOMAIN messages)
         /\ \A scope \in Scopes : /\ Listed(scope) \subseteq DOMAIN messages
                                  /\ IsFiniteSet(Listed(scope))
<1>1. Len(messages) \in Nat /\ DOMAIN messages = 1..Len(messages)
  BY DEF MessageInv, IsASequence
<1>2. IsFiniteSet(DOMAIN messages)
  BY <1>1, UpToFinite
<1>3. \A scope \in Scopes : Listed(scope) \subseteq DOMAIN messages
  BY DEF MessageInv, Listed, Scopes
<1>4. QED
  BY <1>1, <1>2, <1>3, FS_Subset

\* A row's place is a number
LEMMA PositionType ==
  ASSUME MessageInv, NEW scope \in Scopes, NEW i
  PROVE  Position(i, scope) \in Nat
<1>1. IsFiniteSet({j \in Listed(scope) : Newer(j, i)})
  BY RowsFinite, FS_Subset
<1>2. QED
  BY <1>1, FS_CardinalityType DEF Position

\* A newer row is not behind an older one
LEMMA NewerIsBefore ==
  ASSUME MessageInv, NEW scope \in Scopes,
         NEW i \in DOMAIN messages, NEW j \in DOMAIN messages, Newer(i, j)
  PROVE  Position(i, scope) <= Position(j, scope)
<1>1. ASSUME NEW k \in DOMAIN messages, Newer(k, i)
      PROVE  Newer(k, j)
  <2>1. /\ messages[i].at \in Nat /\ messages[j].at \in Nat /\ messages[k].at \in Nat
        /\ i \in Nat /\ j \in Nat /\ k \in Nat
    BY RowsFinite, LogAssumption DEF MessageInv
  <2>2. QED
    BY <1>1, <2>1 DEF Newer
<1>2. {k \in Listed(scope) : Newer(k, i)} \subseteq {k \in Listed(scope) : Newer(k, j)}
  BY <1>1, RowsFinite
<1>3. IsFiniteSet({k \in Listed(scope) : Newer(k, j)})
  BY RowsFinite, FS_Subset
<1>4. QED
  BY <1>2, <1>3, FS_Subset DEF Position

\* Rows only move back when others come in
LEMMA RowsMoveBack ==
  ASSUME MessageInv, MessageInv', NEW scope \in Scopes,
         Listed(scope) \subseteq Listed(scope)',
         \A i \in DOMAIN messages : i \in DOMAIN messages' /\ messages'[i] = messages[i],
         NEW i \in DOMAIN messages
  PROVE  /\ Position(i, scope) <= Position(i, scope)'
         /\ Position(i, scope)' \in Nat
<1>1. {j \in Listed(scope) : Newer(j, i)} \subseteq {j \in Listed(scope)' : Newer(j, i)'}
  BY RowsFinite DEF Newer
<1>2. IsFiniteSet(Listed(scope)')
  <2>1. Len(messages') \in Nat /\ DOMAIN messages' = 1..Len(messages')
    BY DEF MessageInv, IsASequence
  <2>2. IsFiniteSet(1..Len(messages'))
    BY <2>1, UpToFinite
  <2>3. Listed(scope)' \subseteq DOMAIN messages'
    BY DEF MessageInv, Listed, Scopes
  <2>4. QED
    BY <2>1, <2>2, <2>3, FS_Subset
<1>3. IsFiniteSet({j \in Listed(scope)' : Newer(j, i)'})
  BY <1>2, FS_Subset
<1>4. QED
  BY <1>1, <1>3, FS_Subset, FS_CardinalityType DEF Position

\* Rows are stored: what was read, and what is still to come, stays as it was
LEMMA LogGrows ==
  ASSUME MessageInv, MessageInv', LogInv, UNCHANGED reader,
         DOMAIN events \subseteq DOMAIN events',
         \A i \in DOMAIN messages : i \in DOMAIN messages' /\ messages'[i] = messages[i]
  PROVE  LogInv'
<1>1. \A scope \in Scopes : Listed(scope) \subseteq Listed(scope)'
  BY DEF Listed, Scopes
<1>2. reader.scope \in Scopes /\ reader.start \subseteq DOMAIN messages
  BY RowsFinite DEF LogInv, Readers
<1>3. ASSUME NEW i \in DOMAIN messages
      PROVE  Position(i, reader.scope) <= Position(i, reader.scope)'
  BY <1>1, <1>2, RowsMoveBack
<1>4. ASSUME Walking, NEW i \in reader.start \ reader.seen
      PROVE  Position(i, reader.scope)' >= LogsOffset(reader.page)
  <2>1. Position(i, reader.scope) \in Nat
    BY <1>2, PositionType
  <2>2. LogsOffset(reader.page) \in Nat
    BY <1>4, LogAssumption DEF LogInv, Readers, LogsOffset
  <2>3. Position(i, reader.scope) >= LogsOffset(reader.page)
    BY <1>4 DEF LogInv
  <2>4. /\ Position(i, reader.scope) <= Position(i, reader.scope)'
        /\ Position(i, reader.scope)' \in Nat
    BY <1>1, <1>2, RowsMoveBack
  <2>5. QED
    BY <2>1, <2>2, <2>3, <2>4
<1>5. LogWalkHasNoGap'
  BY <1>2 DEF LogInv, LogWalkHasNoGap, Newer
<1>6. /\ reader.start \subseteq Listed(reader.scope)'
      /\ reader.seen \subseteq DOMAIN messages'
  BY <1>1, <1>2 DEF LogInv
<1>7. QED
  BY <1>4, <1>5, <1>6 DEF LogInv, Walking, Readers, LogsOffset

\* Pages follow each other without a gap
LEMMA PageOffsets ==
  ASSUME NEW p \in Nat \ {0}
  PROVE  /\ LogsOffset(p) \in Nat
         /\ LogsOffset(p + 1) = LogsOffset(p) + PageSize
         /\ \A q \in Nat \ {0} : p <= q => LogsOffset(p) <= LogsOffset(q)
<1> USE LogAssumption
<1>1. p - 1 \in Nat
  OBVIOUS
<1>2. \A a, b \in Nat : a <= b => a * PageSize <= b * PageSize
  OBVIOUS
<1>3. ASSUME NEW q \in Nat \ {0}, p <= q
      PROVE  (p - 1) * PageSize <= (q - 1) * PageSize
  <2>1. q - 1 \in Nat /\ p - 1 <= q - 1
    BY <1>3
  <2>2. QED
    BY <1>1, <1>2, <2>1
<1>4. ((p + 1) - 1) * PageSize = (p - 1) * PageSize + PageSize
  OBVIOUS
<1>5. (p - 1) * PageSize \in Nat
  BY <1>1
<1>6. QED
  BY <1>3, <1>4, <1>5 DEF LogsOffset

\* A page past the last becomes the last
LEMMA PageClamped ==
  ASSUME NEW page \in Nat \ {0}, NEW total \in Nat
  PROVE  ClampedPage(page, total) \in Nat \ {0} /\ ClampedPage(page, total) <= page
<1>1. ASSUME total > 0
      PROVE  TotalPages(total) \in Nat \ {0}
  BY <1>1, LogAssumption DEF TotalPages
<1>2. QED
  BY <1>1 DEF ClampedPage

\* What a reader who has read, and stored nothing, must be like
LEMMA ReaderMoves ==
  ASSUME UNCHANGED <<messages, events>>,
         NEW r \in Readers, reader' = r,
         r.start \subseteq Listed(r.scope),
         r.seen \subseteq DOMAIN messages,
         r.pc \in {"count", "list"} =>
           /\ r.page # 0
           /\ \A i \in r.start \ r.seen : Position(i, r.scope) >= LogsOffset(r.page),
         \A i \in r.start : \A j \in r.seen : Newer(i, j) => i \in r.seen
  PROVE  LogInv'
<1>1. /\ Listed(reader.scope)' = Listed(r.scope)
      /\ \A i, j : Newer(i, j)' <=> Newer(i, j)
  BY DEF Listed, Newer
<1>2. \A i : Position(i, reader.scope)' = Position(i, r.scope)
  BY <1>1 DEF Position
<1>3. LogsOffset(reader.page)' = LogsOffset(r.page)
  BY DEF LogsOffset
<1>4. LogWalkHasNoGap'
  BY <1>1 DEF LogWalkHasNoGap
<1>5. QED
  BY <1>1, <1>2, <1>3, <1>4 DEF LogInv, Walking, Readers

\* Reading: the page that is read next is the one after the last, or the last
LEMMA LogRead ==
  ASSUME MessageInv, LogInv, OpenLogs("all") \/ OpenLogs("matched") \/ ReaderStep
  PROVE  LogInv'
<1> USE LogAssumption
<1>1. UNCHANGED <<messages, events>>
  BY DEF OpenLogs, ReaderStep, CountLogs, ListLogs, CloseLogs
<1>3. ASSUME NEW scope \in Scopes, OpenLogs(scope)
      PROVE  LogInv'
  <2>1. reader' = [pc |-> "count", scope |-> scope, page |-> 1, total |-> 0,
                   start |-> Listed(scope), seen |-> {}]
    BY <1>3 DEF OpenLogs
  <2>2. reader' \in Readers
    BY <2>1, RowsFinite DEF Readers
  <2>3. \A i \in Listed(scope) : Position(i, scope) >= LogsOffset(1)
    BY PositionType DEF LogsOffset
  <2>4. QED
    BY <1>1, <2>1, <2>2, <2>3, RowsFinite, ReaderMoves
<1>4. CASE CountLogs
  <2>1. PICK total : /\ total = Cardinality(Listed(reader.scope))
                     /\ reader' = [reader EXCEPT !.pc = "list", !.total = total,
                                                 !.page = ClampedPage(@, total)]
    BY <1>4 DEF CountLogs
  <2>2. total \in Nat
    BY <2>1, RowsFinite, FS_CardinalityType DEF LogInv, Readers
  <2> DEFINE page == ClampedPage(reader.page, total)
  <2>3. /\ reader.pc = "count" /\ reader.page \in Nat \ {0}
        /\ page \in Nat \ {0} /\ page <= reader.page
    BY <1>4, <2>2, PageClamped DEF CountLogs, LogInv, Readers, Walking
  <2>4. reader' = [pc |-> "list", scope |-> reader.scope, page |-> page,
                   total |-> total, start |-> reader.start, seen |-> reader.seen]
    BY <2>1 DEF LogInv, Readers
  <2> HIDE DEF page
  <2>5. \A i \in reader.start \ reader.seen : Position(i, reader.scope) >= LogsOffset(page)
    <3> SUFFICES ASSUME NEW i \in reader.start \ reader.seen
                 PROVE  Position(i, reader.scope) >= LogsOffset(page)
      OBVIOUS
    <3>1. Position(i, reader.scope) \in Nat
      BY PositionType DEF LogInv, Readers
    <3>2. Position(i, reader.scope) >= LogsOffset(reader.page)
      BY <2>3 DEF LogInv, Walking
    <3>3. /\ LogsOffset(page) \in Nat /\ LogsOffset(reader.page) \in Nat
          /\ LogsOffset(page) <= LogsOffset(reader.page)
      BY <2>3, PageOffsets
    <3>4. QED
      BY <3>1, <3>2, <3>3
  <2>6. reader' \in Readers
    BY <2>2, <2>3, <2>4 DEF LogInv, Readers
  <2>7. QED
    BY <1>1, <2>3, <2>4, <2>5, <2>6, ReaderMoves DEF LogInv, LogWalkHasNoGap
<1>5. CASE ListLogs
  <2> DEFINE scope == reader.scope
             rows == PageRows(reader.page, scope)
             more == reader.page < TotalPages(reader.total)
             next == [pc |-> IF more THEN "count" ELSE "read", scope |-> scope,
                      page |-> IF more THEN reader.page + 1 ELSE reader.page,
                      total |-> reader.total, start |-> reader.start,
                      seen |-> reader.seen \cup rows]
  <2>1. reader.pc = "list" /\ reader.page \in Nat \ {0} /\ scope \in Scopes
    BY <1>5 DEF ListLogs, LogInv, Readers, Walking
  <2>2. reader' = next
    BY <1>5 DEF ListLogs, LogInv, Readers
  <2>3. /\ Listed(scope) \subseteq DOMAIN messages /\ DOMAIN messages \subseteq Nat
        /\ rows \subseteq Listed(scope)
        /\ reader.start \subseteq Listed(scope)
        /\ reader.seen \subseteq DOMAIN messages
    BY <2>1, RowsFinite DEF PageRows, LogInv
  <2>4. reader' \in Readers
    BY <2>1, <2>2, <2>3 DEF LogInv, Readers
  <2>5. /\ LogsOffset(reader.page) \in Nat
        /\ LogsOffset(reader.page + 1) = LogsOffset(reader.page) + PageSize
    BY <2>1, PageOffsets
  <2>6. ASSUME NEW i \in reader.start \ (reader.seen \cup rows)
        PROVE  Position(i, scope) >= LogsOffset(reader.page) + PageSize
    <3>1. Position(i, scope) \in Nat /\ Position(i, scope) >= LogsOffset(reader.page)
      BY <2>1, PositionType DEF LogInv, Walking
    <3>2. QED
      BY <2>3, <2>5, <3>1 DEF PageRows
  <2>7. ASSUME NEW i \in reader.start, NEW j \in reader.seen \cup rows, Newer(i, j)
        PROVE  i \in reader.seen \cup rows
    <3>1. CASE j \in reader.seen
      BY <2>7, <3>1 DEF LogInv, LogWalkHasNoGap
    <3>2. CASE j \in rows
      <4>1. /\ Position(i, scope) \in Nat /\ Position(j, scope) \in Nat
            /\ Position(i, scope) <= Position(j, scope)
        BY <2>1, <2>3, <2>7, <3>2, PositionType, NewerIsBefore
      <4>2. Position(j, scope) < LogsOffset(reader.page) + PageSize
        BY <3>2 DEF PageRows
      <4>3. QED
        BY <2>5, <2>6, <4>1, <4>2
    <3>3. QED
      BY <3>1, <3>2
  <2> HIDE DEF rows
  <2>8. next.pc \in {"count", "list"} =>
          /\ next.page = reader.page + 1
          /\ \A i \in next.start \ next.seen :
               Position(i, scope) >= LogsOffset(next.page)
    BY <2>5, <2>6
  <2>9. next.page # 0
    BY <2>1
  <2>10. \A i \in next.start : \A j \in next.seen : Newer(i, j) => i \in next.seen
    BY <2>7
  <2>11. /\ next.scope = scope
         /\ next.start \subseteq Listed(scope)
         /\ next.seen \subseteq DOMAIN messages
    BY <2>3
  <2> HIDE DEF next
  <2>12. QED
    BY <1>1, <2>2, <2>4, <2>8, <2>9, <2>10, <2>11, ReaderMoves
<1>6. CASE CloseLogs
  BY <1>1, <1>6
     DEF CloseLogs, NoReader, LogInv, Readers, Scopes, Walking, LogWalkHasNoGap
<1>7. QED
  BY <1>3, <1>4, <1>5, <1>6 DEF ReaderStep, Scopes

\* Nobody reads at first
LEMMA LogStart == Init => LogInv
<1> SUFFICES ASSUME Init PROVE LogInv
  OBVIOUS
<1>1. reader = [pc |-> "idle", scope |-> "all", page |-> 0, total |-> 0,
                start |-> {}, seen |-> {}]
  BY DEF Init, LogInit, NoReader
<1>2. QED
  BY <1>1 DEF LogInv, Readers, Scopes, Walking, LogWalkHasNoGap

\* No step of any other part disturbs the reader
LEMMA LogStep ==
  ASSUME MessageInv, MessageInv', LogInv, [Next]_vars
  PROVE  LogInv'
<1>1. ASSUME UNCHANGED logVars
      PROVE  LogInv'
  BY <1>1, LogGrows DEF logVars
<1>2. ASSUME Stop
      PROVE  LogInv'
  BY <1>2
     DEF Stop, NoReader, LogInv, Readers, Scopes, Walking, LogWalkHasNoGap, Listed
<1>3. CASE LogsPage
  BY <1>3, LogRead DEF LogsPage
<1>4. ASSUME NEW c \in Callers, SaveMessage(c)
      PROVE  LogInv'
  <2>1. UNCHANGED <<events, reader>>
    BY <1>4 DEF SaveMessage
  <2>2. PICK row : messages' = Append(messages, row)
    BY <1>4 DEF SaveMessage
  <2>3. \A i \in DOMAIN messages : i \in DOMAIN messages' /\ messages'[i] = messages[i]
    BY <2>2, Appended DEF MessageInv
  <2>4. QED
    BY <2>1, <2>3, LogGrows
<1>5. ASSUME NEW c \in Callers, SaveEvent(c)
      PROVE  LogInv'
  BY <1>5, LogGrows DEF SaveEvent
<1>6. ASSUME NEW c \in Callers, Fail(c)
      PROVE  LogInv'
  BY <1>1, <1>2, <1>6 DEF Fail
<1>7. ASSUME NEW c \in Callers, HandleStep(c) \/ FailCall(c)
      PROVE  LogInv'
  BY <1>1, <1>4, <1>5, <1>6, <1>7
     DEF HandleStep, FailCall, ParseSyslog, MatchEmployee, Answer
<1>8. CASE Crash
  BY <1>2, <1>8 DEF Crash
<1>9. CASE \/ Start
           \/ \E msg \in Messages : Receive(msg)
           \/ \E c \in Debuggers, msg \in Messages, at \in Times : Inject(c, msg, at)
           \/ \E a \in RuleAdmins : RulesPage(a)
           \/ \E c \in Clerks : BeginClerk(c) \/ ContinueClerk(c)
           \/ UNCHANGED vars
  BY <1>1, <1>9 DEF Start, Receive, Inject, RulesPage, BeginClerk, ContinueClerk, vars
<1>10. QED
  BY <1>3, <1>7, <1>8, <1>9 DEF Next

\* For any page size and any messages, backdated ones too, that come in between
\* the queries of the log pages: a row listed when the reader began is among
\* those he has seen if an older one is
THEOREM LogWalks == Spec => []LogWalkHasNoGap
<1>1. Spec => []MessageInv
  BY MessagesStart, MessageStep, PTL DEF Spec
<1>2. Spec => []LogInv
  BY <1>1, LogStart, LogStep, PTL DEF Spec
<1>3. LogInv => LogWalkHasNoGap
  BY DEF LogInv
<1>4. QED
  BY <1>2, <1>3, PTL

-----------------------------------------------------------------------------
(* The rules *)

\* A move has read its rule
Moving(a) == editing[a].pc \in {"up", "down", "swap"}

\* Before the first start every order is 0, after it none is, and no request has
\* seen one that was
RulesInv ==
  /\ RulesTypeOK
  /\ rules = [i \in DOMAIN rules |-> rules[i]]
  /\ \A i \in DOMAIN rules : rules[i].order = 0 <=> edits = 0
  /\ edits = 0 /\ up => DOMAIN rules = {}
  /\ \A a \in RuleAdmins :
       /\ editing[a].pc # "idle" => edits # 0
       /\ Moving(a) => editing[a].order # 0
       /\ editing[a].pc = "swap" => editing[a].otherOrder # 0
  /\ OrdersDistinct

\* No rule is listed between the two that a move exchanges
IsNeighbour(edit) ==
  IF edit.otherOrder < edit.order
    THEN \A i \in Candidates("up", edit.order) \ {edit.other} :
           Before(rules, i, edit.other)
    ELSE \A i \in Candidates("down", edit.order) \ {edit.other} :
           Before(rules, edit.other, i)

\* What a move has read is so, unless somebody has committed a change since
MoveFits(edit) ==
  /\ edit.at <= edits
  /\ edit.at = edits =>
       /\ edit.id \in DOMAIN rules /\ rules[edit.id].order = edit.order
       /\ edit.pc = "swap" =>
            OrdersAsRead(edit) /\ IsNeighbour(edit) /\ edit.otherOrder # edit.order

MoveInv == \A a \in RuleAdmins : Moving(a) => MoveFits(editing[a])

-----------------------------------------------------------------------------
(* The rules in their order *)

\* Finitely many things of which any two compare have a last one
LEMMA LastElement ==
  ASSUME NEW S, IsFiniteSet(S), S # {}, NEW R,
         \A x, y \in S : <<x, y>> \in R \/ <<y, x>> \in R,
         \A x, y, z \in S : <<x, y>> \in R /\ <<y, z>> \in R => <<x, z>> \in R
  PROVE  \E last \in S : \A x \in S : <<x, last>> \in R
<1> DEFINE HasLast(U) == \E last \in U : \A x \in U : <<x, last>> \in R
           Sizes == {n \in Nat : \E U \in SUBSET S :
                                   U # {} /\ Cardinality(U) = n /\ ~ HasLast(U)}
<1>1. ASSUME NEW U \in SUBSET S PROVE IsFiniteSet(U) /\ Cardinality(U) \in Nat
  BY FS_Subset, FS_CardinalityType
<1>2. ASSUME ~ HasLast(S) PROVE FALSE
  <2>1. Sizes \in SUBSET Nat /\ Sizes # {}
    <3>1. Cardinality(S) \in Sizes
      BY <1>1, <1>2
    <3>2. QED
      BY <3>1
  <2>2. PICK n \in Sizes : \A k \in Sizes : ~ (k < n)
    <3> HIDE DEF Sizes
    <3>1. PICK n \in Sizes : \A k \in Sizes : ~ (<<k, n>> \in OpToRel(<, Nat))
      BY <2>1, NatLessThanWellFounded, WFMin
    <3>2. \A k \in Sizes : ~ (k < n)
      BY <2>1, <3>1 DEF OpToRel
    <3>3. QED
      BY <3>2
  <2>4. PICK U \in SUBSET S : U # {} /\ Cardinality(U) = n /\ ~ HasLast(U)
    BY <1>1, <2>2
  <2>5. PICK x \in U : TRUE
    BY <2>4
  <2> DEFINE V == U \ {x}
  <2>6. Cardinality(V) = n - 1 /\ n \in Nat /\ Cardinality(V) \in Nat
    BY <1>1, <2>4, <2>5, FS_RemoveElement
  <2>7. V # {}
    BY <2>4, <2>5
  <2>8. HasLast(V)
    <3>1. Cardinality(V) \notin Sizes
      BY <2>2, <2>6
    <3>2. V \in SUBSET S /\ Cardinality(V) \in Nat
      BY <2>6
    <3>3. QED
      BY <2>7, <3>1, <3>2
  <2>9. PICK last \in V : \A y \in V : <<y, last>> \in R
    BY <2>8
  <2>10. CASE <<x, last>> \in R
    BY <2>4, <2>9, <2>10
  <2>11. CASE <<x, last>> \notin R
    <3>1. <<last, x>> \in R /\ <<x, x>> \in R
      BY <2>4, <2>5, <2>9, <2>11
    <3>2. \A y \in U : <<y, x>> \in R
      BY <2>4, <2>5, <2>9, <3>1
    <3>3. QED
      BY <2>4, <2>5, <3>2
  <2>12. QED
    BY <2>10, <2>11
<1>3. QED
  BY <1>2

\* The listing's order is total
LEMMA BeforeIsAnOrder ==
  ASSUME NEW table, NEW ids \in SUBSET Nat, \A i \in ids : table[i].order \in Nat
  PROVE  /\ \A i, j \in ids : Before(table, i, j) \/ Before(table, j, i) \/ i = j
         /\ \A i, j \in ids : Before(table, i, j) => ~ Before(table, j, i) /\ i # j
         /\ \A i, j, k \in ids :
              Before(table, i, j) /\ Before(table, j, k) => Before(table, i, k)
<1>1. \A i \in ids : i \in Nat /\ table[i].order \in Nat
  OBVIOUS
<1>2. \A i, j \in ids : Before(table, i, j) \/ Before(table, j, i) \/ i = j
  BY <1>1 DEF Before
<1>3. \A i, j \in ids : Before(table, i, j) => ~ Before(table, j, i) /\ i # j
  BY <1>1 DEF Before
<1>4. ASSUME NEW i \in ids, NEW j \in ids, NEW k \in ids,
             Before(table, i, j), Before(table, j, k)
      PROVE  Before(table, i, k)
  BY <1>1, <1>4 DEF Before
<1>5. QED
  BY <1>2, <1>3, <1>4

\* ORDER BY has a first and a last row, whatever the orders
LEMMA ListingEnds ==
  ASSUME NEW table, NEW ids \in SUBSET Nat, IsFiniteSet(ids), ids # {},
         \A i \in ids : table[i].order \in Nat
  PROVE  /\ FirstRule(table, ids) \in ids
         /\ \A j \in ids \ {FirstRule(table, ids)} : Before(table, FirstRule(table, ids), j)
         /\ \E i \in ids : \A j \in ids \ {i} : Before(table, j, i)
<1> DEFINE Up == {p \in ids \X ids : p[1] = p[2] \/ Before(table, p[1], p[2])}
           Down == {p \in ids \X ids : p[1] = p[2] \/ Before(table, p[2], p[1])}
<1>1. /\ \A i, j \in ids : Before(table, i, j) \/ Before(table, j, i) \/ i = j
      /\ \A i, j, k \in ids :
           Before(table, i, j) /\ Before(table, j, k) => Before(table, i, k)
  BY BeforeIsAnOrder
<1>2. /\ \A i, j \in ids : <<i, j>> \in Up <=> i = j \/ Before(table, i, j)
      /\ \A i, j \in ids : <<i, j>> \in Down <=> i = j \/ Before(table, j, i)
  OBVIOUS
<1> HIDE DEF Up, Down
<1>3. \E i \in ids : \A j \in ids : <<j, i>> \in Up
  BY <1>1, <1>2, LastElement
<1>4. \E i \in ids : \A j \in ids : <<j, i>> \in Down
  BY <1>1, <1>2, LastElement
<1>5. \E i \in ids : \A j \in ids \ {i} : Before(table, i, j)
  BY <1>2, <1>4
<1>6. \E i \in ids : \A j \in ids \ {i} : Before(table, j, i)
  BY <1>2, <1>3
<1>7. QED
  BY <1>5, <1>6 DEF FirstRule

\* COALESCE(MAX(...), 0) + 1 is an order no rule has
LEMMA NextOrderIsNew ==
  ASSUME IsFiniteSet(DOMAIN rules), \A i \in DOMAIN rules : rules[i].order \in Nat
  PROVE  /\ NextOrder \in Nat \ {0}
         /\ \A i \in DOMAIN rules : rules[i].order < NextOrder
<1> DEFINE orders == {rules[i].order : i \in DOMAIN rules}
           R == {p \in (DOMAIN rules) \X (DOMAIN rules) :
                   rules[p[1]].order <= rules[p[2]].order}
<1>1. \E m \in orders \cup {0} : \A k \in orders \cup {0} : m >= k
  <2>1. CASE DOMAIN rules = {}
    BY <2>1
  <2>2. CASE DOMAIN rules # {}
    <3>1. \A i, j \in DOMAIN rules : <<i, j>> \in R <=> rules[i].order <= rules[j].order
      OBVIOUS
    <3> HIDE DEF R
    <3>2. /\ \A i, j \in DOMAIN rules : <<i, j>> \in R \/ <<j, i>> \in R
          /\ \A i, j, k \in DOMAIN rules :
               <<i, j>> \in R /\ <<j, k>> \in R => <<i, k>> \in R
      BY <3>1
    <3>3. PICK i \in DOMAIN rules : \A j \in DOMAIN rules : <<j, i>> \in R
      BY <2>2, <3>2, LastElement
    <3>4. \A j \in DOMAIN rules : rules[i].order >= rules[j].order
      BY <3>1, <3>3
    <3>5. rules[i].order >= 0
      OBVIOUS
    <3>6. \A k \in orders \cup {0} : rules[i].order >= k
      BY <3>4, <3>5
    <3>7. QED
      BY <3>6
  <2>3. QED
    BY <2>1, <2>2
<1>2. orders \subseteq Nat
  OBVIOUS
<1> DEFINE m == Max(orders \cup {0})
<1>3. m \in orders \cup {0} /\ \A k \in orders \cup {0} : m >= k
  BY <1>1 DEF Max
<1>4. NextOrder = 1 + m
  BY DEF NextOrder
<1> HIDE DEF m
<1>5. QED
  BY <1>2, <1>3, <1>4

\* Rules are finitely many, and their fields are what they should be
LEMMA RulesFinite ==
  ASSUME RulesTypeOK
  PROVE  /\ DOMAIN rules \subseteq Nat \ {0}
         /\ IsFiniteSet(DOMAIN rules)
         /\ nextRule \notin DOMAIN rules
         /\ \A i \in DOMAIN rules :
              /\ rules[i].order \in Nat
              /\ rules[i] = [name |-> rules[i].name, enabled |-> rules[i].enabled,
                             pattern |-> rules[i].pattern, order |-> rules[i].order]
<1>1. nextRule \in Nat \ {0} /\ DOMAIN rules \subseteq 1..(nextRule - 1)
  BY DEF RulesTypeOK
<1>2. nextRule - 1 \in Nat
  BY <1>1
<1>3. IsFiniteSet(1..(nextRule - 1))
  BY <1>2, FS_Interval
<1>4. IsFiniteSet(DOMAIN rules)
  BY <1>1, <1>3, FS_Subset
<1>5. DOMAIN rules \subseteq Nat \ {0} /\ nextRule \notin DOMAIN rules
  BY <1>1
<1>6. \A i \in DOMAIN rules : rules[i] \in Rules
  BY DEF RulesTypeOK
<1>7. QED
  BY <1>4, <1>5, <1>6 DEF Rules

\* The names a request or a migration may bring, and what they become
LEMMA WithOrderType ==
  ASSUME NEW input \in Inputs(Names), NEW order \in Nat
  PROVE  WithOrder(input, order) \in Rules /\ WithOrder(input, order).order = order
  BY DEF WithOrder, Inputs, Rules

\* INSERT IGNORE leaves what is in the table and adds the missing defaults behind
LEMMA SeedingAdds ==
  ASSUME nextRule \in Nat \ {0}, NEW table, DOMAIN table \subseteq 1..(nextRule - 1)
  PROVE  /\ Cardinality(Missing(table)) \in Nat
         /\ Missing(table) = {} => Cardinality(Missing(table)) = 0
         /\ DOMAIN table \subseteq DOMAIN Seeded(table)
         /\ DOMAIN Seeded(table) \subseteq 1..(nextRule + Cardinality(Missing(table)) - 1)
         /\ Seeded(table) = [i \in DOMAIN Seeded(table) |-> Seeded(table)[i]]
         /\ \A i \in DOMAIN table : Seeded(table)[i] = table[i]
         /\ \A i \in DOMAIN Seeded(table) \ DOMAIN table :
              \E n \in Missing(table) : /\ i = SeedID(table, n)
                                        /\ n \in Nat \ {0}
                                        /\ Defaults[n] \in Inputs(Names)
                                        /\ Seeded(table)[i] = WithOrder(Defaults[n], n)
<1> DEFINE M == Missing(table)
           new == {SeedID(table, n) : n \in M}
<1>1. /\ Len(Defaults) \in Nat /\ DOMAIN Defaults = 1..Len(Defaults)
      /\ \A n \in DOMAIN Defaults : Defaults[n] \in Inputs(Names)
  <2>1. Defaults \in Seq(Inputs(Names))
    BY RulesAssumption
  <2>2. QED
    BY <2>1, ElementOfSeq
<1>2. M \subseteq 1..Len(Defaults)
  BY <1>1 DEF Missing
<1>3. IsFiniteSet(M)
  BY <1>1, <1>2, UpToFinite, FS_Subset
<1>4. Cardinality(M) \in Nat /\ (M = {} => Cardinality(M) = 0)
  BY <1>3, FS_CardinalityType, FS_EmptySet
<1>5. ASSUME NEW n \in M
      PROVE  SeedID(table, n) \in nextRule..(nextRule + Cardinality(M) - 1)
  <2> DEFINE before == {k \in M : k < n}
  <2>1. before \in SUBSET M /\ n \notin before /\ before # M
    BY <1>2, <1>5
  <2>2. /\ IsFiniteSet(before)
        /\ Cardinality(before) <= Cardinality(M) /\ Cardinality(before) # Cardinality(M)
    BY <1>3, <2>1, FS_Subset
  <2>3. Cardinality(before) \in Nat
    BY <2>2, FS_CardinalityType
  <2>4. SeedID(table, n) = nextRule + Cardinality(before)
    BY DEF SeedID
  <2> HIDE DEF before, M
  <2>5. QED
    BY <1>4, <2>2, <2>3, <2>4
<1>6. new \subseteq nextRule..(nextRule + Cardinality(M) - 1)
  BY <1>5
<1>7. Seeded(table) = [i \in DOMAIN table \cup new |->
                         IF i \in DOMAIN table THEN table[i]
                         ELSE LET n == CHOOSE k \in M : SeedID(table, k) = i
                              IN  WithOrder(Defaults[n], n)]
  BY DEF Seeded
<1>8. DOMAIN Seeded(table) = DOMAIN table \cup new
  BY <1>7
<1>9. \A i \in DOMAIN table : Seeded(table)[i] = table[i]
  BY <1>7
<1>10. ASSUME NEW i \in new, i \notin DOMAIN table
       PROVE  \E n \in M : /\ i = SeedID(table, n)
                           /\ n \in Nat \ {0}
                           /\ Defaults[n] \in Inputs(Names)
                           /\ Seeded(table)[i] = WithOrder(Defaults[n], n)
  <2> DEFINE n == CHOOSE k \in M : SeedID(table, k) = i
  <2>1. \E k \in M : SeedID(table, k) = i
    BY <1>10
  <2>2. n \in M /\ SeedID(table, n) = i
    BY <2>1
  <2>3. Seeded(table)[i] = WithOrder(Defaults[n], n)
    BY <1>7, <1>10
  <2> HIDE DEF n
  <2>4. QED
    BY <1>1, <1>2, <2>2, <2>3
<1>11. DOMAIN table \cup new \subseteq 1..(nextRule + Cardinality(M) - 1)
  BY <1>4, <1>6
<1>12. Seeded(table) = [i \in DOMAIN Seeded(table) |-> Seeded(table)[i]]
  BY <1>7
<1> HIDE DEF new, M
<1>13. QED
  BY <1>4, <1>8, <1>9, <1>10, <1>11, <1>12 DEF M

\* A table of an older version, or none
LEMMA RulesStart == Init => RulesInv
<1> SUFFICES ASSUME NEW old \in {<<>>, OldRules}, RulesInit(old), up = FALSE
             PROVE  RulesInv
  BY DEF Init
<1>1. /\ Len(old) \in Nat /\ DOMAIN old = 1..Len(old)
      /\ \A i \in DOMAIN old : old[i] \in Inputs(Names)
  <2>1. OldRules \in Seq(Inputs(Names)) /\ <<>> \in Seq(Inputs(Names))
    BY RulesAssumption
  <2>2. old \in Seq(Inputs(Names))
    BY <2>1
  <2>3. QED
    BY <2>2, ElementOfSeq
<1>2. /\ DOMAIN rules = 1..Len(old)
      /\ rules = [i \in DOMAIN rules |-> rules[i]]
      /\ \A i \in DOMAIN rules : rules[i] = WithOrder(old[i], 0)
  BY <1>1 DEF RulesInit
<1>3. \A i \in DOMAIN rules : rules[i] \in Rules /\ rules[i].order = 0
  BY <1>1, <1>2, WithOrderType
<1>4. nextRule = Len(old) + 1
  <2>1. Cardinality(1..Len(old)) = Len(old)
    BY <1>1, FS_Interval
  <2>2. QED
    BY <1>2, <2>1 DEF RulesInit
<1>5. edits = 0 /\ tied = FALSE /\ editing = [a \in RuleAdmins |-> NoEdit]
  BY DEF RulesInit
<1>6. editing \in [RuleAdmins -> Edits] /\ \A a \in RuleAdmins : editing[a].pc = "idle"
  BY <1>5 DEF NoEdit, Edits
<1>7. RulesTypeOK
  <2>1. DOMAIN rules \subseteq 1..(nextRule - 1) /\ nextRule \in Nat \ {0}
    BY <1>1, <1>2, <1>4
  <2>2. QED
    BY <1>3, <1>5, <1>6, <2>1 DEF RulesTypeOK
<1>8. QED
  BY <1>2, <1>3, <1>5, <1>6, <1>7 DEF RulesInv, Moving, OrdersDistinct

\* What every edit of the table but a start's must leave
LEMMA RulesCommitted ==
  ASSUME RulesInv, NEW table, Committed(table),
         editing' \in [RuleAdmins -> Edits],
         \A a \in RuleAdmins : editing'[a] \in {editing[a], NoEdit},
         nextRule' \in Nat \ {0}, DOMAIN table \subseteq 1..(nextRule' - 1),
         \A i \in DOMAIN table : table[i] \in Rules /\ table[i].order # 0,
         table = [i \in DOMAIN table |-> table[i]],
         tied' \in BOOLEAN,
         tied' \/ DistinctOrders(table)
  PROVE  RulesInv'
<1>1. rules' = table /\ edits' = edits + 1 /\ edits \in Nat
  BY DEF Committed, RulesInv, RulesTypeOK
<1>2. edits' \in Nat /\ edits' # 0
  BY <1>1
<1>3. RulesTypeOK'
  BY <1>1, <1>2 DEF RulesTypeOK
<1>4. \A a \in RuleAdmins :
        /\ Moving(a)' => editing'[a].order # 0
        /\ editing'[a].pc = "swap" => editing'[a].otherOrder # 0
  BY DEF RulesInv, Moving, NoEdit
<1>5. OrdersDistinct'
  BY <1>1 DEF OrdersDistinct, DistinctOrders
<1>6. QED
  BY <1>1, <1>2, <1>3, <1>4, <1>5 DEF RulesInv

\* What a request's reads must leave
LEMMA RulesRead ==
  ASSUME RulesInv, UNCHANGED <<rules, nextRule, edits, tied>>, up' => up,
         editing' \in [RuleAdmins -> Edits],
         \A a \in RuleAdmins :
           \/ editing'[a] \in {editing[a], NoEdit}
           \/ /\ edits # 0
              /\ Moving(a)' => editing'[a].order # 0
              /\ editing'[a].pc = "swap" => editing'[a].otherOrder # 0
  PROVE  RulesInv'
<1>1. RulesTypeOK' /\ OrdersDistinct'
  BY DEF RulesInv, RulesTypeOK, OrdersDistinct, DistinctOrders
<1>2. \A a \in RuleAdmins :
        /\ editing'[a].pc # "idle" => edits # 0
        /\ Moving(a)' => editing'[a].order # 0
        /\ editing'[a].pc = "swap" => editing'[a].otherOrder # 0
  BY DEF RulesInv, Moving, NoEdit
<1>3. QED
  BY <1>1, <1>2 DEF RulesInv

\* A start
LEMMA RulesMigrate ==
  ASSUME RulesInv, Start
  PROVE  RulesInv'
<1> DEFINE table == Renumbered(rules)
           M == Missing(rules)
<1>1. /\ rules' = Seeded(table) /\ nextRule' = nextRule + Cardinality(M)
      /\ edits' = (IF rules' = rules THEN edits ELSE edits + 1)
      /\ tied' = (tied \/ (M # {} /\ rules # NoRules))
      /\ editing' = editing
  BY DEF Start, Migrate
<1>2. /\ DOMAIN rules \subseteq 1..(nextRule - 1) /\ nextRule \in Nat \ {0}
      /\ edits \in Nat /\ tied \in BOOLEAN
      /\ \A i \in DOMAIN rules : rules[i] \in Rules /\ (rules[i].order = 0 <=> edits = 0)
  BY DEF RulesInv, RulesTypeOK
<1>3. /\ DOMAIN table = DOMAIN rules
      /\ \A i \in DOMAIN rules :
           /\ table[i] = IF edits = 0 THEN [rules[i] EXCEPT !.order = i] ELSE rules[i]
           /\ table[i].name = rules[i].name
  BY <1>2 DEF Renumbered, Rules
<1>4. edits # 0 => table = rules
  BY <1>2 DEF Renumbered, RulesInv
<1>5. \A i \in DOMAIN rules :
        /\ table[i] \in Rules /\ table[i].order # 0
        /\ edits = 0 => table[i].order = i
  BY <1>2, <1>3 DEF Rules
<1>6. Missing(table) = M
  BY <1>3 DEF Missing, NameTaken
<1>7. /\ Cardinality(M) \in Nat
      /\ M = {} => Cardinality(M) = 0
      /\ DOMAIN rules \subseteq DOMAIN rules'
      /\ DOMAIN rules' \subseteq 1..(nextRule + Cardinality(M) - 1)
      /\ rules' = [i \in DOMAIN rules' |-> rules'[i]]
      /\ \A i \in DOMAIN rules : rules'[i] = table[i]
      /\ \A i \in DOMAIN rules' \ DOMAIN rules :
           \E n \in M : /\ i = SeedID(table, n)
                        /\ n \in Nat \ {0}
                        /\ Defaults[n] \in Inputs(Names)
                        /\ rules'[i] = WithOrder(Defaults[n], n)
  <2> HIDE DEF table, M
  <2>1. DOMAIN table \subseteq 1..(nextRule - 1)
    BY <1>2, <1>3
  <2>2. QED
    BY <1>1, <1>2, <1>3, <1>6, <2>1, SeedingAdds
<1> HIDE DEF table, M
<1>8. \A i \in DOMAIN rules' : rules'[i] \in Rules /\ rules'[i].order # 0
  BY <1>5, <1>7, WithOrderType
<1>9. edits' \in Nat /\ tied' \in BOOLEAN /\ nextRule' \in Nat \ {0}
  BY <1>1, <1>2, <1>7
<1>10. edits' = 0 => edits = 0 /\ rules' = rules /\ DOMAIN rules' = {}
  <2>1. SUFFICES ASSUME edits' = 0
                 PROVE  edits = 0 /\ rules' = rules /\ DOMAIN rules' = {}
    OBVIOUS
  <2>2. edits = 0 /\ rules' = rules
    BY <1>1, <1>2, <2>1
  <2>3. ASSUME NEW i \in DOMAIN rules PROVE FALSE
    <3>1. rules[i].order = 0
      BY <1>2, <2>2
    <3>2. rules'[i].order # 0
      BY <1>5, <1>7
    <3>3. QED
      BY <2>2, <3>1, <3>2
  <2>4. QED
    BY <2>2, <2>3
<1>11. RulesTypeOK'
  BY <1>1, <1>7, <1>8, <1>9 DEF RulesTypeOK, RulesInv
<1>12. OrdersDistinct'
  <2>1. SUFFICES ASSUME edits' # 0, ~ tied'
                 PROVE  DistinctOrders(rules')
    BY DEF OrdersDistinct
  <2>2. CASE M = {}
    <3>1. DOMAIN rules' = DOMAIN rules
      BY <1>7, <2>2
    <3>2. CASE edits = 0
      BY <1>5, <1>7, <3>1, <3>2 DEF DistinctOrders
    <3>3. CASE edits # 0
      <4>1. ~ tied
        BY <1>1, <1>2, <2>1
      <4>2. DistinctOrders(rules)
        BY <3>3, <4>1 DEF RulesInv, OrdersDistinct
      <4>3. \A i \in DOMAIN rules : rules'[i] = rules[i]
        BY <1>4, <1>7, <3>3
      <4>4. QED
        BY <3>1, <4>2, <4>3 DEF DistinctOrders
    <3>4. QED
      BY <3>2, <3>3
  <2>3. CASE rules = NoRules
    <3>1. DOMAIN rules = {}
      BY <2>3 DEF NoRules
    <3>2. \A i \in DOMAIN rules' :
            rules'[i].order \in Nat /\ i = SeedID(table, rules'[i].order)
      BY <1>7, <3>1, WithOrderType
    <3>3. QED
      BY <3>2 DEF DistinctOrders
  <2>4. QED
    BY <1>1, <2>1, <2>2, <2>3
<1>13. \A a \in RuleAdmins :
         /\ editing'[a].pc # "idle" => edits' # 0
         /\ Moving(a)' => editing'[a].order # 0
         /\ editing'[a].pc = "swap" => editing'[a].otherOrder # 0
  BY <1>1, <1>10 DEF RulesInv, Moving
<1>14. \A i \in DOMAIN rules' : rules'[i].order = 0 <=> edits' = 0
  BY <1>8, <1>10
<1>15. QED
  BY <1>7, <1>10, <1>11, <1>12, <1>13, <1>14 DEF RulesInv

\* A new rule, behind all others
LEMMA RuleCreated ==
  ASSUME RulesInv, up, NEW a \in RuleAdmins, NEW input \in RuleInputs, CreateRule(a, input)
  PROVE  RulesInv'
<1> DEFINE table == [i \in DOMAIN rules \cup {nextRule} |->
                       IF i = nextRule THEN WithOrder(input, NextOrder) ELSE rules[i]]
<1>1. Committed(table) /\ nextRule' = nextRule + 1 /\ UNCHANGED <<editing, tied>>
  BY DEF CreateRule
<1>2. RulesTypeOK
  BY DEF RulesInv
<1>3. /\ nextRule \notin DOMAIN rules /\ IsFiniteSet(DOMAIN rules)
      /\ \A i \in DOMAIN rules : rules[i].order \in Nat
  BY <1>2, RulesFinite
<1>4. NextOrder \in Nat \ {0} /\ \A i \in DOMAIN rules : rules[i].order < NextOrder
  BY <1>3, NextOrderIsNew
<1>5. /\ WithOrder(input, NextOrder) \in Rules
      /\ WithOrder(input, NextOrder).order = NextOrder
  <2>1. input \in Inputs(Names)
    BY RulesAssumption
  <2>2. QED
    BY <1>4, <2>1, WithOrderType
<1>6. edits = 0 => DOMAIN rules = {}
  BY DEF RulesInv
<1>7. /\ DOMAIN table = DOMAIN rules \cup {nextRule}
      /\ table[nextRule] = WithOrder(input, NextOrder)
      /\ \A i \in DOMAIN rules : table[i] = rules[i]
      /\ table = [i \in DOMAIN table |-> table[i]]
  BY <1>3
<1> HIDE DEF table
<1>8. \A i \in DOMAIN table : table[i] \in Rules /\ table[i].order # 0
  BY <1>2, <1>4, <1>5, <1>6, <1>7 DEF RulesInv, RulesTypeOK
<1>9. nextRule' \in Nat \ {0} /\ DOMAIN table \subseteq 1..(nextRule' - 1)
  BY <1>1, <1>2, <1>7 DEF RulesTypeOK
<1>10. tied' \/ DistinctOrders(table)
  <2>1. SUFFICES ASSUME ~ tied
                 PROVE  DistinctOrders(table)
    BY <1>1
  <2>2. DistinctOrders(rules)
    BY <1>6, <2>1 DEF RulesInv, OrdersDistinct, DistinctOrders
  <2>3. QED
    BY <1>3, <1>4, <1>5, <1>7, <2>2 DEF DistinctOrders
<1>11. editing' \in [RuleAdmins -> Edits] /\ tied' \in BOOLEAN
  BY <1>1, <1>2 DEF RulesTypeOK
<1>12. QED
  BY <1>1, <1>7, <1>8, <1>9, <1>10, <1>11, RulesCommitted

\* The end of an edit
LEMMA EditEnds ==
  ASSUME RulesTypeOK, NEW a \in RuleAdmins, EndEdit(a)
  PROVE  /\ editing' \in [RuleAdmins -> Edits]
         /\ editing'[a] = NoEdit
         /\ \A b \in RuleAdmins \ {a} : editing'[b] = editing[b]
<1>1. NoEdit \in Edits
  BY DEF NoEdit, Edits
<1>2. QED
  BY <1>1 DEF EndEdit, RulesTypeOK

\* An update keeps the rule's order, a deletion the others'
LEMMA RuleSaved ==
  ASSUME RulesInv, UNCHANGED up, NEW a \in RuleAdmins,
         DeleteRule(a) \/ \E input \in RuleInputs : UpdateRule(a, input)
  PROVE  RulesInv'
<1> DEFINE id == editing[a].id
<1>1. RulesTypeOK /\ editing[a].pc = "found" /\ EndEdit(a) /\ UNCHANGED <<nextRule, tied>>
  BY DEF RulesInv, DeleteRule, UpdateRule
<1>2. /\ editing' \in [RuleAdmins -> Edits]
      /\ \A b \in RuleAdmins : editing'[b] \in {editing[b], NoEdit}
  BY <1>1, EditEnds
<1>3. /\ tied' \in BOOLEAN /\ tied' = tied /\ nextRule' = nextRule
      /\ nextRule' \in Nat \ {0} /\ DOMAIN rules \subseteq 1..(nextRule' - 1)
  BY <1>1 DEF RulesTypeOK
<1>4. \A i \in DOMAIN rules : rules[i] \in Rules /\ rules[i].order # 0
  BY <1>1 DEF RulesInv, RulesTypeOK
<1>5. tied \/ DistinctOrders(rules)
  BY <1>1 DEF RulesInv, OrdersDistinct
<1>6. CASE UNCHANGED <<rules, edits>>
  BY <1>1, <1>2, <1>6, RulesRead
<1>7. CASE DeleteRule(a) /\ id \in DOMAIN rules
  <2>1. Committed(Without(id))
    BY <1>7 DEF DeleteRule
  <2>2. /\ DOMAIN Without(id) = DOMAIN rules \ {id}
        /\ \A i \in DOMAIN Without(id) : Without(id)[i] = rules[i]
        /\ Without(id) = [i \in DOMAIN Without(id) |-> Without(id)[i]]
    BY DEF Without, Restrict
  <2>3. tied' \/ DistinctOrders(Without(id))
    BY <1>3, <1>5, <2>2 DEF DistinctOrders
  <2>4. /\ DOMAIN Without(id) \subseteq 1..(nextRule' - 1)
        /\ \A i \in DOMAIN Without(id) :
             Without(id)[i] \in Rules /\ Without(id)[i].order # 0
    BY <1>3, <1>4, <2>2
  <2>5. QED
    BY <1>2, <1>3, <2>1, <2>2, <2>3, <2>4, RulesCommitted
<1>8. ASSUME NEW input \in RuleInputs, UpdateRule(a, input), ~ UNCHANGED <<rules, edits>>
      PROVE  RulesInv'
  <2> DEFINE table == [rules EXCEPT ![id] = WithOrder(input, rules[id].order)]
  <2>1. id \in DOMAIN rules /\ Committed(table)
    BY <1>8 DEF UpdateRule
  <2>2. /\ rules[id].order \in Nat
        /\ WithOrder(input, rules[id].order) \in Rules
        /\ WithOrder(input, rules[id].order).order = rules[id].order
    <3>1. input \in Inputs(Names)
      BY RulesAssumption
    <3>2. rules[id].order \in Nat
      BY <1>1, <2>1, RulesFinite
    <3>3. QED
      BY <3>1, <3>2, WithOrderType
  <2>3. /\ DOMAIN table = DOMAIN rules
        /\ \A i \in DOMAIN rules : table[i].order = rules[i].order
        /\ \A i \in DOMAIN rules : table[i] \in Rules
        /\ table = [i \in DOMAIN table |-> table[i]]
    BY <1>4, <2>1, <2>2
  <2> HIDE DEF table
  <2>4. tied' \/ DistinctOrders(table)
    BY <1>3, <1>5, <2>3 DEF DistinctOrders
  <2>5. /\ DOMAIN table \subseteq 1..(nextRule' - 1)
        /\ \A i \in DOMAIN table : table[i] \in Rules /\ table[i].order # 0
    BY <1>3, <1>4, <2>3
  <2>6. QED
    BY <1>2, <1>3, <2>1, <2>3, <2>4, <2>5, RulesCommitted
<1>9. QED
  BY <1>6, <1>7, <1>8 DEF DeleteRule

\* A neighbour is one of the candidates, next to the rule among them
LEMMA NeighbourIs ==
  ASSUME RulesTypeOK, NEW direction \in {"up", "down"}, NEW order \in Nat,
         Candidates(direction, order) # {}
  PROVE  LET ids == Candidates(direction, order)
             i == Neighbour(direction, ids)
         IN  /\ i \in ids
             /\ \A j \in ids \ {i} : IF direction = "up" THEN Before(rules, j, i)
                                                         ELSE Before(rules, i, j)
<1> DEFINE ids == Candidates(direction, order)
<1>1. ids \in SUBSET DOMAIN rules
  BY DEF Candidates
<1>2. IsFiniteSet(ids) /\ ids \in SUBSET Nat /\ \A i \in ids : rules[i].order \in Nat
  BY <1>1, RulesFinite, FS_Subset
<1> HIDE DEF ids
<1>3. /\ FirstRule(rules, ids) \in ids
      /\ \A j \in ids \ {FirstRule(rules, ids)} : Before(rules, FirstRule(rules, ids), j)
      /\ \E i \in ids : \A j \in ids \ {i} : Before(rules, j, i)
  <2>1. ids # {}
    BY DEF ids
  <2>2. QED
    BY <1>2, <2>1, ListingEnds
<1>4. CASE direction = "up"
  <2> DEFINE i == CHOOSE i \in ids : \A j \in ids \ {i} : Before(rules, j, i)
  <2>1. i \in ids /\ \A j \in ids \ {i} : Before(rules, j, i)
    BY <1>3
  <2>2. Neighbour(direction, ids) = i
    BY <1>4 DEF Neighbour
  <2> HIDE DEF i
  <2>3. QED
    BY <1>4, <2>1, <2>2 DEF ids
<1>5. CASE direction = "down"
  <2>1. Neighbour(direction, ids) = FirstRule(rules, ids)
    BY <1>5 DEF Neighbour
  <2>2. QED
    BY <1>3, <1>5, <2>1 DEF ids
<1>6. QED
  BY <1>4, <1>5

\* The fields of a move's reads
LEMMA EditFields ==
  ASSUME RulesTypeOK, NEW a \in RuleAdmins
  PROVE  /\ editing[a] \in Edits
         /\ editing[a] = [pc |-> editing[a].pc, id |-> editing[a].id,
                          order |-> editing[a].order, other |-> editing[a].other,
                          otherOrder |-> editing[a].otherOrder, at |-> editing[a].at]
  BY DEF RulesTypeOK, Edits

\* A move's first read, and the search of a request that updates or deletes
LEMMA RuleFound ==
  ASSUME RulesInv, up, UNCHANGED up, NEW a \in RuleAdmins, NEW id \in DOMAIN rules,
         \/ FindRule(a, id)
         \/ \E direction \in {"up", "down"} : ReadCurrent(a, id, direction)
  PROVE  /\ RulesInv'
         /\ UNCHANGED <<rules, edits>>
         /\ \A b \in RuleAdmins \ {a} : editing'[b] = editing[b]
         /\ Moving(a)' => /\ editing'[a].pc \in {"up", "down"}
                          /\ editing'[a].id = id
                          /\ editing'[a].order = rules[id].order
                          /\ editing'[a].at = edits
<1>1. RulesTypeOK /\ UNCHANGED <<rules, nextRule, edits, tied>>
  BY DEF RulesInv, FindRule, ReadCurrent
<1>2. /\ edits # 0 /\ edits \in Nat /\ id \in Nat
      /\ rules[id].order # 0 /\ rules[id].order \in Nat
  BY <1>1, RulesFinite DEF RulesInv, RulesTypeOK
<1>3. PICK edit \in Edits :
        /\ editing' = [editing EXCEPT ![a] = edit]
        /\ edit.pc \in {"found", "up", "down"}
        /\ edit.id = id
        /\ edit.pc # "found" => edit.order = rules[id].order /\ edit.at = edits
  <2>1. CASE FindRule(a, id)
    <3> DEFINE edit == [NoEdit EXCEPT !.pc = "found", !.id = id]
    <3>1. edit \in Edits /\ edit.pc = "found" /\ edit.id = id
      BY <1>2 DEF NoEdit, Edits
    <3>2. editing' = [editing EXCEPT ![a] = edit]
      BY <2>1 DEF FindRule
    <3> HIDE DEF edit
    <3>3. QED
      BY <3>1, <3>2
  <2>2. ASSUME NEW direction \in {"up", "down"}, ReadCurrent(a, id, direction)
        PROVE  \E edit \in Edits :
                 /\ editing' = [editing EXCEPT ![a] = edit]
                 /\ edit.pc \in {"found", "up", "down"}
                 /\ edit.id = id
                 /\ edit.pc # "found" => edit.order = rules[id].order /\ edit.at = edits
    <3> DEFINE edit == [NoEdit EXCEPT !.pc = direction, !.id = id,
                                      !.order = rules[id].order, !.at = edits]
    <3>1. /\ edit \in Edits /\ edit.pc \in {"up", "down"} /\ edit.id = id
          /\ edit.order = rules[id].order /\ edit.at = edits
      BY <1>2 DEF NoEdit, Edits
    <3>2. editing' = [editing EXCEPT ![a] = edit]
      BY <2>2 DEF ReadCurrent
    <3> HIDE DEF edit
    <3>3. QED
      BY <3>1, <3>2
  <2>3. QED
    BY <2>1, <2>2
<1>4. /\ editing' \in [RuleAdmins -> Edits]
      /\ editing'[a] = edit
      /\ \A b \in RuleAdmins \ {a} : editing'[b] = editing[b]
  BY <1>1, <1>3 DEF RulesTypeOK
<1>5. RulesInv'
  BY <1>1, <1>2, <1>3, <1>4, RulesRead DEF Moving
<1>6. QED
  BY <1>1, <1>3, <1>4, <1>5 DEF Moving

\* A move's second read
LEMMA RuleNeighbour ==
  ASSUME RulesInv, NEW a \in RuleAdmins, ReadNeighbour(a), UNCHANGED up
  PROVE  /\ RulesInv'
         /\ UNCHANGED <<rules, edits>>
         /\ \A b \in RuleAdmins \ {a} : editing'[b] = editing[b]
         /\ editing[a].pc \in {"up", "down"}
         /\ Moving(a)' =>
              LET ids == Candidates(editing[a].pc, editing[a].order)
                  i == Neighbour(editing[a].pc, ids)
              IN  /\ ids # {}
                  /\ editing'[a] = [editing[a] EXCEPT !.pc = "swap", !.other = i,
                                                      !.otherOrder = rules[i].order]
<1> DEFINE edit == editing[a]
           ids == Candidates(edit.pc, edit.order)
           i == Neighbour(edit.pc, ids)
           next == [edit EXCEPT !.pc = "swap", !.other = i, !.otherOrder = rules[i].order]
<1>1. /\ RulesTypeOK /\ edit.pc \in {"up", "down"}
      /\ UNCHANGED <<rules, nextRule, edits, tied>>
      /\ IF ids = {} THEN EndEdit(a) ELSE editing' = [editing EXCEPT ![a] = next]
  BY DEF RulesInv, ReadNeighbour
<1>2. CASE ids = {}
  <2>1. /\ editing' \in [RuleAdmins -> Edits]
        /\ editing'[a] = NoEdit
        /\ \A b \in RuleAdmins \ {a} : editing'[b] = editing[b]
    BY <1>1, <1>2, EditEnds
  <2>2. RulesInv'
    BY <1>1, <2>1, RulesRead
  <2>3. ~ Moving(a)'
    BY <2>1 DEF Moving, NoEdit
  <2>4. QED
    BY <1>1, <2>1, <2>2, <2>3
<1>3. CASE ids # {}
  <2>1. edit \in Edits
    BY <1>1 DEF RulesTypeOK
  <2>2. edits # 0 /\ edit.order # 0
    BY <1>1 DEF RulesInv, Moving
  <2>3. i \in DOMAIN rules
    <3>1. edit.order \in Nat
      BY <2>1 DEF Edits
    <3>2. i \in ids
      BY <1>1, <1>3, <3>1, NeighbourIs
    <3>3. QED
      BY <3>2 DEF Candidates
  <2>4. rules[i].order \in Nat \ {0} /\ i \in Nat
    BY <1>1, <2>2, <2>3, RulesFinite DEF RulesInv
  <2> HIDE DEF i
  <2>5. /\ next \in Edits /\ next.order = edit.order /\ next.otherOrder = rules[i].order
        /\ next.pc = "swap"
    BY <2>1, <2>4 DEF Edits
  <2>6. editing' = [editing EXCEPT ![a] = next]
    BY <1>1, <1>3
  <2> HIDE DEF next
  <2>7. /\ editing' \in [RuleAdmins -> Edits]
        /\ editing'[a] = next
        /\ \A b \in RuleAdmins \ {a} : editing'[b] = editing[b]
    BY <1>1, <2>5, <2>6 DEF RulesTypeOK
  <2>8. RulesInv'
    BY <1>1, <2>2, <2>4, <2>5, <2>7, RulesRead
  <2>9. QED
    BY <1>1, <1>3, <2>7, <2>8 DEF next, i
<1>4. QED
  BY <1>2, <1>3

\* The exchange: over the orders that were read it keeps them distinct, and else
\* it is known that it may not have
LEMMA RuleSwapped ==
  ASSUME RulesInv, NEW a \in RuleAdmins, SwapOrders(a)
  PROVE  RulesInv'
<1> DEFINE edit == editing[a]
           table == [i \in DOMAIN rules |->
                       CASE i = edit.id -> [rules[i] EXCEPT !.order = edit.otherOrder]
                         [] i = edit.other -> [rules[i] EXCEPT !.order = edit.order]
                         [] OTHER -> rules[i]]
<1>1. /\ RulesTypeOK /\ edit.pc = "swap" /\ Committed(table) /\ EndEdit(a)
      /\ tied' = (tied \/ ~ OrdersAsRead(edit)) /\ nextRule' = nextRule
  BY DEF RulesInv, SwapOrders
<1>2. /\ editing' \in [RuleAdmins -> Edits]
      /\ \A b \in RuleAdmins : editing'[b] \in {editing[b], NoEdit}
  BY <1>1, EditEnds
<1>3. /\ edit.order \in Nat \ {0} /\ edit.otherOrder \in Nat \ {0}
  BY <1>1 DEF RulesInv, RulesTypeOK, Edits, Moving
<1>4. /\ DOMAIN table = DOMAIN rules
      /\ table = [i \in DOMAIN table |-> table[i]]
      /\ \A i \in DOMAIN rules :
           table[i] = CASE i = edit.id -> [rules[i] EXCEPT !.order = edit.otherOrder]
                        [] i = edit.other -> [rules[i] EXCEPT !.order = edit.order]
                        [] OTHER -> rules[i]
  OBVIOUS
<1> HIDE DEF table
<1>5. \A i \in DOMAIN rules :
        /\ rules[i] \in Rules
        /\ rules[i].order # 0
  BY <1>1 DEF RulesInv, RulesTypeOK
<1>6. \A i \in DOMAIN rules :
        /\ table[i] \in Rules
        /\ table[i].order = CASE i = edit.id -> edit.otherOrder
                              [] i = edit.other -> edit.order
                              [] OTHER -> rules[i].order
  BY <1>3, <1>4, <1>5 DEF Rules
<1>7. tied' \in BOOLEAN /\ (tied' \/ (~ tied /\ OrdersAsRead(edit)))
  BY <1>1 DEF RulesTypeOK
<1>8. tied' \/ DistinctOrders(table)
  <2>1. SUFFICES ASSUME ~ tied, OrdersAsRead(edit)
                 PROVE  DistinctOrders(table)
    BY <1>7
  <2>2. DistinctOrders(rules)
    BY <1>1, <2>1 DEF RulesInv, OrdersDistinct, Moving
  <2>3. /\ edit.id \in DOMAIN rules /\ edit.other \in DOMAIN rules
        /\ rules[edit.id].order = edit.order
        /\ rules[edit.other].order = edit.otherOrder
    BY <2>1 DEF OrdersAsRead
  <2>4. QED
    BY <1>4, <1>6, <2>2, <2>3 DEF DistinctOrders
<1>9. /\ nextRule' \in Nat \ {0}
      /\ DOMAIN table \subseteq 1..(nextRule' - 1)
      /\ \A i \in DOMAIN table : table[i] \in Rules /\ table[i].order # 0
  BY <1>1, <1>3, <1>4, <1>5, <1>6 DEF RulesTypeOK
<1>10. QED
  BY <1>1, <1>2, <1>4, <1>7, <1>8, <1>9, RulesCommitted

\* An exchange that is rolled back, and a stop
LEMMA EditsEnd ==
  ASSUME RulesInv, StopEdits \/ \E a \in RuleAdmins : AbortSwap(a), up' => up
  PROVE  RulesInv'
<1>1. RulesTypeOK /\ NoEdit \in Edits
  BY DEF RulesInv, NoEdit, Edits
<1>2. CASE StopEdits
  BY <1>1, <1>2, RulesRead DEF StopEdits
<1>3. ASSUME NEW a \in RuleAdmins, AbortSwap(a)
      PROVE  RulesInv'
  <2>1. /\ editing' \in [RuleAdmins -> Edits]
        /\ editing'[a] = NoEdit
        /\ \A b \in RuleAdmins \ {a} : editing'[b] = editing[b]
    BY <1>1, <1>3, EditEnds DEF AbortSwap
  <2>2. UNCHANGED <<rules, nextRule, edits, tied>>
    BY <1>3 DEF AbortSwap
  <2>3. QED
    BY <2>1, <2>2, RulesRead
<1>4. QED
  BY <1>2, <1>3

\* Which steps touch the rules at all
LEMMA RulesSteps ==
  ASSUME [Next]_vars
  PROVE  \/ Start
         \/ Stop
         \/ UNCHANGED <<ruleVars, up>>
         \/ \E a \in RuleAdmins : RulesPage(a)
<1>1. ASSUME NEW c \in Callers, HandleStep(c) \/ FailCall(c)
      PROVE  Stop \/ UNCHANGED <<ruleVars, up>>
  BY <1>1
     DEF HandleStep, FailCall, ParseSyslog, SaveMessage, MatchEmployee, SaveEvent,
              Answer, Fail, Unchanged
<1>2. CASE \/ \E msg \in Messages : Receive(msg)
           \/ \E c \in Debuggers, msg \in Messages, at \in Times : Inject(c, msg, at)
           \/ \E c \in Clerks : BeginClerk(c) \/ ContinueClerk(c)
           \/ LogsPage
           \/ UNCHANGED vars
  BY <1>2 DEF Receive, Inject, BeginClerk, ContinueClerk, LogsPage, Others, Unchanged, vars
<1>3. QED
  BY <1>1, <1>2 DEF Next, Crash

\* What a page's step is, and that it counts every change of the table
LEMMA RulesPageStep ==
  ASSUME RulesInv, NEW a \in RuleAdmins, RulesPage(a)
  PROVE  /\ RulesInv'
         /\ UNCHANGED <<rules, edits>> \/ edits' = edits + 1
<1>1. UNCHANGED up
  BY DEF RulesPage, Others
<1>2. CASE Request /\ BeginEdit(a)
  <2>1. up
    BY <1>2 DEF Request
  <2>2. ASSUME NEW input \in RuleInputs, CreateRule(a, input)
        PROVE  RulesInv' /\ edits' = edits + 1
    BY <2>1, <2>2, RuleCreated DEF CreateRule, Committed
  <2>3. ASSUME NEW id \in DOMAIN rules,
               \/ FindRule(a, id)
               \/ \E direction \in {"up", "down"} : ReadCurrent(a, id, direction)
        PROVE  RulesInv' /\ UNCHANGED <<rules, edits>>
    BY <1>1, <2>1, <2>3, RuleFound
  <2>4. QED
    BY <1>2, <2>2, <2>3 DEF BeginEdit
<1>3. CASE ContinueEdit(a)
  <2>1. CASE DeleteRule(a) \/ \E input \in RuleInputs : UpdateRule(a, input)
    <3>1. UNCHANGED <<rules, edits>> \/ edits' = edits + 1
      BY <2>1 DEF DeleteRule, UpdateRule, Committed
    <3>2. QED
      BY <1>1, <2>1, <3>1, RuleSaved
  <2>2. CASE ReadNeighbour(a)
    BY <1>1, <2>2, RuleNeighbour
  <2>3. CASE SwapOrders(a)
    BY <2>3, RuleSwapped DEF SwapOrders, Committed
  <2>4. CASE AbortSwap(a)
    BY <1>1, <2>4, EditsEnd DEF AbortSwap
  <2>5. QED
    BY <1>3, <2>1, <2>2, <2>3, <2>4 DEF ContinueEdit
<1>4. QED
  BY <1>2, <1>3 DEF RulesPage

\* No step of any other part changes the rules
LEMMA RulesStep ==
  ASSUME RulesInv, [Next]_vars
  PROVE  /\ RulesInv'
         /\ UNCHANGED <<rules, edits>> \/ edits' = edits + 1
<1>1. CASE Start
  <2>1. UNCHANGED <<rules, edits>> \/ edits' = edits + 1
    BY <1>1 DEF Start, Migrate
  <2>2. QED
    BY <1>1, <2>1, RulesMigrate
<1>2. CASE Stop
  BY <1>2, EditsEnd DEF Stop, StopEdits
<1>3. CASE UNCHANGED <<ruleVars, up>>
  BY <1>3
     DEF ruleVars, RulesInv, RulesTypeOK, Moving, OrdersDistinct, DistinctOrders
<1>4. QED
  BY <1>1, <1>2, <1>3, RulesPageStep, RulesSteps

\* The first of the three invariants, on which the others rest
LEMMA RulesInvariant == Spec => []RulesInv
<1>1. RulesInv /\ [Next]_vars => RulesInv'
  BY RulesStep
<1>2. QED
  BY <1>1, RulesStart, PTL DEF Spec

\* For any rules, defaults, old tables and number of requests at once, no two
\* rules have the same order, unless a move was committed over orders it had not
\* read or a start put a default back
THEOREM OrdersAreDistinct == Spec => []OrdersDistinct
<1>1. RulesInv => OrdersDistinct
  BY DEF RulesInv
<1>2. QED
  BY <1>1, RulesInvariant, PTL

\* For any rules, defaults and old tables, a start keeps every rule it finds, and
\* their listing: where it gives orders it gives them to the whole table, by id
THEOREM StartKeepsAllRules == Spec => StartKeepsRules
<1>1. ASSUME RulesInv, Start
      PROVE  KeptByStart
  <2> DEFINE table == Renumbered(rules)
  <2>1. rules' = Seeded(table)
    BY <1>1 DEF Start, Migrate
  <2>2. RulesTypeOK /\ nextRule \in Nat \ {0} /\ DOMAIN rules \subseteq 1..(nextRule - 1)
    BY <1>1 DEF RulesInv, RulesTypeOK
  <2>3. \A i \in DOMAIN rules : /\ rules[i] \in Rules /\ i \in Nat \ {0}
                                /\ rules[i].order = 0 <=> edits = 0
    BY <1>1, <2>2, RulesFinite DEF RulesInv, RulesTypeOK
  <2>4. /\ DOMAIN table = DOMAIN rules
        /\ \A i \in DOMAIN rules :
             table[i] = IF edits = 0 THEN [rules[i] EXCEPT !.order = i] ELSE rules[i]
    BY <2>3 DEF Renumbered
  <2> HIDE DEF table
  <2>5. \A i \in DOMAIN rules : i \in DOMAIN rules' /\ rules'[i] = table[i]
    BY <2>1, <2>2, <2>4, SeedingAdds
  <2>6. \A i \in DOMAIN rules :
          rules'[i] = [rules[i] EXCEPT !.order = rules'[i].order]
    BY <2>3, <2>4, <2>5 DEF Rules
  <2>7. ASSUME NEW i \in DOMAIN rules, NEW j \in DOMAIN rules, Before(rules, i, j)
        PROVE  Before(rules', i, j)
    <3>1. CASE edits = 0
      <4>1. rules'[i].order = i /\ rules'[j].order = j
        BY <2>3, <2>4, <2>5, <3>1 DEF Rules
      <4>2. i < j
        BY <2>3, <2>7, <3>1 DEF Before
      <4>3. QED
        BY <4>1, <4>2 DEF Before
    <3>2. CASE edits # 0
      BY <2>4, <2>5, <2>7, <3>2 DEF Before
    <3>3. QED
      BY <3>1, <3>2
  <2>8. QED
    BY <2>5, <2>6, <2>7 DEF KeptByStart
<1>2. RulesInv /\ [Next]_vars => [Start => KeptByStart]_vars
  BY <1>1
<1>3. Spec => [][Start => KeptByStart]_vars
  BY <1>2, RulesInvariant, PTL DEF Spec
<1>4. QED
  BY <1>3 DEF StartKeepsRules

-----------------------------------------------------------------------------
(* Moves *)

\* What a move has read stays as it was as long as nothing is committed
LEMMA MovesWait ==
  ASSUME RulesInv, NEW edit \in Edits, MoveFits(edit),
         UNCHANGED <<rules, edits>> \/ edits' = edits + 1
  PROVE  MoveFits(edit)'
<1>1. edits \in Nat /\ edit.at \in Nat /\ edit.at <= edits
  BY DEF RulesInv, RulesTypeOK, Edits, MoveFits
<1>2. CASE edits' = edits + 1
  BY <1>1, <1>2 DEF MoveFits
<1>3. CASE UNCHANGED <<rules, edits>>
  BY <1>3 DEF MoveFits, OrdersAsRead, IsNeighbour, Candidates
<1>4. QED
  BY <1>2, <1>3

\* One request reads, the others' moves stay as they were
LEMMA MoveReads ==
  ASSUME RulesInv, MoveInv, UNCHANGED <<rules, edits>>, NEW a \in RuleAdmins,
         \A b \in RuleAdmins \ {a} : editing'[b] = editing[b],
         NEW edit, editing'[a] = edit, Moving(a)' => MoveFits(edit)
  PROVE  MoveInv'
<1>1. \A e : MoveFits(e) => MoveFits(e)'
  BY DEF MoveFits, OrdersAsRead, IsNeighbour, Candidates
<1>2. ASSUME NEW b \in RuleAdmins, Moving(b)'
      PROVE  MoveFits(editing[b])'
  <2>1. PICK e : e = editing'[b]
    OBVIOUS
  <2>2. CASE b = a
    BY <1>1, <1>2, <2>1, <2>2 DEF MoveFits, OrdersAsRead, IsNeighbour, Candidates
  <2>3. CASE b # a
    <3>1. e = editing[b] /\ Moving(b)
      BY <1>2, <2>1, <2>3 DEF Moving
    <3>2. MoveFits(e)
      BY <3>1 DEF MoveInv
    <3>3. QED
      BY <1>1, <2>1, <3>2 DEF MoveFits, OrdersAsRead, IsNeighbour, Candidates
  <2>4. QED
    BY <2>2, <2>3
<1>3. QED
  BY <1>2 DEF MoveInv

\* The second read finds the rule's neighbour
LEMMA MoveNeighbour ==
  ASSUME RulesInv, MoveInv, NEW a \in RuleAdmins, ReadNeighbour(a), UNCHANGED up
  PROVE  MoveInv'
<1> DEFINE old == editing[a]
           ids == Candidates(old.pc, old.order)
           i == Neighbour(old.pc, ids)
<1>0. PICK edit : edit = editing'[a]
  OBVIOUS
<1>1. /\ UNCHANGED <<rules, edits>>
      /\ \A b \in RuleAdmins \ {a} : editing'[b] = editing[b]
      /\ old.pc \in {"up", "down"}
      /\ Moving(a)' => /\ ids # {}
                       /\ edit = [old EXCEPT !.pc = "swap", !.other = i,
                                             !.otherOrder = rules[i].order]
  BY <1>0, RuleNeighbour
<1>2. RulesTypeOK /\ old \in Edits
  BY DEF RulesInv, RulesTypeOK
<1>3. CASE ~ Moving(a)'
  BY <1>0, <1>1, <1>3, MoveReads
<1>4. CASE Moving(a)'
  <2>1. /\ edit.pc = "swap" /\ edit.other = i /\ edit.otherOrder = rules[i].order
        /\ edit.id = old.id /\ edit.order = old.order /\ edit.at = old.at
        /\ old.order \in Nat
    BY <1>1, <1>2, <1>4 DEF Edits
  <2>2. /\ i \in ids
        /\ \A j \in ids \ {i} : IF old.pc = "up" THEN Before(rules, j, i)
                                                 ELSE Before(rules, i, j)
    BY <1>1, <1>2, <1>4, <2>1, NeighbourIs
  <2>3. /\ i \in DOMAIN rules /\ rules[i].order \in Nat
        /\ IF old.pc = "up" THEN rules[i].order < old.order ELSE rules[i].order > old.order
    <3>1. i \in DOMAIN rules
      BY <2>2 DEF Candidates
    <3>2. IF old.pc = "up" THEN rules[i].order < old.order ELSE rules[i].order > old.order
      BY <1>1, <2>2 DEF Candidates
    <3>3. QED
      BY <1>2, <3>1, <3>2, RulesFinite
  <2>4. /\ old.at <= edits
        /\ old.at = edits => old.id \in DOMAIN rules /\ rules[old.id].order = old.order
    BY <1>1 DEF MoveInv, MoveFits, Moving
  <2> HIDE DEF i
  <2>5. edit.otherOrder # edit.order /\ (edit.otherOrder < edit.order <=> old.pc = "up")
    BY <1>1, <2>1, <2>3
  <2>6. IsNeighbour(edit)
    BY <1>1, <2>1, <2>2, <2>5 DEF IsNeighbour
  <2>7. old.at = edits => OrdersAsRead(edit)
    BY <2>1, <2>3, <2>4 DEF OrdersAsRead
  <2>8. MoveFits(edit)
    BY <2>1, <2>4, <2>5, <2>6, <2>7 DEF MoveFits
  <2>9. QED
    BY <1>0, <1>1, <2>8, MoveReads
<1>5. QED
  BY <1>3, <1>4

\* Every step keeps what moves have read, or counts as an edit
LEMMA MoveStep ==
  ASSUME RulesInv, MoveInv, [Next]_vars
  PROVE  MoveInv'
<1>1. UNCHANGED <<rules, edits>> \/ edits' = edits + 1
  BY RulesStep
<1>2. ASSUME \A a \in RuleAdmins : editing'[a] \in {editing[a], NoEdit}
      PROVE  MoveInv'
  <2>1. ASSUME NEW a \in RuleAdmins, Moving(a)'
        PROVE  MoveFits(editing[a])'
    <3>1. editing'[a] = editing[a] /\ Moving(a)
      BY <1>2, <2>1 DEF Moving, NoEdit
    <3>2. PICK edit \in Edits : edit = editing[a]
      BY DEF RulesInv, RulesTypeOK
    <3>3. MoveFits(edit)'
      BY <1>1, <3>1, <3>2, MovesWait DEF MoveInv
    <3>4. QED
      BY <3>1, <3>2, <3>3 DEF MoveFits, OrdersAsRead, IsNeighbour, Candidates
  <2>2. QED
    BY <2>1 DEF MoveInv
<1>3. ASSUME NEW a \in RuleAdmins, RulesPage(a)
      PROVE  MoveInv'
  <2>1. UNCHANGED up
    BY <1>3 DEF RulesPage, Others
  <2>2. ASSUME UNCHANGED editing \/ EndEdit(a)
        PROVE  MoveInv'
    BY <1>2, <2>2, EditEnds DEF RulesInv
  <2>3. ASSUME up, NEW id \in DOMAIN rules,
               \/ FindRule(a, id)
               \/ \E direction \in {"up", "down"} : ReadCurrent(a, id, direction)
        PROVE  MoveInv'
    <3>1. /\ UNCHANGED <<rules, edits>> /\ edits \in Nat
          /\ \A b \in RuleAdmins \ {a} : editing'[b] = editing[b]
          /\ Moving(a)' => /\ editing'[a].pc \in {"up", "down"}
                           /\ editing'[a].id = id
                           /\ editing'[a].order = rules[id].order
                           /\ editing'[a].at = edits
      BY <2>1, <2>3, RuleFound DEF RulesInv, RulesTypeOK
    <3>2. PICK edit : edit = editing'[a]
      OBVIOUS
    <3>3. Moving(a)' => MoveFits(edit)
      BY <3>1, <3>2 DEF MoveFits
    <3>4. QED
      BY <3>1, <3>2, <3>3, MoveReads
  <2>4. CASE Request /\ BeginEdit(a)
    BY <2>2, <2>3, <2>4 DEF Request, BeginEdit, CreateRule
  <2>5. CASE ContinueEdit(a)
    BY <2>1, <2>2, <2>5, MoveNeighbour
       DEF ContinueEdit, UpdateRule, DeleteRule, SwapOrders, AbortSwap
  <2>6. QED
    BY <1>3, <2>4, <2>5 DEF RulesPage
<1>4. CASE Start \/ Stop \/ UNCHANGED <<ruleVars, up>>
  BY <1>2, <1>4 DEF Start, Migrate, Stop, StopEdits, ruleVars
<1>5. QED
  BY <1>3, <1>4, RulesSteps

\* Two rules that are listed one after the other exchange their orders: they
\* exchange their places, and all others keep theirs
LEMMA ExchangePlaces ==
  ASSUME NEW table, NEW new, DOMAIN new = DOMAIN table,
         IsFiniteSet(DOMAIN table), DOMAIN table \subseteq Nat,
         \A i \in DOMAIN table : table[i].order \in Nat,
         DistinctOrders(table),
         NEW lo \in DOMAIN table, NEW hi \in DOMAIN table,
         table[lo].order < table[hi].order,
         \A i \in DOMAIN table :
           ~ (table[lo].order < table[i].order /\ table[i].order < table[hi].order),
         new[lo].order = table[hi].order, new[hi].order = table[lo].order,
         \A i \in DOMAIN table \ {lo, hi} : new[i].order = table[i].order
  PROVE  /\ Place(table, lo) \in Nat /\ Place(table, hi) = Place(table, lo) + 1
         /\ Place(new, lo) = Place(table, hi) /\ Place(new, hi) = Place(table, lo)
         /\ \A i \in DOMAIN table \ {lo, hi} :
              /\ Place(new, i) = Place(table, i)
              /\ Place(table, i) \notin {Place(table, lo), Place(table, hi)}
<1> DEFINE D == DOMAIN table
           o == [i \in D |-> table[i].order]
           n == [i \in D |-> new[i].order]
           Under(i) == {j \in D : o[j] < o[i]}
           UnderNew(i) == {j \in D : n[j] < n[i]}
<1>1. /\ o \in [D -> Nat] /\ n \in [D -> Nat]
      /\ \A i, j \in D : o[i] = o[j] => i = j
  BY DEF DistinctOrders
<1>2. /\ \A i \in D : o[i] = table[i].order /\ n[i] = new[i].order
      /\ n[lo] = o[hi] /\ n[hi] = o[lo] /\ \A i \in D \ {lo, hi} : n[i] = o[i]
      /\ o[lo] < o[hi]
      /\ \A i \in D : ~ (o[lo] < o[i] /\ o[i] < o[hi])
  OBVIOUS
<1> HIDE DEF o, n
<1>3. \A i, j \in D : n[i] = n[j] => i = j
  BY <1>1, <1>2
<1>4. \A i \in D : /\ {j \in D : Before(table, j, i)} = Under(i)
                   /\ {j \in D : Before(new, j, i)} = UnderNew(i)
  BY <1>1, <1>2, <1>3 DEF Before
<1>5. \A i \in D : /\ Place(table, i) = Cardinality(Under(i))
                   /\ Place(new, i) = Cardinality(UnderNew(i))
  <2> HIDE DEF Under, UnderNew
  <2>1. QED
    BY <1>4 DEF Place
<1>6. \A i \in D : IsFiniteSet(Under(i)) /\ Cardinality(Under(i)) \in Nat
  <2>1. ASSUME NEW i \in D PROVE IsFiniteSet(Under(i))
    BY FS_Subset
  <2>2. QED
    <3> HIDE DEF Under
    <3>1. QED
      BY <2>1, FS_CardinalityType
<1>7. Under(hi) = Under(lo) \cup {lo} /\ lo \notin Under(lo)
  BY <1>1, <1>2
<1>8. UnderNew(hi) = Under(lo)
  BY <1>1, <1>2
<1>9. UnderNew(lo) = Under(lo) \cup {hi} /\ hi \notin Under(lo)
  BY <1>1, <1>2
<1>10. ASSUME NEW i \in D \ {lo, hi}
       PROVE  UnderNew(i) = Under(i)
  <2>1. o[i] \in Nat /\ o[lo] \in Nat /\ o[hi] \in Nat /\ n[i] = o[i]
    BY <1>1, <1>2
  <2>2. o[i] # o[lo] /\ o[i] # o[hi]
    BY <1>1
  <2>3. o[i] < o[lo] \/ o[i] > o[hi]
    BY <1>2, <2>1, <2>2
  <2>4. \A j \in D : n[j] < n[i] <=> o[j] < o[i]
    BY <1>1, <1>2, <2>1, <2>3
  <2>5. QED
    BY <2>4
<1>11. ASSUME NEW i \in D, NEW k \in D, i # k
       PROVE  Cardinality(Under(i)) # Cardinality(Under(k))
  <2>1. ASSUME NEW x \in D, NEW y \in D, o[x] < o[y]
        PROVE  Cardinality(Under(x)) # Cardinality(Under(y))
    <3>1. Under(x) \in SUBSET Under(y) /\ x \in Under(y) /\ x \notin Under(x)
      BY <1>1, <2>1
    <3>2. QED
      <4> HIDE DEF Under
      <4>1. QED
        BY <1>6, <3>1, FS_Subset
  <2>2. o[i] < o[k] \/ o[k] < o[i]
    <3>1. o[i] \in Nat /\ o[k] \in Nat /\ o[i] # o[k]
      BY <1>1, <1>11
    <3>2. QED
      BY <3>1
  <2>3. QED
    <3> HIDE DEF Under
    <3>1. QED
      BY <2>1, <2>2
<1> HIDE DEF Under, UnderNew
<1>12. /\ Cardinality(Under(hi)) = Cardinality(Under(lo)) + 1
       /\ Cardinality(UnderNew(lo)) = Cardinality(Under(lo)) + 1
  <2>1. IsFiniteSet(Under(lo))
    BY <1>6
  <2>2. /\ Cardinality(Under(lo) \cup {lo}) = Cardinality(Under(lo)) + 1
        /\ Cardinality(Under(lo) \cup {hi}) = Cardinality(Under(lo)) + 1
    BY <1>7, <1>9, <2>1, FS_AddElement
  <2>3. QED
    BY <1>7, <1>9, <2>2
<1>13. QED
  BY <1>5, <1>6, <1>8, <1>10, <1>11, <1>12

\* The step that commits a move
LEMMA MoveCommits ==
  ASSUME RulesInv, [Next]_vars, NEW a \in RuleAdmins,
         editing[a].pc = "swap", rules' # rules, editing'[a] = NoEdit
  PROVE  SwapOrders(a)
<1>1. editing'[a] # editing[a]
  BY DEF NoEdit
<1>2. ~ Start /\ ~ Stop /\ ~ UNCHANGED <<ruleVars, up>>
  BY <1>1 DEF Start, Migrate, Stop, StopEdits, ruleVars
<1>3. PICK b \in RuleAdmins : RulesPage(b)
  BY <1>2, RulesSteps
<1>4. ~ BeginEdit(b)
  BY <1>1 DEF BeginEdit, CreateRule, FindRule, ReadCurrent
<1>5. ContinueEdit(b)
  BY <1>3, <1>4 DEF RulesPage
<1>6. EndEdit(b) /\ (editing[b].pc = "found" \/ SwapOrders(b))
  BY <1>5 DEF ContinueEdit, UpdateRule, DeleteRule, ReadNeighbour, SwapOrders, AbortSwap
<1>7. b = a
  BY <1>1, <1>6, EditEnds DEF RulesInv
<1>8. QED
  BY <1>6, <1>7

\* For any rules and number of requests at once, a move that nobody came in
\* between exchanges the rule with the one listed next to it and leaves all
\* others in their places
THEOREM MovesExchange == Spec => MovesExchangeNeighbours
<1>1. ASSUME RulesInv, MoveInv, [Next]_vars
      PROVE  MoveExchanges
  <2> SUFFICES ASSUME NEW a \in RuleAdmins, editing[a].pc = "swap", rules' # rules,
                      editing'[a] = NoEdit, editing[a].at = edits, DistinctOrders(rules)
               PROVE  LET edit == editing[a]
                          p == Place(rules, edit.id)
                          q == IF edit.otherOrder < edit.order THEN p - 1 ELSE p + 1
                      IN  \A i \in DOMAIN rules :
                            Place(rules', i) = CASE Place(rules, i) = p -> q
                                                 [] Place(rules, i) = q -> p
                                                 [] OTHER -> Place(rules, i)
    BY DEF MoveExchanges
  <2> DEFINE edit == editing[a]
             x == edit.id
             y == edit.other
  <2>1. /\ RulesTypeOK /\ edit \in Edits
        /\ IsFiniteSet(DOMAIN rules) /\ DOMAIN rules \subseteq Nat
        /\ \A i \in DOMAIN rules : rules[i].order \in Nat
    BY <1>1, RulesFinite DEF RulesInv, RulesTypeOK
  <2>2. /\ x \in DOMAIN rules /\ y \in DOMAIN rules
        /\ rules[x].order = edit.order /\ rules[y].order = edit.otherOrder
        /\ IsNeighbour(edit) /\ edit.otherOrder # edit.order
        /\ edit.order \in Nat /\ edit.otherOrder \in Nat
    BY <1>1, <2>1 DEF MoveInv, MoveFits, Moving, OrdersAsRead, Edits
  <2>3. rules' = [i \in DOMAIN rules |->
                    CASE i = x -> [rules[i] EXCEPT !.order = edit.otherOrder]
                      [] i = y -> [rules[i] EXCEPT !.order = edit.order]
                      [] OTHER -> rules[i]]
    BY <1>1, MoveCommits DEF SwapOrders, Committed
  <2>4. \A i \in DOMAIN rules : rules[i] \in Rules
    BY <2>1 DEF RulesTypeOK
  <2>5. /\ DOMAIN rules' = DOMAIN rules
        /\ rules'[x].order = rules[y].order
        /\ rules'[y].order = rules[x].order
        /\ \A i \in DOMAIN rules \ {x, y} : rules'[i].order = rules[i].order
    BY <2>2, <2>3, <2>4 DEF Rules
  <2>6. PICK new : new = rules'
    OBVIOUS
  <2>7. CASE edit.otherOrder < edit.order
    <3>1. \A i \in DOMAIN rules :
            ~ (rules[y].order < rules[i].order /\ rules[i].order < rules[x].order)
      BY <2>1, <2>2, <2>7 DEF IsNeighbour, Candidates, Before
    <3>2. /\ Place(rules, y) \in Nat /\ Place(rules, x) = Place(rules, y) + 1
          /\ Place(new, y) = Place(rules, x) /\ Place(new, x) = Place(rules, y)
          /\ \A i \in DOMAIN rules \ {x, y} :
               /\ Place(new, i) = Place(rules, i)
               /\ Place(rules, i) \notin {Place(rules, y), Place(rules, x)}
      BY <2>1, <2>2, <2>5, <2>6, <2>7, <3>1, ExchangePlaces
    <3>3. QED
      BY <2>6, <2>7, <3>2
  <2>8. CASE ~ (edit.otherOrder < edit.order)
    <3>1. edit.order < edit.otherOrder
      BY <2>2, <2>8
    <3>2. \A i \in DOMAIN rules :
            ~ (rules[x].order < rules[i].order /\ rules[i].order < rules[y].order)
      BY <2>1, <2>2, <2>8 DEF IsNeighbour, Candidates, Before
    <3>3. /\ Place(rules, x) \in Nat /\ Place(rules, y) = Place(rules, x) + 1
          /\ Place(new, x) = Place(rules, y) /\ Place(new, y) = Place(rules, x)
          /\ \A i \in DOMAIN rules \ {x, y} :
               /\ Place(new, i) = Place(rules, i)
               /\ Place(rules, i) \notin {Place(rules, x), Place(rules, y)}
      BY <2>1, <2>2, <2>5, <2>6, <3>1, <3>2, ExchangePlaces
    <3>4. QED
      BY <2>6, <2>8, <3>3
  <2>9. QED
    BY <2>7, <2>8
<1>2. ASSUME RulesInv, MoveInv, [Next]_vars
      PROVE  [MoveExchanges]_ruleVars
  BY <1>1, <1>2
<1>3. Init => MoveInv
  BY DEF Init, RulesInit, NoEdit, MoveInv, Moving
<1>4. RulesInv /\ MoveInv /\ [Next]_vars => MoveInv'
  BY MoveStep
<1>5. Spec => []MoveInv
  BY <1>3, <1>4, RulesInvariant, PTL DEF Spec
<1>6. Spec => [][MoveExchanges]_ruleVars
  BY <1>2, <1>5, RulesInvariant, PTL DEF Spec
<1>7. QED
  BY <1>6 DEF MovesExchangeNeighbours

-----------------------------------------------------------------------------
(* What handlers know and what debug requests are told *)

\* What a preview with this outcome tells
ToldAs(outcome) == IF outcome = Miss THEN "unmatched" ELSE "parsed"

\* What a debug request was told agrees with how far its message has come since,
\* unless somebody has committed a change of the rules meanwhile
AnswerFits(h) ==
  /\ h.edits <= edits
  /\ h.edits = edits /\ h.preview # "error" =>
       /\ h.pc = "parse" => h.preview = Told(h.msg)
       /\ h.pc = "save" => h.preview = ToldAs(h.outcome)
       /\ h.pc \in {"match", "event"} =>
            h.preview = "parsed" /\ messages[h.id].status = "parsed"
       /\ h.pc = "done" =>
            h.preview = IF messages[h.id].status = "parsed" THEN "parsed" ELSE "unmatched"

\* Who looks a device up has one, and who has stored his message knows its row
HandlerTyped(h, ids) ==
  /\ DOMAIN h = DOMAIN Resting
  /\ h.pc \in {"idle", "parse", "save", "match", "event", "done"}
  /\ h.edits \in Nat
  /\ h.outcome \in Stations \cup {Miss}
  /\ h.emp \in Employees \cup {Nobody}
  /\ h.id \in ids \cup {0}
  /\ h.pc = "parse" => h.msg \in Messages
  /\ h.pc = "match" => h.outcome \in Stations
  /\ h.pc \in {"match", "event", "done"} => h.id \in ids

CallInv ==
  /\ up \in BOOLEAN
  /\ requests \in 0..MaxRequests
  /\ cut \subseteq DOMAIN messages
  /\ \A i \in DOMAIN messages : messages[i].status \in {"parsed", "ignored"}
  /\ \A c \in Callers : HandlerTyped(handler[c], DOMAIN messages)
  /\ \A c \in Debuggers \ {Udp} : AnswerFits(handler[c])
  /\ handler[Udp].pc # "done"

\* The first rule that decides says what it says of the message
LEMMA MatchOutcome ==
  ASSUME RulesTypeOK, NEW msg \in Messages
  PROVE  MatchSyslogRule(rules, msg).outcome \in Stations \cup {Miss, Broken}
<1> DEFINE ids == Deciding(rules, msg)
<1>1. CASE ids = {}
  BY <1>1 DEF MatchSyslogRule
<1>2. CASE ids # {}
  <2>1. ids \in SUBSET DOMAIN rules
    BY DEF Deciding, Enabled
  <2>2. IsFiniteSet(ids) /\ ids \in SUBSET Nat /\ \A i \in ids : rules[i].order \in Nat
    BY <2>1, RulesFinite, FS_Subset
  <2>3. MatchSyslogRule(rules, msg).outcome = rules[FirstRule(rules, ids)].pattern[msg]
    BY <1>2 DEF MatchSyslogRule
  <2> HIDE DEF ids
  <2>4. FirstRule(rules, ids) \in ids
    BY <1>2, <2>2, ListingEnds
  <2>5. rules[FirstRule(rules, ids)] \in Rules
    BY <2>1, <2>4 DEF RulesTypeOK
  <2>6. QED
    BY <2>3, <2>5 DEF Rules, Patterns
<1>3. QED
  BY <1>1, <1>2

\* A handler at rest knows nothing
LEMMA RestingTyped ==
  ASSUME NEW ids
  PROVE  HandlerTyped(Resting, ids)
  BY DEF HandlerTyped, Resting, Miss

\* and was told nothing
LEMMA RestingFits ==
  ASSUME edits \in Nat
  PROVE  AnswerFits(Resting)
  BY DEF AnswerFits, Resting

\* What a request was told fits as long as the rules are the same, and then no
\* longer needs to
LEMMA AnswersStay ==
  ASSUME RulesInv, NEW h, HandlerTyped(h, DOMAIN messages), AnswerFits(h),
         UNCHANGED <<rules, edits>> \/ edits' = edits + 1,
         \A i \in DOMAIN messages : messages'[i] = messages[i]
  PROVE  AnswerFits(h)'
<1>1. edits \in Nat /\ h.edits \in Nat /\ h.edits <= edits
  BY DEF RulesInv, RulesTypeOK, HandlerTyped, AnswerFits
<1>2. CASE edits' = edits + 1
  BY <1>1, <1>2 DEF AnswerFits
<1>3. CASE UNCHANGED <<rules, edits>>
  BY <1>3 DEF AnswerFits, HandlerTyped, Told
<1>4. QED
  BY <1>2, <1>3

\* No call at first
LEMMA CallStart == Init => CallInv
<1> SUFFICES ASSUME Init PROVE CallInv
  OBVIOUS
<1>1. /\ messages = <<>> /\ handler = [c \in Callers |-> Resting] /\ up = FALSE
      /\ requests = 0 /\ cut = {} /\ edits = 0
  BY DEF Init, LogInit, RulesInit
<1>2. DOMAIN messages = {} /\ 0 \in 0..MaxRequests
  BY <1>1, IngestAssumption
<1>3. QED
  BY <1>1, <1>2, RestingTyped, RestingFits DEF CallInv, Callers, Resting

\* One handler goes on
LEMMA CallMoves ==
  ASSUME RulesInv, MessageInv, CallInv, NEW c \in Callers, NEW h, Step(c, h),
         UNCHANGED <<rules, edits, up>>,
         requests' \in 0..MaxRequests,
         \A i \in DOMAIN messages : i \in DOMAIN messages' /\ messages'[i] = messages[i],
         \A i \in DOMAIN messages' : messages'[i].status \in {"parsed", "ignored"},
         cut' \subseteq DOMAIN messages',
         HandlerTyped(h, DOMAIN messages'),
         c # Udp => AnswerFits(h)',
         c = Udp => h.pc # "done"
  PROVE  CallInv'
<1>1. \A d \in Callers : handler'[d] = IF d = c THEN h ELSE handler[d]
  BY DEF MessageInv, Step
<1>2. \A d \in Callers : HandlerTyped(handler'[d], DOMAIN messages')
  BY <1>1 DEF CallInv, HandlerTyped
<1>3. ASSUME NEW d \in Debuggers \ {Udp}
      PROVE  AnswerFits(handler[d])'
  <2>1. PICK k : k = handler'[d]
    OBVIOUS
  <2>2. d \in Callers
    BY DEF Callers
  <2>3. AnswerFits(k)'
    <3>1. CASE d = c
      BY <1>1, <2>1, <2>2, <3>1
    <3>2. CASE d # c
      <4>1. k = handler[d]
        BY <1>1, <2>1, <2>2, <3>2
      <4>2. HandlerTyped(k, DOMAIN messages) /\ AnswerFits(k)
        BY <2>2, <4>1 DEF CallInv
      <4>3. QED
        BY <4>2, AnswersStay
    <3>3. QED
      BY <3>1, <3>2
  <2>4. QED
    BY <2>1, <2>3 DEF AnswerFits, Told
<1>4. handler'[Udp].pc # "done"
  BY <1>1 DEF CallInv, Callers
<1>5. QED
  BY <1>2, <1>3, <1>4 DEF CallInv

\* Every handler rests or stays, and nothing is stored
LEMMA CallsStay ==
  ASSUME RulesInv, CallInv, UNCHANGED messages,
         up' \in BOOLEAN, requests' \in 0..MaxRequests,
         UNCHANGED <<rules, edits>> \/ edits' = edits + 1,
         cut' \subseteq DOMAIN messages,
         \A c \in Callers : handler'[c] \in {handler[c], Resting}
  PROVE  CallInv'
<1>1. \A c \in Callers : HandlerTyped(handler'[c], DOMAIN messages')
  BY RestingTyped DEF CallInv
<1>2. ASSUME NEW c \in Debuggers \ {Udp}
      PROVE  AnswerFits(handler[c])'
  <2>1. PICK k : k = handler'[c]
    OBVIOUS
  <2>2. c \in Callers /\ edits \in Nat
    BY DEF Callers, RulesInv, RulesTypeOK
  <2>3. HandlerTyped(k, DOMAIN messages) /\ AnswerFits(k)
    BY <2>1, <2>2, RestingTyped, RestingFits DEF CallInv
  <2>4. AnswerFits(k)'
    BY <2>3, AnswersStay
  <2>5. QED
    BY <2>1, <2>4 DEF AnswerFits, Told
<1>3. handler'[Udp].pc # "done"
  BY DEF CallInv, Callers, Resting
<1>4. QED
  BY <1>1, <1>2, <1>3 DEF CallInv

\* A handler gives up
LEMMA CallFails ==
  ASSUME RulesInv, MessageInv, CallInv, Stop \/ \E c \in Callers : Fail(c), UNCHANGED requests
  PROVE  CallInv'
<1>1. requests' \in 0..MaxRequests /\ up \in BOOLEAN
  BY DEF CallInv
<1>2. CASE Stop
  <2>1. /\ UNCHANGED <<rules, edits, messages>> /\ up' = FALSE
        /\ handler' = [c \in Callers |-> Resting]
        /\ cut' = cut \cup {handler[c].id : c \in {d \in Callers : Stored(d)}}
    BY <1>2 DEF Stop, StopEdits
  <2>2. cut' \subseteq DOMAIN messages
    BY <2>1 DEF CallInv, HandlerTyped, Stored
  <2>3. QED
    BY <1>1, <2>1, <2>2, CallsStay
<1>3. ASSUME NEW c \in Callers, Fail(c), ~ Stop
      PROVE  CallInv'
  <2>1. /\ UNCHANGED <<rules, edits, messages, up>>
        /\ Step(c, Resting)
        /\ cut' = IF Stored(c) THEN cut \cup {handler[c].id} ELSE cut
    BY <1>3 DEF Fail, logVars, ruleVars
  <2>2. cut' \subseteq DOMAIN messages
    BY <2>1 DEF CallInv, HandlerTyped, Stored
  <2>3. \A d \in Callers : handler'[d] \in {handler[d], Resting}
    BY <2>1 DEF Step, MessageInv
  <2>4. QED
    BY <1>1, <2>1, <2>2, <2>3, CallsStay
<1>4. QED
  BY <1>2, <1>3

\* A message comes in, or is injected with what its preview told
LEMMA CallBegins ==
  ASSUME RulesInv, MessageInv, CallInv,
         \/ \E msg \in Messages : Receive(msg)
         \/ \E c \in Debuggers, msg \in Messages, at \in Times : Inject(c, msg, at)
  PROVE  CallInv'
<1>1. /\ UNCHANGED <<rules, edits, up, messages, cut>>
      /\ edits \in Nat
  BY DEF Receive, Inject, Unchanged, logVars, ruleVars, RulesInv, RulesTypeOK
<1>2. requests' \in 0..MaxRequests
  <2>1. requests' = requests \/ (requests < MaxRequests /\ requests' = requests + 1)
    BY DEF Receive, Inject, Unchanged
  <2>2. requests \in 0..MaxRequests /\ MaxRequests \in Nat
    BY IngestAssumption DEF CallInv
  <2>3. QED
    BY <2>1, <2>2
<1>3. ASSUME NEW msg \in Messages, Receive(msg)
      PROVE  CallInv'
  <2> DEFINE h == [Resting EXCEPT !.pc = "parse", !.msg = msg, !.at = Now]
  <2>1. Step(Udp, h) /\ Udp \in Callers
    BY <1>3 DEF Receive, Callers
  <2>2. HandlerTyped(h, DOMAIN messages) /\ h.pc = "parse"
    BY DEF HandlerTyped, Resting, Miss
  <2> HIDE DEF h
  <2>3. QED
    BY <1>1, <1>2, <2>1, <2>2, CallMoves DEF CallInv
<1>4. ASSUME NEW c \in Debuggers, NEW msg \in Messages, NEW at \in Times,
             Inject(c, msg, at)
      PROVE  CallInv'
  <2>1. PICK preview \in {Told(msg), "error"} :
          Step(c, [Resting EXCEPT !.pc = "parse", !.msg = msg, !.at = at,
                                  !.preview = preview, !.edits = edits])
    BY <1>4 DEF Inject
  <2>2. PICK h : h = [Resting EXCEPT !.pc = "parse", !.msg = msg, !.at = at,
                                     !.preview = preview, !.edits = edits]
    OBVIOUS
  <2>3. /\ h.pc = "parse" /\ h.msg = msg /\ h.preview = preview /\ h.edits = edits
        /\ h.outcome = Miss /\ h.emp = Nobody /\ h.id = 0
        /\ DOMAIN h = DOMAIN Resting
    BY <2>2 DEF Resting
  <2>4. HandlerTyped(h, DOMAIN messages)
    BY <1>1, <2>3 DEF HandlerTyped
  <2>5. AnswerFits(h)
    BY <1>1, <2>3 DEF AnswerFits
  <2>6. AnswerFits(h)' /\ Step(c, h) /\ c \in Callers
    BY <1>1, <2>1, <2>2, <2>4, <2>5, AnswersStay DEF Callers
  <2>7. QED
    BY <1>1, <1>2, <2>3, <2>4, <2>6, CallMoves DEF CallInv
<1>5. QED
  BY <1>3, <1>4

\* The rules are read again
LEMMA CallParses ==
  ASSUME RulesInv, MessageInv, CallInv, NEW c \in Callers, ParseSyslog(c)
  PROVE  CallInv'
<1> DEFINE old == handler[c]
           outcome == Matched(c).outcome
<1>1. CASE Fail(c) /\ UNCHANGED requests
  BY <1>1, CallFails
<1>2. CASE ~ (Fail(c) /\ UNCHANGED requests)
  <2>1. PICK h : /\ h = [old EXCEPT !.pc = "save", !.rule = Matched(c).rule,
                                    !.outcome = outcome]
                 /\ Step(c, h)
                 /\ outcome # Broken /\ old.pc = "parse"
                 /\ UNCHANGED <<rules, edits, up, messages, cut, requests>>
    BY <1>2 DEF ParseSyslog, Unchanged, logVars, ruleVars
  <2>2. HandlerTyped(old, DOMAIN messages)
    BY DEF CallInv
  <2>3. /\ DOMAIN h = DOMAIN Resting /\ h.pc = "save" /\ h.outcome = outcome
        /\ h.edits = old.edits /\ h.emp = old.emp /\ h.id = old.id
        /\ h.preview = old.preview
    BY <2>1, <2>2 DEF HandlerTyped, Resting
  <2>4. outcome \in Stations \cup {Miss}
    BY <2>1, <2>2, MatchOutcome DEF Matched, HandlerTyped, RulesInv
  <2>5. HandlerTyped(h, DOMAIN messages)
    BY <2>2, <2>3, <2>4 DEF HandlerTyped
  <2>6. ASSUME c # Udp
        PROVE  AnswerFits(h)
    <3>1. AnswerFits(old)
      BY <2>6 DEF CallInv, Callers
    <3>2. outcome = MatchSyslogRule(rules, old.msg).outcome
      BY DEF Matched
    <3>3. Told(old.msg) = ToldAs(outcome)
      BY <2>1, <3>2 DEF Told, ToldAs
    <3>4. QED
      BY <2>1, <2>3, <3>1, <3>3 DEF AnswerFits
  <2>7. c # Udp => AnswerFits(h)'
    BY <2>1, <2>5, <2>6, AnswersStay
  <2>8. QED
    BY <2>1, <2>3, <2>5, <2>7, CallMoves DEF CallInv
<1>3. QED
  BY <1>1, <1>2

\* The message is stored as it was matched
LEMMA CallStores ==
  ASSUME RulesInv, MessageInv, CallInv, NEW c \in Callers, SaveMessage(c)
  PROVE  CallInv'
<1> DEFINE old == handler[c]
           id == Len(messages) + 1
<1>1. /\ old.pc = "save" /\ UNCHANGED <<rules, edits, up, cut, requests>>
  BY DEF SaveMessage, Unchanged, ruleVars
<1>2. HandlerTyped(old, DOMAIN messages) /\ edits \in Nat
  BY DEF CallInv, RulesInv, RulesTypeOK
<1>3. PICK row, h :
        /\ messages' = Append(messages, row) /\ Step(c, h)
        /\ row.status = IF old.outcome = Miss THEN "ignored" ELSE "parsed"
        /\ HandlerTyped(h, {id})
        /\ h.preview = old.preview \/ c = Udp
        /\ h.edits = old.edits \/ c = Udp
        /\ h.pc = (IF old.outcome # Miss THEN "match" ELSE "done") \/ c = Udp
        /\ c = Udp => h.pc # "done"
        /\ h.id = id \/ c = Udp
  <2>1. CASE old.outcome = Miss
    <3>1. PICK row : row = [at |-> old.at, rule |-> NoRule, status |-> "ignored"]
      OBVIOUS
    <3>2. PICK h : h = Handled(c, StoredAs(old))
      OBVIOUS
    <3>3. messages' = Append(messages, row) /\ Step(c, h) /\ row.status = "ignored"
      BY <2>1, <3>1, <3>2 DEF SaveMessage
    <3>4. CASE c = Udp
      <4>1. h = Resting
        BY <3>2, <3>4 DEF Handled
      <4>2. QED
        BY <2>1, <3>3, <3>4, <4>1, RestingTyped DEF Resting
    <3>5. CASE c # Udp
      <4>1. /\ StoredAs(old).id = id /\ StoredAs(old).preview = old.preview
            /\ StoredAs(old).edits = old.edits
        BY <1>2 DEF StoredAs, HandlerTyped, Resting
      <4>2. h = [Resting EXCEPT !.pc = "done", !.id = id, !.preview = old.preview,
                                !.edits = old.edits]
        BY <3>2, <3>5, <4>1 DEF Handled
      <4>3. /\ DOMAIN h = DOMAIN Resting /\ h.pc = "done" /\ h.id = id
            /\ h.preview = old.preview /\ h.edits = old.edits
            /\ h.outcome = Miss /\ h.emp = Nobody
        BY <4>2 DEF Resting
      <4>4. HandlerTyped(h, {id})
        BY <1>2, <4>3 DEF HandlerTyped
      <4>5. QED
        BY <2>1, <3>3, <3>5, <4>3, <4>4
    <3>6. QED
      BY <3>4, <3>5
  <2>2. CASE old.outcome # Miss
    <3>1. PICK row : row = [at |-> old.at, rule |-> old.rule, status |-> "parsed"]
      OBVIOUS
    <3>2. PICK h : h = [StoredAs(old) EXCEPT !.pc = "match"]
      OBVIOUS
    <3>3. messages' = Append(messages, row) /\ Step(c, h) /\ row.status = "parsed"
      BY <2>2, <3>1, <3>2 DEF SaveMessage
    <3>4. /\ DOMAIN h = DOMAIN Resting /\ h.pc = "match" /\ h.id = id
          /\ h.preview = old.preview /\ h.edits = old.edits
          /\ h.outcome = old.outcome /\ h.emp = old.emp
      BY <1>2, <3>2 DEF StoredAs, HandlerTyped, Resting
    <3>5. HandlerTyped(h, {id})
      BY <1>2, <2>2, <3>4 DEF HandlerTyped
    <3>6. QED
      BY <2>2, <3>3, <3>4, <3>5
  <2>3. QED
    BY <2>1, <2>2
<1>4. /\ Len(messages) \in Nat /\ DOMAIN messages = 1..Len(messages)
      /\ DOMAIN messages' = 1..id
      /\ \A i \in DOMAIN messages : messages'[i] = messages[i]
      /\ messages'[id] = row
  BY <1>3, Appended DEF MessageInv
<1>5. \A i \in DOMAIN messages' : messages'[i].status \in {"parsed", "ignored"}
  BY <1>3, <1>4 DEF CallInv
<1>6. HandlerTyped(h, DOMAIN messages') /\ DOMAIN messages \subseteq DOMAIN messages'
  BY <1>3, <1>4 DEF HandlerTyped
<1>7. ASSUME c # Udp
      PROVE  AnswerFits(h)'
  <2>1. AnswerFits(old)
    BY <1>7 DEF CallInv, Callers
  <2>2. messages'[h.id].status = IF old.outcome = Miss THEN "ignored" ELSE "parsed"
    BY <1>3, <1>4, <1>7
  <2>3. QED
    BY <1>1, <1>3, <1>7, <2>1, <2>2 DEF AnswerFits, ToldAs
<1>8. QED
  <2>1. cut' \subseteq DOMAIN messages' /\ requests' \in 0..MaxRequests
    BY <1>1, <1>6 DEF CallInv
  <2>2. \A i \in DOMAIN messages : i \in DOMAIN messages' /\ messages'[i] = messages[i]
    BY <1>4, <1>6
  <2>3. QED
    BY <1>1, <1>3, <1>5, <1>6, <1>7, <2>1, <2>2, CallMoves

\* The device's employee is looked up, and the event stored
LEMMA CallEnds ==
  ASSUME RulesInv, MessageInv, RegistryInv, CallInv, NEW c \in Callers,
         MatchEmployee(c) \/ SaveEvent(c) \/ Answer(c)
  PROVE  CallInv'
<1> DEFINE old == handler[c]
<1>1. /\ UNCHANGED <<rules, edits, up, cut, requests, messages>>
      /\ edits \in Nat
      /\ HandlerTyped(old, DOMAIN messages)
      /\ requests \in 0..MaxRequests /\ cut \subseteq DOMAIN messages
      /\ \A i \in DOMAIN messages : messages[i].status \in {"parsed", "ignored"}
  BY DEF MatchEmployee, SaveEvent, Answer, Unchanged, ruleVars, logVars, CallInv,
         RulesInv, RulesTypeOK
<1>2. c # Udp => AnswerFits(old)
  BY DEF CallInv, Callers
<1>3. ASSUME NEW h, Step(c, h), HandlerTyped(h, DOMAIN messages),
             c # Udp => AnswerFits(h), c = Udp => h.pc # "done"
      PROVE  CallInv'
  <2>1. c # Udp => AnswerFits(h)'
    BY <1>1, <1>3, AnswersStay
  <2>2. QED
    BY <1>1, <1>3, <2>1, CallMoves
<1>4. CASE MatchEmployee(c)
  <2>1. PICK h : h = [old EXCEPT !.pc = "event", !.emp = FindByMACAddress(old.outcome)]
    OBVIOUS
  <2>2. Step(c, h) /\ old.pc = "match"
    BY <1>4, <2>1 DEF MatchEmployee
  <2>3. /\ DOMAIN h = DOMAIN Resting /\ h.pc = "event"
        /\ h.id = old.id /\ h.preview = old.preview /\ h.edits = old.edits
        /\ h.outcome = old.outcome /\ h.emp = FindByMACAddress(old.outcome)
    BY <1>1, <2>1 DEF HandlerTyped, Resting
  <2>4. FindByMACAddress(old.outcome) \in Employees \cup {Nobody}
    <3>1. old.outcome \in Macs
      BY <1>1, <2>2, IngestAssumption DEF HandlerTyped
    <3>2. devices[old.outcome] \in Devices
      BY <3>1 DEF RegistryInv, RegistryTypes
    <3>3. QED
      BY <3>2 DEF FindByMACAddress, Devices, NoDevice
  <2>5. HandlerTyped(h, DOMAIN messages)
    BY <1>1, <2>2, <2>3, <2>4 DEF HandlerTyped
  <2>6. c # Udp => AnswerFits(h)
    BY <1>2, <2>2, <2>3 DEF AnswerFits
  <2>7. QED
    BY <1>3, <2>2, <2>3, <2>5, <2>6
<1>5. CASE SaveEvent(c)
  <2>1. PICK h : h = Handled(c, old)
    OBVIOUS
  <2>2. Step(c, h) /\ old.pc = "event"
    BY <1>5, <2>1 DEF SaveEvent
  <2>3. CASE c = Udp
    <3>1. h = Resting
      BY <2>1, <2>3 DEF Handled
    <3>2. QED
      BY <1>3, <2>2, <2>3, <3>1, RestingTyped DEF Resting
  <2>4. CASE c # Udp
    <3>1. h = [Resting EXCEPT !.pc = "done", !.id = old.id, !.preview = old.preview,
                              !.edits = old.edits]
      BY <2>1, <2>4 DEF Handled
    <3>2. /\ DOMAIN h = DOMAIN Resting /\ h.pc = "done" /\ h.id = old.id
          /\ h.preview = old.preview /\ h.edits = old.edits
          /\ h.outcome = Miss /\ h.emp = Nobody
      BY <3>1 DEF Resting
    <3>3. HandlerTyped(h, DOMAIN messages)
      BY <1>1, <2>2, <3>2 DEF HandlerTyped
    <3>4. AnswerFits(h)
      BY <1>2, <2>2, <2>4, <3>2 DEF AnswerFits
    <3>5. QED
      BY <1>3, <2>2, <2>4, <3>3, <3>4
  <2>5. QED
    BY <2>3, <2>4
<1>6. CASE Answer(c)
  BY <1>1, <1>3, <1>6, RestingTyped, RestingFits DEF Answer, Resting
<1>7. QED
  BY <1>4, <1>5, <1>6

\* Every step keeps what handlers know and were told
LEMMA CallStep ==
  ASSUME RulesInv, MessageInv, RegistryInv, CallInv, [Next]_vars
  PROVE  CallInv'
<1>1. ASSUME UNCHANGED <<messages, handler, cut>>,
             requests' = requests \/ (requests < MaxRequests /\ requests' = requests + 1),
             up' \in BOOLEAN
      PROVE  CallInv'
  <2>1. requests' \in 0..MaxRequests
    BY <1>1, IngestAssumption DEF CallInv
  <2>2. UNCHANGED <<rules, edits>> \/ edits' = edits + 1
    BY RulesStep
  <2>3. QED
    BY <1>1, <2>1, <2>2, CallsStay DEF CallInv
<1>2. CASE Crash
  BY <1>2, CallFails DEF Crash
<1>3. CASE \/ \E msg \in Messages : Receive(msg)
           \/ \E c \in Debuggers, msg \in Messages, at \in Times : Inject(c, msg, at)
  BY <1>3, CallBegins
<1>4. CASE \E c \in Callers : HandleStep(c) \/ FailCall(c)
  BY <1>4, CallParses, CallStores, CallEnds, CallFails DEF HandleStep, FailCall
<1>5. CASE \/ \E a \in RuleAdmins : RulesPage(a)
           \/ \E c \in Clerks : BeginClerk(c) \/ ContinueClerk(c)
           \/ LogsPage
  <2>1. UNCHANGED <<messages, handler, cut, up>>
    BY <1>5 DEF RulesPage, BeginClerk, ContinueClerk, LogsPage, Others, logVars,
                OpenLogs, ReaderStep, CountLogs, ListLogs, CloseLogs
  <2>2. requests' = requests \/ (requests < MaxRequests /\ requests' = requests + 1)
    BY <1>5 DEF RulesPage, BeginClerk, ContinueClerk, LogsPage, Request
  <2>3. QED
    BY <1>1, <2>1, <2>2 DEF CallInv
<1>6. CASE Start \/ UNCHANGED vars
  BY <1>1, <1>6 DEF Start, vars, logVars, callVars, CallInv
<1>7. QED
  BY <1>2, <1>3, <1>4, <1>5, <1>6 DEF Next

\* All the invariants together
LEMMA CallInvariant ==
  Spec => [](RulesInv /\ RegistryInv /\ MessageInv /\ LogInv /\ CallInv)
<1>1. Spec => []RegistryInv
  BY RegistryStarts, RegistryStep, PTL DEF Spec
<1>2. Spec => []MessageInv
  BY MessagesStart, MessageStep, PTL DEF Spec
<1>3. Spec => []LogInv
  BY <1>2, LogStart, LogStep, PTL DEF Spec
<1>4. Spec => []CallInv
  BY <1>1, <1>2, RulesInvariant, CallStart, CallStep, PTL DEF Spec
<1>5. QED
  BY <1>1, <1>2, <1>3, <1>4, RulesInvariant, PTL

\* For any rules, messages and number of requests at once, a debug request that
\* nobody changed the rules under is told of its message what was stored of it
THEOREM AnswersFit == Spec => []InjectAnswerFits
<1>1. CallInv => InjectAnswerFits
  BY DEF CallInv, AnswerFits, InjectAnswerFits
<1>2. QED
  BY <1>1, CallInvariant, PTL

\* Every variable has its type: a handler that looks a device up has one, a row
\* it points to is stored, and orders are numbers whatever was moved
THEOREM IngestTypeCorrect == Spec => []TypeOK
<1>1. RegistryInv => RegistryTypeOK
  BY DEF RegistryInv, RegistryTypes, RegistryTypeOK, Asked, Lists
<1>2. MessageInv /\ LogInv /\ CallInv => LogTypeOK
  <2>1. SUFFICES ASSUME MessageInv, LogInv, CallInv
                 PROVE  LogTypeOK
    OBVIOUS
  <2>2. reader.start \subseteq DOMAIN messages
    BY <2>1, RowsFinite DEF LogInv, Readers
  <2>3. QED
    BY <2>1, <2>2 DEF MessageInv, LogInv, CallInv, LogTypeOK, Readers, Scopes
<1>3. RulesInv /\ RegistryInv /\ MessageInv /\ LogInv /\ CallInv => TypeOK
  BY <1>1, <1>2 DEF RulesInv, CallInv, HandlerTyped, TypeOK
<1>4. QED
  BY <1>3, CallInvariant, PTL
=============================================================================
