---------------------------- MODULE SyslogIngest ----------------------------
(***************************************************************************)
(* The way of a message up to the attendance record: the UDP loop and the  *)
(* debug page's injection call SyslogPipeline.Handle, which reads the      *)
(* rules, stores the message, looks the device up and stores the event,    *)
(* while administrators edit rules and employees, readers page through the *)
(* log and the process stops and starts.                                   *)
(*                                                                         *)
(* An error of Handle ends a debug request; in the UDP loop it ends the    *)
(* process, and every request with it.                                     *)
(***************************************************************************)
EXTENDS SyslogRules, EmployeeRegistry, SyslogLog

CONSTANTS
  Debuggers,    \* debug requests
  MaxRequests   \* bound: requests of any page

ASSUME IngestAssumption ==
  /\ Stations \subseteq Macs
  /\ Max(Times) \in Times
  /\ MaxRequests \in Nat

VARIABLES
  up,           \* the process runs
  handler,      \* what each caller of Handle is doing
  requests,     \* requests so far
  cut           \* history: messages whose handling was ended after they were stored

callVars == <<handler, requests, cut>>
vars == <<ruleVars, registryVars, logVars, up, callVars>>

Udp == "udp"
Callers == Debuggers \cup {Udp}

Now == Max(Times)

Resting == [pc |-> "idle", msg |-> "none", at |-> 0, preview |-> "none",
            edits |-> 0, rule |-> NoRule, outcome |-> Miss, id |-> 0, emp |-> Nobody]

\* A new database, or one of an older version that is in use
Init ==
  /\ \/ RulesInit(<<>>) /\ RegistryInit([m \in Macs |-> Nobody])
     \/ RulesInit(OldRules) /\ RegistryInit(OldOwner)
  /\ LogInit
  /\ up = FALSE
  /\ handler = [c \in Callers |-> Resting]
  /\ requests = 0
  /\ cut = {}

-----------------------------------------------------------------------------
(* The process *)

Stored(c) == handler[c].pc \in {"match", "event"}

Stop ==
  /\ up' = FALSE
  /\ StopEdits
  /\ StopClerks
  /\ handler' = [c \in Callers |-> Resting]
  /\ cut' = cut \cup {handler[c].id : c \in {d \in Callers : Stored(d)}}
  /\ reader' = NoReader
  /\ UNCHANGED <<messages, events>>

Crash == up /\ Stop /\ UNCHANGED requests

\* ApplyMigrations, before anything is served
Start ==
  /\ ~up
  /\ up' = TRUE
  /\ Migrate
  /\ UNCHANGED <<registryVars, logVars, callVars>>

-----------------------------------------------------------------------------
(* Handle *)

Step(c, h) == handler' = [handler EXCEPT ![c] = h]

Unchanged == UNCHANGED <<ruleVars, registryVars, up, requests>>

\* Mutant: the loop drops the error and goes on with the next message
DropError(c) == /\ Step(c, Resting)
                /\ UNCHANGED <<ruleVars, registryVars, logVars, up, cut>>

\* Handle returns an error
Fail(c) ==
  IF c = Udp THEN Stop
  ELSE /\ Step(c, Resting)
       /\ cut' = IF Stored(c) THEN cut \cup {handler[c].id} ELSE cut
       /\ UNCHANGED <<ruleVars, registryVars, logVars, up>>

Receive(msg) ==
  /\ up
  /\ handler[Udp].pc = "idle"
  /\ Len(messages) < MaxMessages
  /\ Step(Udp, [Resting EXCEPT !.pc = "parse", !.msg = msg, !.at = Now])
  /\ UNCHANGED <<logVars, cut>> /\ Unchanged

\* What the preview tells of a message: its parse error sets a rule that fails
\* apart from none that matches
Told(msg) ==
  LET outcome == MatchSyslogRule(rules, msg).outcome IN
  CASE outcome = Miss -> "unmatched"
    [] outcome = Broken -> "error"
    [] OTHER -> "parsed"

\* InjectSyslog: the preview, for its answer, reads the rules on its own.  An
\* error of it, of the database too, is only told
Inject(c, msg, at) ==
  /\ up
  /\ handler[c].pc = "idle"
  /\ Len(messages) < MaxMessages
  /\ requests < MaxRequests
  /\ requests' = requests + 1
  /\ \E preview \in {Told(msg), "error"} :
       Step(c, [Resting EXCEPT !.pc = "parse", !.msg = msg, !.at = at,
                               !.preview = preview, !.edits = edits])
  /\ UNCHANGED <<ruleVars, registryVars, logVars, up, cut>>

\* Mutant: the rules are listed without WHERE enabled = 1, and not checked
MatchAnyRule(c) ==
  LET ids == {i \in DOMAIN rules : rules[i].pattern[handler[c].msg] # Miss}
  IN  IF ids = {} THEN [rule |-> NoRule, outcome |-> Miss]
      ELSE [rule |-> FirstRule(rules, ids),
            outcome |-> rules[FirstRule(rules, ids)].pattern[handler[c].msg]]

Matched(c) == MatchSyslogRule(rules, handler[c].msg)

ParseSyslog(c) ==
  LET match == Matched(c) IN
  /\ handler[c].pc = "parse"
  /\ IF match.outcome = Broken
       THEN Fail(c) /\ UNCHANGED requests
       ELSE /\ Step(c, [handler[c] EXCEPT !.pc = "save", !.rule = match.rule,
                                          !.outcome = match.outcome])
            /\ UNCHANGED <<logVars, cut>> /\ Unchanged

\* Handle returns nil; a debug request still has its answer to give
Handled(c, h) == IF c = Udp THEN Resting
                 ELSE [Resting EXCEPT !.pc = "done", !.id = h.id,
                                      !.preview = h.preview, !.edits = h.edits]

\* Mutant: the id of the inserted row is not read back
StoredWithoutID(h) == [h EXCEPT !.at = 0, !.rule = NoRule]

StoredAs(h) == [h EXCEPT !.at = 0, !.rule = NoRule, !.id = Len(messages) + 1]

\* The message is stored whether a rule matched it or not
SaveMessage(c) ==
  LET h == handler[c] IN
  /\ h.pc = "save"
  /\ Len(messages) < MaxMessages
  /\ IF h.outcome = Miss
       THEN /\ messages' = Append(messages, [at |-> h.at, rule |-> NoRule,
                                             status |-> "ignored"])
            /\ Step(c, Handled(c, StoredAs(h)))
       ELSE /\ messages' = Append(messages, [at |-> h.at, rule |-> h.rule,
                                             status |-> "parsed"])
            /\ Step(c, [StoredAs(h) EXCEPT !.pc = "match"])
  /\ UNCHANGED <<events, reader, cut>> /\ Unchanged

MatchEmployee(c) ==
  LET h == handler[c] IN
  /\ h.pc = "match"
  /\ Step(c, [h EXCEPT !.pc = "event", !.emp = FindByMACAddress(h.outcome)])
  /\ UNCHANGED <<logVars, cut>> /\ Unchanged

\* What follows for a matched employee is Attendance.tla's HandleEvent
SaveEvent(c) ==
  LET h == handler[c] IN
  /\ h.pc = "event"
  /\ events' = [i \in DOMAIN events \cup {h.id} |->
                  IF i = h.id THEN h.emp ELSE events[i]]
  /\ Step(c, Handled(c, h))
  /\ UNCHANGED <<messages, reader, cut>> /\ Unchanged

Answer(c) ==
  /\ handler[c].pc = "done"
  /\ Step(c, Resting)
  /\ UNCHANGED <<logVars, cut>> /\ Unchanged

\* Any of Handle's calls of the database fails
FailCall(c) ==
  /\ handler[c].pc \in {"parse", "save", "match", "event"}
  /\ Fail(c)
  /\ UNCHANGED requests

HandleStep(c) ==
  ParseSyslog(c) \/ SaveMessage(c) \/ MatchEmployee(c) \/ SaveEvent(c) \/ Answer(c)

-----------------------------------------------------------------------------
(* The other pages *)

Request == /\ up
           /\ requests < MaxRequests
           /\ requests' = requests + 1

Others == UNCHANGED <<up, handler, cut>>

RulesPage(a) ==
  /\ \/ Request /\ BeginEdit(a)
     \/ ContinueEdit(a) /\ UNCHANGED requests
  /\ UNCHANGED <<registryVars, logVars>> /\ Others

BeginClerk(c) ==
  /\ Request /\ BeginRequest(c)
  /\ UNCHANGED <<ruleVars, logVars>> /\ Others

ContinueClerk(c) ==
  /\ ContinueRequest(c)
  /\ UNCHANGED requests
  /\ UNCHANGED <<ruleVars, logVars>> /\ Others

LogsPage ==
  /\ \/ Request /\ \E scope \in {"all", "matched"} : OpenLogs(scope)
     \/ ReaderStep /\ UNCHANGED requests
  /\ UNCHANGED <<ruleVars, registryVars>> /\ Others

Next ==
  \/ Start
  \/ Crash
  \/ \E msg \in Messages : Receive(msg)
  \/ \E c \in Debuggers, msg \in Messages, at \in Times : Inject(c, msg, at)
  \/ \E c \in Callers : HandleStep(c) \/ FailCall(c)
  \/ \E a \in RuleAdmins : RulesPage(a)
  \/ \E c \in Clerks : BeginClerk(c) \/ ContinueClerk(c)
  \/ LogsPage

Spec == Init /\ [][Next]_vars

\* The database executes the statements it is given, and ends deadlocks
FairSpec == Spec /\ \A c \in Clerks : WF_vars(ContinueClerk(c))

-----------------------------------------------------------------------------
TypeOK ==
  /\ RulesTypeOK
  /\ RegistryTypeOK
  /\ LogTypeOK
  /\ up \in BOOLEAN
  /\ \A c \in Callers :
       /\ handler[c].pc \in {"idle", "parse", "save", "match", "event", "done"}
       /\ handler[c].outcome \in Stations \cup {Miss}
       /\ handler[c].emp \in Employees \cup {Nobody}
       /\ handler[c].id \in DOMAIN messages \cup {0}
  /\ requests \in 0..MaxRequests
  /\ cut \subseteq DOMAIN messages

\* A message stored as parsed has its event, or its handler has still to store
\* it, or the handling was ended in between: then a request failed or the whole
\* process stopped with it, but no message loses its event silently
ParsedMessagesHaveEvents ==
  \A i \in DOMAIN messages :
    messages[i].status = "parsed" =>
      \/ i \in DOMAIN events \cup cut
      \/ \E c \in Callers : Stored(c) /\ handler[c].id = i

\* What a debug request is told of its message, read from the rules once, is
\* what was stored of it, read from the rules again, unless somebody changed
\* the rules meanwhile or the preview told an error
InjectAnswerFits ==
  \A c \in Debuggers :
    LET h == handler[c] IN
    h.pc = "done" /\ h.edits = edits /\ h.preview # "error"
    => h.preview = IF messages[h.id].status = "parsed" THEN "parsed" ELSE "unmatched"

\* A start changes no rule an administrator has left in the table and does not
\* reorder them, be the table one of an older version; the default rules he has
\* removed or renamed come back next to them
KeptByStart ==
  \A i \in DOMAIN rules :
    /\ i \in DOMAIN rules'
    /\ rules'[i] = [rules[i] EXCEPT !.order = rules'[i].order]
    /\ \A j \in DOMAIN rules : Before(rules, i, j) => Before(rules', i, j)

StartKeepsRules == [][Start => KeptByStart]_vars

\* The design says that every message received is stored first, also one that
\* cannot be parsed: what is received gets as far as its Save
EveryReceptionStored ==
  [][\A c \in Callers : ParseSyslog(c) => handler'[c].pc = "save"]_vars
=============================================================================
