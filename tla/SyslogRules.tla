---------------------------- MODULE SyslogRules ----------------------------
(***************************************************************************)
(* syslog_receive_rules: the ordered rules messages are matched against,   *)
(* the requests that edit them, and the migration that seeds them at each  *)
(* start of the process.                                                   *)
(*                                                                         *)
(* A rule's pattern, groups and event type come down to what the rule says *)
(* of each message: an event of some device, no match, or an error (it     *)
(* matched and the station or the time could not be extracted).            *)
(***************************************************************************)
EXTENDS Naturals, Sequences, FiniteSetsExt, Functions

CONSTANTS
  Messages,     \* raw messages
  Stations,     \* devices, as messages name them
  RuleAdmins,   \* concurrent requests that edit rules
  RuleInputs,   \* what requests ask for: [name, enabled, pattern]
  Defaults,     \* the migration's default rules, a sequence of inputs
  OldRules,     \* the rows of a database from before sort_order existed
  MaxRules      \* bound: rules ever inserted

Miss == "miss"
Broken == "broken"

Patterns == [Messages -> Stations \cup {Miss, Broken}]

Inputs(names) == [name : names, enabled : BOOLEAN, pattern : Patterns]

Names == {input.name : input \in RuleInputs}
           \cup {Defaults[i].name : i \in DOMAIN Defaults}
           \cup {OldRules[i].name : i \in DOMAIN OldRules}

ASSUME RulesAssumption ==
  /\ RuleInputs \subseteq Inputs(Names)
  /\ Defaults \in Seq(Inputs(Names))
  /\ OldRules \in Seq(Inputs(Names))
  /\ MaxRules \in Nat

VARIABLES
  rules,        \* the table: a function from ids
  nextRule,     \* the table's AUTO_INCREMENT
  editing,      \* what each request is doing
  edits,        \* history: committed changes of the table so far
  tied          \* history: two rules may have got the same order

ruleVars == <<rules, nextRule, editing, edits, tied>>

Rules == [name : Names, enabled : BOOLEAN, pattern : Patterns, order : Nat]

NoRules == [i \in {} |-> {}]

\* No request; at is edits when a move began to read
NoEdit == [pc |-> "idle", id |-> 0, order |-> 0, other |-> 0, otherOrder |-> 0,
           at |-> 0]

\* ORDER BY sort_order, id
Before(table, i, j) ==
  \/ table[i].order < table[j].order
  \/ table[i].order = table[j].order /\ i < j

FirstRule(table, ids) ==
  CHOOSE i \in ids : \A j \in ids \ {i} : Before(table, i, j)

Enabled(table) == {i \in DOMAIN table : table[i].enabled}

-----------------------------------------------------------------------------
(* Matching: the first enabled rule that does not miss decides; an error   *)
(* of a rule ends the search as a match does.  NoRule is a nil result.     *)

NoRule == 0

Deciding(table, msg) == {i \in Enabled(table) : table[i].pattern[msg] # Miss}

MatchSyslogRule(table, msg) ==
  IF Deciding(table, msg) = {} THEN [rule |-> NoRule, outcome |-> Miss]
  ELSE LET i == FirstRule(table, Deciding(table, msg))
       IN  [rule |-> i, outcome |-> table[i].pattern[msg]]

-----------------------------------------------------------------------------
(* The migration, run at every start: orders of 0 become the id, and each  *)
(* default rule whose name is not in the table is inserted.                *)

NameTaken(table, name) == \E i \in DOMAIN table : table[i].name = name

Renumbered(table) ==
  [i \in DOMAIN table |->
     IF table[i].order = 0 THEN [table[i] EXCEPT !.order = i] ELSE table[i]]

Missing(table) == {n \in DOMAIN Defaults : ~NameTaken(table, Defaults[n].name)}

\* The n-th default's id: those missing are inserted in order
SeedID(table, n) == nextRule + Cardinality({k \in Missing(table) : k < n})

WithOrder(input, order) ==
  [name |-> input.name, enabled |-> input.enabled, pattern |-> input.pattern,
   order |-> order]

\* Mutant: INSERT ... ON DUPLICATE KEY UPDATE brings the defaults' columns back
SeededOver(table) ==
  LET seeded == [i \in DOMAIN table |->
                   IF \E n \in DOMAIN Defaults : Defaults[n].name = table[i].name
                     THEN LET n == CHOOSE k \in DOMAIN Defaults :
                                     Defaults[k].name = table[i].name
                          IN  WithOrder(Defaults[n], n)
                     ELSE table[i]]
      new == {SeedID(table, n) : n \in Missing(table)}
  IN  [i \in DOMAIN table \cup new |->
         IF i \in DOMAIN table THEN seeded[i]
         ELSE LET n == CHOOSE k \in Missing(table) : SeedID(table, k) = i
              IN  WithOrder(Defaults[n], n)]

\* INSERT IGNORE of the default rules
Seeded(table) ==
  LET new == {SeedID(table, n) : n \in Missing(table)}
  IN  [i \in DOMAIN table \cup new |->
         IF i \in DOMAIN table THEN table[i]
         ELSE LET n == CHOOSE k \in Missing(table) : SeedID(table, k) = i
              IN  WithOrder(Defaults[n], n)]

Migrate ==
  /\ rules' = Seeded(Renumbered(rules))
  /\ nextRule' = nextRule + Cardinality(Missing(rules))
  /\ edits' = IF rules' = rules THEN edits ELSE edits + 1
  /\ tied' = (tied \/ (Missing(rules) # {} /\ rules # NoRules))
  /\ UNCHANGED editing

\* The column sort_order is added with 0 in each row
RulesInit(old) ==
  /\ rules = [i \in DOMAIN old |-> WithOrder(old[i], 0)]
  /\ nextRule = Cardinality(DOMAIN rules) + 1
  /\ editing = [a \in RuleAdmins |-> NoEdit]
  /\ edits = 0
  /\ tied = FALSE

-----------------------------------------------------------------------------
(* Requests.  Inputs are validated before the first query: what reaches    *)
(* the table compiles and names groups the pattern has.  A request that    *)
(* finds no rule, or a name in use, changes nothing.                       *)

Committed(table) == rules' = table /\ edits' = edits + 1

Without(id) == Restrict(rules, DOMAIN rules \ {id})

EndEdit(a) == editing' = [editing EXCEPT ![a] = NoEdit]

\* Mutant: the new rule's order is counted
NextOrderCounted == Cardinality(DOMAIN rules) + 1

\* COALESCE(MAX(sort_order), 0) + 1, in the INSERT itself
NextOrder == 1 + Max({rules[i].order : i \in DOMAIN rules} \cup {0})

CreateRule(a, input) ==
  /\ editing[a].pc = "idle"
  /\ nextRule <= MaxRules
  /\ ~NameTaken(rules, input.name)
  /\ Committed([i \in DOMAIN rules \cup {nextRule} |->
                  IF i = nextRule THEN WithOrder(input, NextOrder) ELSE rules[i]])
  /\ nextRule' = nextRule + 1
  /\ UNCHANGED <<editing, tied>>

\* FindByID of UpdateRule and DeleteRule
FindRule(a, id) ==
  /\ editing[a].pc = "idle"
  /\ id \in DOMAIN rules
  /\ editing' = [editing EXCEPT ![a] = [NoEdit EXCEPT !.pc = "found", !.id = id]]
  /\ UNCHANGED <<rules, nextRule, edits, tied>>

\* The UPDATE leaves the order alone; a rule deleted since is no error
UpdateRule(a, input) ==
  LET id == editing[a].id IN
  /\ editing[a].pc = "found"
  /\ IF id \in DOMAIN rules /\ ~NameTaken(Without(id), input.name)
       THEN Committed([rules EXCEPT ![id] = WithOrder(input, rules[id].order)])
       ELSE UNCHANGED <<rules, edits>>
  /\ EndEdit(a)
  /\ UNCHANGED <<nextRule, tied>>

DeleteRule(a) ==
  LET id == editing[a].id IN
  /\ editing[a].pc = "found"
  /\ IF id \in DOMAIN rules
       THEN Committed(Without(id))
       ELSE UNCHANGED <<rules, edits>>
  /\ EndEdit(a)
  /\ UNCHANGED <<nextRule, tied>>

(* MoveRule: the rule's order, its neighbour, and the exchange, of which   *)
(* only the two UPDATEs are one transaction.                               *)

ReadCurrent(a, id, direction) ==
  /\ editing[a].pc = "idle"
  /\ id \in DOMAIN rules
  /\ editing' = [editing EXCEPT ![a] =
                   [NoEdit EXCEPT !.pc = direction, !.id = id,
                                  !.order = rules[id].order, !.at = edits]]
  /\ UNCHANGED <<rules, nextRule, edits, tied>>

Candidates(direction, order) ==
  IF direction = "up" THEN {i \in DOMAIN rules : rules[i].order < order}
                      ELSE {i \in DOMAIN rules : rules[i].order > order}

\* Mutant: both directions sort ascending, so "up" goes to the first place
FirstCandidate(direction, ids) == FirstRule(rules, ids)

\* ORDER BY sort_order, id: DESC upwards, ASC downwards
Neighbour(direction, ids) ==
  IF direction = "up" THEN CHOOSE i \in ids : \A j \in ids \ {i} : Before(rules, j, i)
                      ELSE FirstRule(rules, ids)

ReadNeighbour(a) ==
  LET edit == editing[a]
      ids == Candidates(edit.pc, edit.order)
  IN
  /\ edit.pc \in {"up", "down"}
  /\ IF ids = {} THEN EndEdit(a)
     ELSE LET i == Neighbour(edit.pc, ids)
          IN  editing' = [editing EXCEPT ![a] =
                            [edit EXCEPT !.pc = "swap", !.other = i,
                                         !.otherOrder = rules[i].order]]
  /\ UNCHANGED <<rules, nextRule, edits, tied>>

OrdersAsRead(edit) ==
  /\ {edit.id, edit.other} \subseteq DOMAIN rules
  /\ rules[edit.id].order = edit.order
  /\ rules[edit.other].order = edit.otherOrder

\* The transaction; an UPDATE of a row that is gone changes none
SwapOrders(a) ==
  LET edit == editing[a] IN
  /\ edit.pc = "swap"
  /\ Committed([i \in DOMAIN rules |->
                  CASE i = edit.id -> [rules[i] EXCEPT !.order = edit.otherOrder]
                    [] i = edit.other -> [rules[i] EXCEPT !.order = edit.order]
                    [] OTHER -> rules[i]])
  /\ tied' = (tied \/ ~OrdersAsRead(edit))
  /\ EndEdit(a)
  /\ UNCHANGED nextRule

\* The transaction fails: two opposite moves deadlock on the rows
AbortSwap(a) ==
  /\ editing[a].pc = "swap"
  /\ \E b \in RuleAdmins \ {a} : editing[b].pc = "swap"
  /\ EndEdit(a)
  /\ UNCHANGED <<rules, nextRule, edits, tied>>

\* A stop of the process ends the requests; transactions are rolled back
StopEdits ==
  /\ editing' = [a \in RuleAdmins |-> NoEdit]
  /\ UNCHANGED <<rules, nextRule, edits, tied>>

BeginEdit(a) ==
  \/ \E input \in RuleInputs : CreateRule(a, input)
  \/ \E id \in DOMAIN rules :
       \/ FindRule(a, id)
       \/ \E direction \in {"up", "down"} : ReadCurrent(a, id, direction)

ContinueEdit(a) ==
  \/ \E input \in RuleInputs : UpdateRule(a, input)
  \/ DeleteRule(a)
  \/ ReadNeighbour(a)
  \/ SwapOrders(a)
  \/ AbortSwap(a)

-----------------------------------------------------------------------------
Edits == [pc : {"idle", "found", "up", "down", "swap"}, id : Nat, order : Nat,
          other : Nat, otherOrder : Nat, at : Nat]

RulesTypeOK ==
  /\ DOMAIN rules \subseteq 1..(nextRule - 1)
  /\ \A i \in DOMAIN rules : rules[i] \in Rules
  /\ nextRule \in Nat \ {0}
  /\ editing \in [RuleAdmins -> Edits]
  /\ edits \in Nat
  /\ tied \in BOOLEAN

DistinctOrders(table) ==
  \A i, j \in DOMAIN table : table[i].order = table[j].order => i = j

\* No two rules share a place in the order messages are matched in, as long
\* as no move was committed over orders that were no longer those it had read,
\* and no start put a default rule back into a table that had lost it: a
\* deletion, a creation or an update between a move's reads does no harm
OrdersDistinct == edits = 0 \/ tied \/ DistinctOrders(rules)

Place(table, i) == Cardinality({j \in DOMAIN table : Before(table, j, i)})

\* Where orders are distinct and nobody changed the table since the move read
\* it, a move exchanges the rule with the one listed next to it and leaves
\* every other rule in its place
MoveExchanges ==
  \A a \in RuleAdmins :
    LET edit == editing[a] IN
    ( /\ edit.pc = "swap" /\ rules' # rules /\ editing'[a] = NoEdit
      /\ edit.at = edits /\ DistinctOrders(rules) )
    => LET p == Place(rules, edit.id)
           q == IF edit.otherOrder < edit.order THEN p - 1 ELSE p + 1
       IN  \A i \in DOMAIN rules :
             Place(rules', i) = CASE Place(rules, i) = p -> q
                                  [] Place(rules, i) = q -> p
                                  [] OTHER -> Place(rules, i)

MovesExchangeNeighbours == [][MoveExchanges]_ruleVars
=============================================================================
