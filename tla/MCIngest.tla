------------------------------ MODULE MCIngest ------------------------------
(***************************************************************************)
(* An instance of SyslogIngest for TLC: one kind of message, the default   *)
(* rules (the first matches it, the second does not) and what an           *)
(* administrator may make of them.                                         *)
(***************************************************************************)
EXTENDS SyslogIngest

CONSTANTS m1, m2, e1, e2, raw

Rule(name, enabled, outcome) ==
  [name |-> name, enabled |-> enabled, pattern |-> [m \in Messages |-> outcome]]

MCMessages == {raw}

MCDefaults == <<Rule("connect", TRUE, m1), Rule("disconnect", TRUE, Miss)>>

\* A custom rule that fails on the message, and the first default disabled
MCRuleInputs == {Rule("custom", TRUE, Broken), Rule("connect", FALSE, m1)}

\* An older version's table: the administrator had added a rule of his own
MCOldRules == MCDefaults \o <<Rule("own", TRUE, m1)>>

\* The device messages are about and another, each with its employee
MCOldOwner == [m \in Macs |-> IF m = m1 THEN e1 ELSE e2]

\* The other employee's device, both of which one is disabled, or a disabled
\* employee without any
MCSaveInputs ==
  { [status |-> "active", macs |-> {m2}, off |-> {}],
    [status |-> "active", macs |-> {m1, m2}, off |-> {m1}],
    [status |-> "disabled", macs |-> {}, off |-> {}] }
=============================================================================
