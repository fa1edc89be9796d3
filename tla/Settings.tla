------------------------------ MODULE Settings ------------------------------
(***************************************************************************)
(* system_settings: what the migration seeds, and the settings page's      *)
(* requests, each one transaction of several rows.                         *)
(*                                                                         *)
(* Of the seven settings those that the workers' timing and credentials    *)
(* depend on have a name here.  Any other value is a value no one reads.   *)
(***************************************************************************)
EXTENDS Naturals, Sequences, Functions

CONSTANTS
  Seeds,        \* the migration's defaults, a function from keys to values
  OldSettings,  \* the table of a database in use, its obsolete keys included
  Obsolete,     \* keys that the migration deletes
  Updates,      \* what requests ask for: sequences of [key, value]
  Writers       \* concurrent requests

DayEndTime == "day_end_time"
AppID == "feishu_app_id"
AppSecret == "feishu_app_secret"

ASSUME SettingsAssumption ==
  /\ {DayEndTime, AppID, AppSecret} \subseteq DOMAIN Seeds
  /\ Obsolete \cap DOMAIN Seeds = {}
  /\ \A items \in Updates : Len(items) \in Nat /\ DOMAIN items = 1..Len(items)

VARIABLES
  settings,     \* the table: a function from keys
  writer        \* what each request has still to write, and has written

settingsVars == <<settings, writer>>

Writing(items) == [pc |-> "save", items |-> items, next |-> 1]

NoUpdate == [pc |-> "idle", items |-> <<>>, next |-> 1]

SettingsInit ==
  /\ settings \in {[k \in {} |-> 0], OldSettings}
  /\ writer = [w \in Writers |-> NoUpdate]

\* INSERT IGNORE of the defaults, DELETE of the obsolete keys
Seeded(table) ==
  [k \in (DOMAIN table \cup DOMAIN Seeds) \ Obsolete |->
     IF k \in DOMAIN table THEN table[k] ELSE Seeds[k]]

MigrateSettings ==
  /\ settings' = Seeded(settings)
  /\ UNCHANGED writer

-----------------------------------------------------------------------------
KeysOf(items) == {items[i].key : i \in DOMAIN items}

\* List, and the checks: every key is in the table, and none is given twice.
\* The values are not looked at
BeginUpdate(w, items) ==
  /\ writer[w].pc = "idle"
  /\ KeysOf(items) \subseteq DOMAIN settings
  /\ IsInjective([i \in DOMAIN items |-> items[i].key])
  /\ writer' = [writer EXCEPT ![w] = Writing(items)]
  /\ UNCHANGED settings

Pending(w) == writer[w].pc = "save" /\ writer[w].next <= Len(writer[w].items)

Locked(w) == {writer[w].items[i].key : i \in 1..(writer[w].next - 1)}

Advance(w) == writer' = [writer EXCEPT ![w].next = @ + 1]

\* Mutant: the rows are saved outside the transaction
SaveSettingNow(w) ==
  LET item == writer[w].items[writer[w].next] IN
  /\ Pending(w)
  /\ Advance(w)
  /\ settings' = [settings EXCEPT ![item.key] = item.value]

\* A row stays locked to the end of the transaction that wrote it
SaveSetting(w) ==
  /\ Pending(w)
  /\ \A v \in Writers \ {w} : writer[w].items[writer[w].next].key \notin Locked(v)
  /\ Advance(w)
  /\ UNCHANGED settings

\* A Save fails, or the database ends one of two requests that wait for each
\* other: the transaction is rolled back
AbortUpdate(w) ==
  /\ Pending(w)
  /\ writer' = [writer EXCEPT ![w] = NoUpdate]
  /\ UNCHANGED settings

ValueIn(items, key) == items[CHOOSE i \in DOMAIN items : items[i].key = key].value

WithItems(table, items) ==
  [k \in DOMAIN table |-> IF k \in KeysOf(items) THEN ValueIn(items, k) ELSE table[k]]

CommitUpdate(w) ==
  /\ writer[w].pc = "save"
  /\ ~Pending(w)
  /\ settings' = WithItems(settings, writer[w].items)
  /\ writer' = [writer EXCEPT ![w] = NoUpdate]

ContinueUpdate(w) == SaveSetting(w) \/ AbortUpdate(w) \/ CommitUpdate(w)

StopUpdates ==
  /\ writer' = [w \in Writers |-> NoUpdate]
  /\ UNCHANGED settings

-----------------------------------------------------------------------------
SettingsTypeOK ==
  /\ DOMAIN settings \subseteq DOMAIN Seeds \cup DOMAIN OldSettings
  /\ \A w \in Writers :
       /\ writer[w].pc \in {"idle", "save"}
       /\ writer[w].items \in Updates \cup {<<>>}
       /\ writer[w].next \in 1..(Len(writer[w].items) + 1)
=============================================================================
