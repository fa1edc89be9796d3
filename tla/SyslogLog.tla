----------------------------- MODULE SyslogLog -----------------------------
(***************************************************************************)
(* syslog_messages and client_events, which only grow, and the log page's  *)
(* reader.  A page is two queries, COUNT and LIST, and rows may come in    *)
(* between and between pages; the debug page may add rows of the past.     *)
(***************************************************************************)
EXTENDS Naturals, FiniteSets

CONSTANTS
  Times,        \* times of reception, in seconds
  PageSize,     \* logsPageSize
  MaxMessages   \* bound: messages stored

ASSUME LogAssumption ==
  /\ Times \subseteq Nat
  /\ PageSize \in Nat \ {0}
  /\ MaxMessages \in Nat

VARIABLES
  messages,     \* syslog_messages, a sequence: a message's id is its index
  events,       \* client_events: one per message at most, by message id
  reader        \* the walk of one reader through the pages

logVars == <<messages, events, reader>>

NoReader == [pc |-> "idle", scope |-> "all", page |-> 0, total |-> 0,
             start |-> {}, seen |-> {}]

LogInit ==
  /\ messages = <<>>
  /\ events = [i \in {} |-> 0]
  /\ reader = NoReader

-----------------------------------------------------------------------------
(* The queries.  Scope "matched" joins with the events. *)

Listed(scope) ==
  IF scope = "matched" THEN DOMAIN events ELSE DOMAIN messages

\* ORDER BY received_at DESC, id DESC
Newer(i, j) ==
  \/ messages[i].at > messages[j].at
  \/ messages[i].at = messages[j].at /\ i > j

Position(i, scope) == Cardinality({j \in Listed(scope) : Newer(j, i)})

TotalPages(total) == (total + PageSize - 1) \div PageSize

\* A page past the last is the last
ClampedPage(page, total) ==
  IF total > 0 /\ page > TotalPages(total) THEN TotalPages(total) ELSE page

\* Mutant: pages are taken as if they were numbered from zero
OffsetFromZero(page) == page * PageSize

LogsOffset(page) == (page - 1) * PageSize

PageRows(page, scope) ==
  {i \in Listed(scope) : /\ Position(i, scope) >= LogsOffset(page)
                         /\ Position(i, scope) < LogsOffset(page) + PageSize}

-----------------------------------------------------------------------------
OpenLogs(scope) ==
  /\ reader.pc = "idle"
  /\ reader' = [pc |-> "count", scope |-> scope, page |-> 1, total |-> 0,
                start |-> Listed(scope), seen |-> {}]
  /\ UNCHANGED <<messages, events>>

CountLogs ==
  /\ reader.pc = "count"
  /\ LET total == Cardinality(Listed(reader.scope))
     IN  reader' = [reader EXCEPT !.pc = "list", !.total = total,
                                  !.page = ClampedPage(@, total)]
  /\ UNCHANGED <<messages, events>>

\* The answer; the reader goes on to the next page while there is one
ListLogs ==
  LET more == reader.page < TotalPages(reader.total) IN
  /\ reader.pc = "list"
  /\ reader' = [reader EXCEPT
                  !.pc = IF more THEN "count" ELSE "read",
                  !.page = IF more THEN @ + 1 ELSE @,
                  !.seen = @ \cup PageRows(reader.page, reader.scope)]
  /\ UNCHANGED <<messages, events>>

CloseLogs ==
  /\ reader.pc = "read"
  /\ reader' = NoReader
  /\ UNCHANGED <<messages, events>>

ReaderStep == CountLogs \/ ListLogs \/ CloseLogs

-----------------------------------------------------------------------------
LogTypeOK ==
  /\ \A i \in DOMAIN messages :
       messages[i].at \in Times /\ messages[i].status \in {"parsed", "ignored"}
  /\ DOMAIN events \subseteq DOMAIN messages
  /\ reader.pc \in {"idle", "count", "list", "read"}
  /\ reader.scope \in {"all", "matched"}
  /\ reader.page \in Nat /\ reader.total \in Nat
  /\ reader.start \subseteq DOMAIN messages
  /\ reader.seen \subseteq DOMAIN messages

\* Who pages through the log while messages come in, backdated ones too, may
\* meet a row twice or stop before the oldest rows, but leaves no hole: a row
\* that was listed when he began is among those he saw if an older one is
LogWalkHasNoGap ==
  \A i \in reader.start : \A j \in reader.seen : Newer(i, j) => i \in reader.seen
=============================================================================
