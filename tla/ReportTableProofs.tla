------------------------- MODULE ReportTableProofs -------------------------
(***************************************************************************)
(* What the operations of the reports table preserve and return, for every *)
(* table and row.                                                          *)
(***************************************************************************)
EXTENDS ReportTable, SequenceTheorems, WellFoundedInduction, TLAPS

\* A formatted time is the start of the second the instant is in
LEMMA TruncatedTime ==
  ASSUME NEW time \in Nat
  PROVE  /\ Truncated(time) \in WholeSeconds
         /\ Truncated(time) <= time
         /\ time < Truncated(time) + Second
  BY DEF Truncated, WholeSeconds, Second

\* A DATETIME is the start of the instant's second, or the end of it
LEMMA RoundedTime ==
  ASSUME NEW time \in Nat
  PROVE  /\ Rounded(time) \in WholeSeconds
         /\ \/ Rounded(time) = Truncated(time)
            \/ Rounded(time) = Truncated(time) + Second
  BY DEF Truncated, Rounded, WholeSeconds, Second

\* A time read from a DATETIME column is kept as it is
LEMMA WholeTime ==
  ASSUME NEW time \in WholeSeconds
  PROVE  /\ Rounded(time) = time
         /\ Truncated(time) = time
  BY DEF Truncated, Rounded, WholeSeconds, Second

\* An instant before a stored time is told as a second before it at least
LEMMA EarlierTime ==
  ASSUME NEW time \in Nat, NEW whole \in WholeSeconds, time < whole
  PROVE  /\ Truncated(time) + Second <= whole
         /\ Rounded(time) <= whole
  BY DEF Truncated, Rounded, WholeSeconds, Second

\* An instant after a stored time is stored as that time at least
LEMMA LaterTime ==
  ASSUME NEW time \in Nat, NEW whole \in WholeSeconds, time > whole
  PROVE  whole <= Truncated(time) /\ whole <= Rounded(time)
  BY DEF Truncated, Rounded, WholeSeconds, Second

(***************************************************************************)
(* A non-empty set of row ids has a greatest one, so "the newest row" is   *)
(* well defined wherever the code says ORDER BY id DESC LIMIT 1.           *)
(***************************************************************************)
LEMMA GreatestId ==
  ASSUME NEW n \in Nat, NEW S \in SUBSET (1..n), S # {}
  PROVE  \E i \in S : \A j \in S : j <= i
<1> DEFINE T == {n - i : i \in S}
<1>1. T \in SUBSET Nat /\ T # {}
  <2>1. \A i \in S : n - i \in Nat
    OBVIOUS
  <2>2. PICK i \in S : TRUE
    OBVIOUS
  <2>3. n - i \in T
    BY <2>2
  <2>4. QED
    BY <2>1, <2>3
<1>2. PICK m \in T : \A k \in T : ~ (<<k, m>> \in OpToRel(<, Nat))
  BY <1>1, NatLessThanWellFounded, WFMin
<1>3. \A k \in T : ~ (k < m)
  BY <1>1, <1>2 DEF OpToRel
<1>4. PICK i \in S : m = n - i
  BY <1>2
<1>5. \A j \in S : j <= i
  <2> SUFFICES ASSUME NEW j \in S PROVE j <= i
    OBVIOUS
  <2>1. n - j \in T
    OBVIOUS
  <2>2. ~ (n - j < n - i)
    BY <1>3, <1>4, <2>1
  <2>3. QED
    BY <2>2
<1>6. QED
  BY <1>5

\* A non-empty set of row ids has a least one: ORDER BY id ASC
LEMMA LeastId ==
  ASSUME NEW n \in Nat, NEW S \in SUBSET (1..n), S # {}
  PROVE  \E i \in S : \A j \in S : i <= j
<1>1. S \in SUBSET Nat /\ S # {}
  OBVIOUS
<1>2. PICK m \in S : \A k \in S : ~ (<<k, m>> \in OpToRel(<, Nat))
  BY <1>1, NatLessThanWellFounded, WFMin
<1>3. \A k \in S : ~ (k < m)
  BY <1>1, <1>2 DEF OpToRel
<1>4. \A k \in S : m <= k
  BY <1>1, <1>3
<1>5. QED
  BY <1>4

\* The delete id that copyLatestDeleteRecordID finds is one the table holds
LEMMA LatestFlowIsHeld ==
  ASSUME NEW R, NEW rows \in Seq(R), NEW emp, NEW kind
  PROVE  \/ LatestFlow(rows, emp, kind) = NoFlow
         \/ \E i \in 1..Len(rows) : LatestFlow(rows, emp, kind) = rows[i].ext
<1> DEFINE found == Delivered(rows, emp, kind)
<1>1. CASE found = {}
  BY <1>1 DEF LatestFlow
<1>2. CASE found # {}
  <2>1. found \in SUBSET (1..Len(rows)) /\ Len(rows) \in Nat
    BY DEF Delivered
  <2>2. \E i \in found : \A j \in found : j <= i
    BY <1>2, <2>1, GreatestId
  <2>3. (CHOOSE i \in found : \A j \in found : j <= i) \in 1..Len(rows)
    BY <2>1, <2>2
  <2>4. QED
    BY <1>2, <2>3 DEF LatestFlow
<1>3. QED
  BY <1>1, <1>2

\* The flow a look-up finds is a number
LEMMA LatestFlowType ==
  ASSUME NEW R, NEW rows \in Seq(R), NEW emp, NEW kind,
         \A r \in R : r.ext \in Nat
  PROVE  LatestFlow(rows, emp, kind) \in Nat
<1>1. \A i \in 1..Len(rows) : rows[i].ext \in Nat
  BY ElementOfSeq
<1>2. QED
  BY <1>1, LatestFlowIsHeld DEF NoFlow

\* A Save leaves a table of rows a table of rows
LEMMA SaveReportType ==
  ASSUME NEW R, NEW rows \in Seq(R), NEW row \in R
  PROVE  SaveReport(rows, row) \in Seq(R)
  BY DEF SaveReport, FindByIdempotencyKey

\* A Save deletes no row: every id keeps its key
LEMMA SaveReportKeepsKeys ==
  ASSUME NEW R, NEW rows \in Seq(R), NEW row \in R, NEW i \in 1..Len(rows)
  PROVE  /\ i \in 1..Len(SaveReport(rows, row))
         /\ SaveReport(rows, row)[i].key = rows[i].key
  BY DEF SaveReport, FindByIdempotencyKey

\* What a row of the table is after a Save: the saved row, or what it was
LEMMA SaveReportRows ==
  ASSUME NEW R, NEW rows \in Seq(R), NEW row \in R,
         NEW i \in 1..Len(SaveReport(rows, row))
  PROVE  \/ SaveReport(rows, row)[i] = row
         \/ i \in 1..Len(rows) /\ SaveReport(rows, row)[i] = rows[i]
<1>1. CASE FindByIdempotencyKey(rows, row.key) = {}
  BY <1>1 DEF SaveReport
<1>2. CASE FindByIdempotencyKey(rows, row.key) # {}
  BY <1>2 DEF SaveReport, FindByIdempotencyKey
<1>3. QED
  BY <1>1, <1>2

\* After a Save the table has the row
LEMMA SaveReportHasRow ==
  ASSUME NEW R, NEW rows \in Seq(R), NEW row \in R
  PROVE  \E i \in 1..Len(SaveReport(rows, row)) : SaveReport(rows, row)[i] = row
<1>1. CASE FindByIdempotencyKey(rows, row.key) = {}
  <2>1. Len(rows) + 1 \in 1..Len(Append(rows, row))
    OBVIOUS
  <2>2. Append(rows, row)[Len(rows) + 1] = row
    OBVIOUS
  <2>3. QED
    BY <1>1, <2>1, <2>2 DEF SaveReport
<1>2. CASE FindByIdempotencyKey(rows, row.key) # {}
  BY <1>2 DEF SaveReport, FindByIdempotencyKey
<1>3. QED
  BY <1>1, <1>2

\* A time that is queued stays queued, and a saved report is queued
LEMMA SaveReportQueues ==
  ASSUME NEW R, NEW rows \in Seq(R), NEW row \in R
  PROVE  /\ \A emp, kind, time :
              HasCreate(rows, emp, kind, time)
                => HasCreate(SaveReport(rows, row), emp, kind, time)
         /\ row.key.act = "create"
              => HasCreate(SaveReport(rows, row), row.key.emp, row.key.kind,
                           row.key.time)
<1>1. ASSUME NEW emp, NEW kind, NEW time, HasCreate(rows, emp, kind, time)
      PROVE  HasCreate(SaveReport(rows, row), emp, kind, time)
  <2>1. PICK i \in 1..Len(rows) :
          /\ rows[i].key.emp = emp
          /\ rows[i].key.kind = kind
          /\ rows[i].key.act = "create"
          /\ rows[i].key.time = time
    BY <1>1 DEF HasCreate
  <2>2. /\ i \in 1..Len(SaveReport(rows, row))
        /\ SaveReport(rows, row)[i].key = rows[i].key
    BY SaveReportKeepsKeys
  <2>3. QED
    BY <2>1, <2>2 DEF HasCreate
<1>2. ASSUME row.key.act = "create"
      PROVE  HasCreate(SaveReport(rows, row), row.key.emp, row.key.kind,
                       row.key.time)
  BY <1>2, SaveReportHasRow DEF HasCreate
<1>3. QED
  BY <1>1, <1>2
=============================================================================
