----------------------------- MODULE DeskProofs -----------------------------
(***************************************************************************)
(* Proofs about brand voices, reports, drafts and spend thresholds, for    *)
(* any number of rows, rules, retries, thresholds and budgets and of       *)
(* requests in flight, each from an inductive invariant of its component.  *)
(***************************************************************************)
EXTENDS DeskChecks, FiniteSetTheorems, TLAPS

\* The leaves are first-order reasoning about sets and functions unless they say SMT.
USE Zenon
-----------------------------------------------------------------------------
(***************************************************************************)
(* Reports.  The rows are numbered without gap and the last is the latest. *)
(* A request that read a latest row read one that is still in the table;   *)
(* the two unique constraints refuse its row unless that one is the last.  *)
(***************************************************************************)
ReportRow ==
  [version : Nat, latest : BOOLEAN, final : BOOLEAN, observed : Nat \cup {Absent},
   custom : SUBSET (Nat \cup {Absent})]

\* The rows have the versions 1..n, one each, and the last one is the latest.
Numbered(rows, n) ==
  /\ \A r \in rows : r.version \in 1..n /\ (r.latest <=> r.version = n)
  /\ \A k \in 1..n : \E r \in rows : r.version = k
  /\ \A q, r \in rows : q.version = r.version => q = r

\* r, a row or a request, counted events of the metric.
Seen(r) == r.observed # Absent /\ r.observed > 0

\* What a request t has read: a count that was not zero says that there are events, the
\* KPI evaluated after it is no null, and the row it demotes is in the table.
ReportRead(t, any, rows) ==
  /\ t.phase # "none" => t.completing \in BOOLEAN
  /\ t.phase \in {"custom", "number", "demote", "insert"} =>
       t.observed \in Nat \cup {Absent} /\ (Seen(t) => any)
  /\ t.phase \in {"number", "demote", "insert"} =>
       t.custom \subseteq Nat \cup {Absent} /\ (Seen(t) => Absent \notin t.custom)
  /\ t.phase = "demote" =>
       t = [phase |-> "demote", completing |-> t.completing, observed |-> t.observed,
            custom |-> t.custom, version |-> t.version, prior |-> t.prior]
  /\ t.phase \in {"demote", "insert"} =>
       \/ t.prior = {} /\ t.version = 1
       \/ \E k \in Nat : k > 0 /\ t.prior = {k} /\ t.version = k + 1 /\ \E r \in rows : r.version = k

ReportInv ==
  /\ hits \in Nat /\ misses \in Nat /\ others \in Nat
  /\ reports \subseteq ReportRow
  /\ \E n \in Nat : Numbered(reports, n)
  /\ \A r \in reports : Seen(r) => Absent \notin r.custom
  /\ status = "completed" => \E r \in reports : r.final
  /\ tx = [s \in Sessions |-> tx[s]]
  /\ \A s \in Sessions : ReportRead(tx[s], hits + misses # 0, reports)

LEMMA IdleHasRead == \A any, rows : ReportRead(R!Idle, any, rows)
<1>1. R!Idle.phase = "none"
  BY SMT DEF R!Idle
<1> QED
  BY <1>1 DEF ReportRead

LEMMA ReportInit == R!Init => ReportInv
<1> SUFFICES ASSUME R!Init PROVE ReportInv
  OBVIOUS
<1>1. Numbered({}, 0)
  BY SMT DEF Numbered
<1>2. 0 \in Nat
  BY SMT
<1>3. \A s \in Sessions : tx[s] = R!Idle
  BY DEF R!Init
<1>4. \A s \in Sessions : ReportRead(tx[s], hits + misses # 0, reports)
  BY <1>3, IdleHasRead
<1> QED
  BY <1>1, <1>2, <1>4 DEF R!Init, ReportInv

\* A demoted row is the same row, not the latest.
LEMMA RowDemoted ==
  ASSUME NEW r \in ReportRow
  PROVE  /\ [r EXCEPT !.latest = FALSE] \in ReportRow
         /\ [r EXCEPT !.latest = FALSE].version = r.version
         /\ [r EXCEPT !.latest = FALSE].latest = FALSE
         /\ [r EXCEPT !.latest = FALSE].final = r.final
         /\ [r EXCEPT !.latest = FALSE].observed = r.observed
         /\ [r EXCEPT !.latest = FALSE].custom = r.custom
<1>1. ASSUME NEW A, NEW B, NEW C, NEW F, NEW E, FALSE \in B,
             NEW q \in [version : A, latest : B, final : C, observed : F, custom : E]
      PROVE  [q EXCEPT !.latest = FALSE] \in [version : A, latest : B, final : C, observed : F, custom : E]
  BY <1>1
<1>2. r = [f \in {"version", "latest", "final", "observed", "custom"} |-> r[f]]
  BY SMT DEF ReportRow
<1>3. [r EXCEPT !.latest = FALSE].version = r.version
  BY <1>2
<1>4. [r EXCEPT !.latest = FALSE].latest = FALSE
  BY <1>2
<1>5. [r EXCEPT !.latest = FALSE].final = r.final
  BY <1>2
<1>6. [r EXCEPT !.latest = FALSE].observed = r.observed
  BY <1>2
<1>7. [r EXCEPT !.latest = FALSE].custom = r.custom
  BY <1>2
<1> QED
  BY <1>1, <1>3, <1>4, <1>5, <1>6, <1>7 DEF ReportRow

\* One more row, its predecessor demoted.
LEMMA OneMoreRow ==
  ASSUME NEW rows, rows \subseteq ReportRow, NEW n \in Nat, Numbered(rows, n),
         NEW new \in ReportRow, new.version = n + 1, new.latest = TRUE,
         NEW kept, kept = {r \in rows : r.version # n}
  PROVE  Numbered(kept \cup {[r EXCEPT !.latest = FALSE] : r \in rows \ kept} \cup {new}, n + 1)
<1> DEFINE demoted == {[r EXCEPT !.latest = FALSE] : r \in rows \ kept}
           out == kept \cup demoted \cup {new}
<1>1. \A q \in demoted : \E r \in rows : q.version = n /\ r.version = n /\ q.latest = FALSE /\
                           q = [r EXCEPT !.latest = FALSE]
  BY RowDemoted
<1>2. \A q \in kept : q \in rows /\ q.version \in 1..n /\ q.version # n
  BY DEF Numbered
<1>3. \A q \in kept : q.latest = FALSE
  <2>1. \A q \in kept : ~q.latest /\ q.latest \in BOOLEAN
    BY <1>2 DEF Numbered, ReportRow
  <2> QED
    BY <2>1
<1>4. (\A k \in 1..n : k \in 1..(n + 1) /\ k # n + 1) /\ n + 1 \in 1..(n + 1) /\ n # n + 1
  BY SMT
<1>5. \A r \in out : r.version \in 1..(n + 1) /\ (r.latest <=> r.version = n + 1)
  <2>1. \A q \in kept : q.version \in 1..(n + 1) /\ (q.latest <=> q.version = n + 1)
    BY <1>2, <1>3, <1>4
  <2>2. \A q \in demoted : q.version \in 1..(n + 1) /\ (q.latest <=> q.version = n + 1)
    <3>1. \A r \in rows : r.version \in 1..n
      BY DEF Numbered
    <3>2. ASSUME NEW q \in demoted PROVE q.version = n /\ q.latest = FALSE /\ n \in 1..n
      <4> HIDE DEF demoted
      <4> QED
        BY <1>1, <3>1
    <3>3. \A q \in demoted : q.version \in 1..(n + 1) /\ q.version # n + 1 /\ ~q.latest
      <4> HIDE DEF demoted
      <4> QED
        BY <1>4, <3>2
    <3> QED
      BY <3>3
  <2> QED
    BY <2>1, <2>2, <1>4
<1>6. \A k \in 1..(n + 1) : \E r \in out : r.version = k
  <2> SUFFICES ASSUME NEW k \in 1..(n + 1) PROVE \E r \in out : r.version = k
    OBVIOUS
  <2>1. k = n + 1 \/ k \in 1..n
    BY SMT
  <2>2. CASE k = n + 1
    BY <2>2
  <2>3. CASE k \in 1..n
    <3>1. PICK r \in rows : r.version = k
      BY <2>3 DEF Numbered
    <3>2. CASE k # n
      BY <3>1, <3>2
    <3>3. CASE k = n
      <4>1. r \in rows \ kept
        BY <3>1, <3>3
      <4>2. [r EXCEPT !.latest = FALSE] \in demoted /\ [r EXCEPT !.latest = FALSE].version = k
        BY <3>1, <4>1, RowDemoted
      <4> QED
        BY <4>2
    <3> QED
      BY <3>2, <3>3
  <2> QED
    BY <2>1, <2>2, <2>3
<1>7. \A q, r \in out : q.version = r.version => q = r
  <2>1. \A q, r \in kept : q.version = r.version => q = r
    BY <1>2 DEF Numbered
  <2>2. \A q, r \in demoted : q = r
    <3> SUFFICES ASSUME NEW q \in demoted, NEW r \in demoted PROVE q = r
      OBVIOUS
    <3>1. PICK p \in rows : p.version = n /\ q = [p EXCEPT !.latest = FALSE]
      BY <1>1
    <3>2. PICK o \in rows : o.version = n /\ r = [o EXCEPT !.latest = FALSE]
      BY <1>1
    <3>3. p = o
      BY <3>1, <3>2 DEF Numbered
    <3> QED
      BY <3>1, <3>2, <3>3
  <2>3. \A q \in kept, r \in demoted : q.version # r.version
    BY <1>1, <1>2
  <2>4. \A q \in kept \cup demoted : q.version # new.version
    <3>1. \A q \in kept : q.version # n + 1
      BY <1>2, <1>4
    <3>2. \A q \in demoted : q.version # n + 1
      BY <1>1, <1>4
    <3> QED
      BY <3>1, <3>2
  <2> HIDE DEF demoted
  <2> QED
    BY <2>1, <2>2, <2>3, <2>4
<1> QED
  BY <1>5, <1>6, <1>7 DEF Numbered

\* What was read stays so when events arrive and rows are added.
LEMMA ReadStays ==
  ASSUME NEW t, NEW any, NEW rows, ReportRead(t, any, rows), NEW more, NEW table,
         any => more, \A r \in rows : \E q \in table : q.version = r.version
  PROVE  ReportRead(t, more, table)
  BY DEF ReportRead

\* Events and KPI definitions.
LEMMA ReportArrive ==
  ASSUME ReportInv, R!Arrive \/ R!CreateCustomKpi \/ R!DeleteCustomKpi
  PROVE  ReportInv'
<1>1. UNCHANGED <<reports, status, tx>>
  BY DEF R!Arrive, R!CreateCustomKpi, R!DeleteCustomKpi
<1>2. /\ hits' \in Nat /\ misses' \in Nat /\ others' \in Nat
      /\ hits + misses # 0 => hits' + misses' # 0
  <2>1. hits \in Nat /\ misses \in Nat /\ others \in Nat
    BY DEF ReportInv
  <2>2. CASE R!Arrive
    <3>1. \/ hits' = hits + 1 /\ misses' = misses /\ others' = others
          \/ misses' = misses + 1 /\ hits' = hits /\ others' = others
          \/ others' = others + 1 /\ hits' = hits /\ misses' = misses
      BY <2>2 DEF R!Arrive
    <3> QED
      BY <2>1, <3>1, SMT
  <2>3. CASE R!CreateCustomKpi \/ R!DeleteCustomKpi
    BY <2>1, <2>3 DEF R!CreateCustomKpi, R!DeleteCustomKpi
  <2> QED
    BY <2>2, <2>3
<1>3. \A s \in Sessions : ReportRead(tx[s], hits + misses # 0, reports)
  BY DEF ReportInv
<1>4. \A s \in Sessions : ReportRead(tx[s], hits' + misses' # 0, reports)
  BY <1>2, <1>3, ReadStays
<1> QED
  BY <1>1, <1>2, <1>4 DEF ReportInv

\* A statement of a request that writes no row.
LEMMA ReportReads ==
  ASSUME ReportInv, NEW s \in Sessions, NEW t, tx' = [tx EXCEPT ![s] = t],
         ReportRead(t, hits + misses # 0, reports),
         UNCHANGED <<hits, misses, others, reports, status>>
  PROVE  ReportInv'
<1>1. tx = [q \in Sessions |-> tx[q]]
  BY DEF ReportInv
<1>2. tx' = [q \in Sessions |-> tx'[q]] /\ \A q \in Sessions : tx'[q] = IF q = s THEN t ELSE tx[q]
  BY <1>1
<1>3. \A q \in Sessions : ReportRead(tx[q], hits + misses # 0, reports)
  BY DEF ReportInv
<1>4. \A q \in Sessions : ReportRead(tx'[q], hits + misses # 0, reports)
  BY <1>2, <1>3
<1> QED
  BY <1>2, <1>4 DEF ReportInv

LEMMA ReportBegin ==
  ASSUME ReportInv, NEW s \in Sessions, NEW c \in BOOLEAN, R!Begin(s, c)
  PROVE  ReportInv'
<1>1. PICK t : t = [phase |-> "kpis", completing |-> c]
  OBVIOUS
<1>2. t.phase = "kpis" /\ t.completing = c
  BY <1>1, SMT
<1>3. ReportRead(t, hits + misses # 0, reports)
  BY <1>2 DEF ReportRead
<1> QED
  BY <1>1, <1>3, ReportReads DEF R!Begin

\* The count of the metric: not zero only when there are events of it.
LEMMA ReportKpis ==
  ASSUME ReportInv, NEW s \in Sessions, R!KpisVsTarget(s)
  PROVE  ReportInv'
<1>1. PICK t : t = [phase |-> "custom", completing |-> tx[s].completing, observed |-> R!Observed]
  OBVIOUS
<1>2. t.phase = "custom" /\ t.completing = tx[s].completing /\ t.observed = R!Observed
  BY <1>1
<1>3. R!Observed \in Nat \cup {Absent} /\ (R!Observed # Absent /\ R!Observed > 0 => hits + misses # 0)
  <2>1. hits \in Nat /\ misses \in Nat /\ others \in Nat
    BY DEF ReportInv
  <2>2. hits + misses \in Nat /\ (hits + misses > 0 => hits + misses # 0)
    BY <2>1, SMT
  <2>3. R!Observed = Absent \/ R!Observed = hits + misses
    BY DEF R!Observed
  <2> QED
    BY <2>2, <2>3
<1>4. tx[s].completing \in BOOLEAN
  BY DEF ReportInv, ReportRead, R!KpisVsTarget
<1>5. ReportRead(t, hits + misses # 0, reports)
  BY <1>2, <1>3, <1>4 DEF ReportRead, Seen
<1> QED
  BY <1>1, <1>5, ReportReads DEF R!KpisVsTarget

\* The custom KPI is evaluated when the events counted before it are there.
LEMMA ReportCustom ==
  ASSUME ReportInv, NEW s \in Sessions, R!CustomKpisSection(s)
  PROVE  ReportInv'
<1>1. PICK c : c = IF kpi = "active" THEN {R!EvaluateCustomKpi} ELSE {}
  OBVIOUS
<1>2. PICK t : t = [phase |-> "number", completing |-> tx[s].completing, observed |-> tx[s].observed,
                    custom |-> c]
  OBVIOUS
<1>3. t.phase = "number" /\ t.completing = tx[s].completing /\ t.observed = tx[s].observed /\ t.custom = c
  BY <1>2
<1>4. c \subseteq Nat \cup {Absent} /\ (hits + misses # 0 => Absent \notin c)
  <2>1. hits \in Nat /\ hits # Absent
    <3>1. hits \in Nat /\ hits \in Int
      BY SMT DEF ReportInv
    <3> QED
      BY <3>1, AbsentAssumption
  <2>2. R!EvaluateCustomKpi = IF hits + misses = 0 THEN Absent ELSE hits
    BY DEF R!EvaluateCustomKpi
  <2> QED
    BY <1>1, <2>1, <2>2
<1>5. /\ tx[s].completing \in BOOLEAN /\ tx[s].observed \in Nat \cup {Absent}
      /\ Seen(tx[s]) => hits + misses # 0
  BY DEF ReportInv, ReportRead, R!CustomKpisSection
<1>6. Seen(t) => Seen(tx[s])
  BY <1>3 DEF Seen
<1>7. ReportRead(t, hits + misses # 0, reports)
  BY <1>3, <1>4, <1>5, <1>6 DEF ReportRead
<1>8. tx' = [tx EXCEPT ![s] = t] /\ UNCHANGED <<hits, misses, others, reports, status>>
  BY <1>1, <1>2 DEF R!CustomKpisSection
<1> QED
  BY <1>7, <1>8, ReportReads

\* The version that follows the latest row's, or 1.
LEMMA NextOf ==
  ASSUME ReportInv
  PROVE  \/ R!LatestOf(reports) = {} /\ R!NextVersion({}) = 1
         \/ \E k \in Nat : /\ k > 0 /\ R!LatestOf(reports) = {k} /\ R!NextVersion({k}) = k + 1
                           /\ \E r \in reports : r.version = k
<1>1. PICK n \in Nat : Numbered(reports, n)
  BY DEF ReportInv
<1>2. n = 0 \/ (n > 0 /\ n \in 1..n)
  BY SMT
<1>3. CASE n = 0
  <2>1. \A k \in 1..0 : FALSE
    BY SMT
  <2>2. reports = {}
    BY <1>1, <1>3, <2>1 DEF Numbered
  <2>3. R!LatestOf(reports) = {} /\ {r.version : r \in reports} = {}
    BY <2>2 DEF R!LatestOf
  <2> QED
    BY <2>3 DEF R!NextVersion
<1>4. CASE n > 0 /\ n \in 1..n
  <2>1. PICK r \in reports : r.version = n
    BY <1>1, <1>4 DEF Numbered
  <2>2. R!LatestOf(reports) = {n}
    <3>1. \A q \in reports : q.latest <=> q.version = n
      BY <1>1 DEF Numbered
    <3> QED
      BY <2>1, <3>1 DEF R!LatestOf
  <2>3. n <= n
    BY SMT
  <2>4. (CHOOSE k \in {n} : \A m \in {n} : m <= k) = n
    BY <2>3
  <2>5. R!NextVersion({n}) = 1 + n
    BY <2>4 DEF R!NextVersion
  <2>6. 1 + n = n + 1
    BY SMT
  <2> QED
    BY <1>4, <2>1, <2>2, <2>5, <2>6
<1> QED
  BY <1>2, <1>3, <1>4

LEMMA ReportReadLatest ==
  ASSUME ReportInv, NEW s \in Sessions, R!ReadLatest(s)
  PROVE  ReportInv'
<1>1. PICK p : p = R!LatestOf(reports)
  OBVIOUS
<1>2. PICK v : v = R!NextVersion(p)
  OBVIOUS
<1>3. PICK t : t = [phase |-> "demote", completing |-> tx[s].completing, observed |-> tx[s].observed,
                    custom |-> tx[s].custom, version |-> v, prior |-> p]
  OBVIOUS
<1>4. /\ t.phase = "demote" /\ t.completing = tx[s].completing /\ t.observed = tx[s].observed
      /\ t.custom = tx[s].custom /\ t.version = v /\ t.prior = p
  BY <1>3
<1>5. /\ tx[s].completing \in BOOLEAN
      /\ tx[s].observed \in Nat \cup {Absent} /\ (Seen(tx[s]) => hits + misses # 0)
      /\ tx[s].custom \subseteq Nat \cup {Absent} /\ (Seen(tx[s]) => Absent \notin tx[s].custom)
  BY DEF ReportInv, ReportRead, R!ReadLatest
<1>6. \/ p = {} /\ v = 1
      \/ \E k \in Nat : k > 0 /\ p = {k} /\ v = k + 1 /\ \E r \in reports : r.version = k
  BY <1>1, <1>2, NextOf
<1>7. Seen(t) => Seen(tx[s])
  BY <1>4 DEF Seen
<1>8. ReportRead(t, hits + misses # 0, reports)
  <2>1. t = [phase |-> "demote", completing |-> t.completing, observed |-> t.observed,
             custom |-> t.custom, version |-> t.version, prior |-> t.prior]
    BY <1>3, <1>4
  <2> QED
    BY <2>1, <1>4, <1>5, <1>6, <1>7 DEF ReportRead
<1>9. tx' = [tx EXCEPT ![s] = t] /\ UNCHANGED <<hits, misses, others, reports, status>>
  BY <1>1, <1>2, <1>3 DEF R!ReadLatest
<1> QED
  BY <1>8, <1>9, ReportReads

LEMMA ReportDemote ==
  ASSUME ReportInv, NEW s \in Sessions, R!Demote(s)
  PROVE  ReportInv'
<1>1. PICK o : o = tx[s]
  OBVIOUS
<1>2. PICK t : t = [o EXCEPT !.phase = "insert"]
  OBVIOUS
<1>3. ReportRead(o, hits + misses # 0, reports) /\ o.phase = "demote"
  BY <1>1 DEF ReportInv, R!Demote
<1>4. t = [phase |-> "insert", completing |-> o.completing, observed |-> o.observed,
           custom |-> o.custom, version |-> o.version, prior |-> o.prior]
  <2>1. o = [phase |-> "demote", completing |-> o.completing, observed |-> o.observed,
             custom |-> o.custom, version |-> o.version, prior |-> o.prior]
    BY <1>3 DEF ReportRead
  <2>2. \A a, b, c, d, e :
          [[phase |-> "demote", completing |-> a, observed |-> b, custom |-> c, version |-> d, prior |-> e]
             EXCEPT !.phase = "insert"]
            = [phase |-> "insert", completing |-> a, observed |-> b, custom |-> c, version |-> d, prior |-> e]
    BY SMT
  <2> QED
    BY <1>2, <2>1, <2>2
<1>5. /\ t.phase = "insert" /\ t.completing = o.completing /\ t.observed = o.observed
      /\ t.custom = o.custom /\ t.version = o.version /\ t.prior = o.prior
  BY <1>4
<1>6. ReportRead(t, hits + misses # 0, reports)
  BY <1>3, <1>4, <1>5 DEF ReportRead, Seen
<1>7. tx' = [tx EXCEPT ![s] = t] /\ UNCHANGED <<hits, misses, others, reports, status>>
  BY <1>1, <1>2 DEF R!Demote
<1> QED
  BY <1>6, <1>7, ReportReads

\* What is refused leaves the table as it was; what is not is one more row.
LEMMA ReportInsert ==
  ASSUME ReportInv, NEW s \in Sessions, R!InsertReport(s)
  PROVE  ReportInv'
<1>1. PICK t : t = tx[s]
  OBVIOUS
<1>2. PICK kept : kept = {r \in reports : r.version \notin t.prior}
  OBVIOUS
<1>3. PICK new : new = [version |-> t.version, latest |-> TRUE, final |-> t.completing,
                        observed |-> t.observed, custom |-> t.custom]
  OBVIOUS
<1>4. /\ reports' = IF ~R!Fits(t.version, kept) THEN reports
                    ELSE kept \cup {[r EXCEPT !.latest = FALSE] : r \in reports \ kept} \cup {new}
      /\ status' = IF t.completing /\ R!Fits(t.version, kept) THEN "completed" ELSE status
      /\ tx' = [tx EXCEPT ![s] = R!Idle]
      /\ UNCHANGED <<hits, misses, others>>
  BY <1>1, <1>2, <1>3 DEF R!InsertReport, R!Completes
<1>5. ReportRead(t, hits + misses # 0, reports) /\ t.phase = "insert"
  BY <1>1 DEF ReportInv, R!InsertReport
<1>6. CASE ~R!Fits(t.version, kept)
  BY <1>4, <1>6, IdleHasRead, ReportReads
<1>7. CASE R!Fits(t.version, kept)
  <2>0. PICK n \in Nat : Numbered(reports, n)
    BY DEF ReportInv
  <2>1. kept = {r \in reports : r.version # n} /\ t.version = n + 1
    <3>1. CASE t.prior = {} /\ t.version = 1
      <4>1. n = 0
        <5>1. ~\E r \in reports : r.version = 1
          BY <1>7, <3>1 DEF R!Fits
        <5>2. 1 \notin 1..n
          BY <2>0, <5>1 DEF Numbered
        <5> QED
          BY <5>2, SMT
      <4>2. reports = {}
        <5>1. \A k \in 1..0 : FALSE
          BY SMT
        <5> QED
          BY <2>0, <4>1, <5>1 DEF Numbered
      <4>3. n + 1 = 1
        BY <4>1, SMT
      <4> QED
        BY <1>2, <3>1, <4>2, <4>3
    <3>2. CASE \E k \in Nat : /\ k > 0 /\ t.prior = {k} /\ t.version = k + 1
                              /\ \E r \in reports : r.version = k
      <4>1. PICK k \in Nat : t.prior = {k} /\ t.version = k + 1 /\ \E r \in reports : r.version = k
        BY <3>2
      <4>2. n \in 1..n
        <5>1. k \in 1..n
          BY <2>0, <4>1 DEF Numbered
        <5> QED
          BY <5>1, SMT
      <4>3. PICK r \in reports : r.version = n /\ r.latest
        BY <2>0, <4>2 DEF Numbered
      <4>4. r \notin kept
        BY <1>7, <4>3 DEF R!Fits
      <4>5. n = k
        BY <1>2, <4>1, <4>3, <4>4
      <4> QED
        BY <1>2, <4>1, <4>5
    <3> QED
      BY <1>5, <3>1, <3>2 DEF ReportRead
  <2>2. /\ t.completing \in BOOLEAN /\ t.observed \in Nat \cup {Absent}
        /\ t.custom \subseteq Nat \cup {Absent} /\ (Seen(t) => Absent \notin t.custom)
    BY <1>5 DEF ReportRead
  <2>3. /\ new \in ReportRow /\ new.version = n + 1 /\ new.latest = TRUE /\ new.final = t.completing
        /\ new.observed = t.observed /\ new.custom = t.custom
    <3>1. n + 1 \in Nat
      BY SMT
    <3>2. new \in ReportRow
      BY <1>3, <2>1, <2>2, <3>1 DEF ReportRow
    <3> QED
      BY <1>3, <2>1, <3>2
  <2>4. PICK demoted : demoted = {[r EXCEPT !.latest = FALSE] : r \in reports \ kept}
    OBVIOUS
  <2>5. reports' = kept \cup demoted \cup {new}
    BY <1>4, <1>7, <2>4
  <2>6. kept \subseteq reports /\ reports \subseteq ReportRow
    BY <1>2 DEF ReportInv
  <2>7. \A q \in demoted : \E r \in reports : /\ q \in ReportRow /\ q.version = r.version /\ q.final = r.final
                                              /\ q.observed = r.observed /\ q.custom = r.custom
    <3> SUFFICES ASSUME NEW q \in demoted
                 PROVE  \E r \in reports : /\ q \in ReportRow /\ q.version = r.version /\ q.final = r.final
                                           /\ q.observed = r.observed /\ q.custom = r.custom
      OBVIOUS
    <3>1. PICK r \in reports : q = [r EXCEPT !.latest = FALSE]
      BY <2>4
    <3>2. r \in ReportRow
      BY <2>6
    <3> QED
      BY <3>1, <3>2, RowDemoted
  <2>8. \A r \in reports : \E q \in reports' : q.version = r.version /\ q.final = r.final
    <3> SUFFICES ASSUME NEW r \in reports PROVE \E q \in reports' : q.version = r.version /\ q.final = r.final
      OBVIOUS
    <3>1. CASE r \in kept
      BY <2>5, <3>1
    <3>2. CASE r \notin kept
      <4>1. [r EXCEPT !.latest = FALSE] \in demoted
        BY <2>4, <3>2
      <4>2. [r EXCEPT !.latest = FALSE].version = r.version /\ [r EXCEPT !.latest = FALSE].final = r.final
        BY <2>6, RowDemoted
      <4> QED
        BY <2>5, <4>1, <4>2
    <3> QED
      BY <3>1, <3>2
  <2>9. reports' \subseteq ReportRow
    BY <2>3, <2>5, <2>6, <2>7
  <2>10. \E k \in Nat : Numbered(reports', k)
    <3>1. Numbered(reports', n + 1)
      BY <2>0, <2>1, <2>3, <2>4, <2>5, <2>6, OneMoreRow
    <3>2. n + 1 \in Nat
      BY SMT
    <3> QED
      BY <3>1, <3>2
  <2>11. \A r \in reports' : Seen(r) => Absent \notin r.custom
    <3>1. \A r \in reports : Seen(r) => Absent \notin r.custom
      BY DEF ReportInv
    <3>2. \A q \in demoted : Seen(q) => Absent \notin q.custom
      BY <2>7, <3>1 DEF Seen
    <3>3. Seen(new) => Absent \notin new.custom
      BY <2>2, <2>3 DEF Seen
    <3> QED
      BY <2>5, <2>6, <3>1, <3>2, <3>3
  <2>12. status' = "completed" => \E r \in reports' : r.final
    <3>1. CASE t.completing
      BY <2>3, <2>5, <3>1
    <3>2. CASE ~t.completing
      BY <1>4, <3>2, <2>8 DEF ReportInv
    <3> QED
      BY <3>1, <3>2
  <2>13. tx = [q \in Sessions |-> tx[q]] /\ \A q \in Sessions : ReportRead(tx[q], hits + misses # 0, reports)
    BY DEF ReportInv
  <2>14. tx' = [q \in Sessions |-> tx'[q]] /\ \A q \in Sessions : tx'[q] = R!Idle \/ tx'[q] = tx[q]
    BY <1>4, <2>13
  <2>15. \A q \in Sessions : ReportRead(tx'[q], hits + misses # 0, reports')
    BY <2>8, <2>13, <2>14, IdleHasRead, ReadStays
  <2> QED
    BY <1>4, <2>9, <2>10, <2>11, <2>12, <2>14, <2>15 DEF ReportInv
<1> QED
  BY <1>6, <1>7

LEMMA ReportStep ==
  ASSUME ReportInv, [R!Next]_(R!vars)
  PROVE  ReportInv'
<1>0. CASE UNCHANGED R!vars
  BY <1>0 DEF R!vars, ReportInv
<1>1. CASE R!Next
  BY <1>1, ReportArrive, ReportBegin, ReportKpis, ReportCustom, ReportReadLatest, ReportDemote,
     ReportInsert DEF R!Next
<1> QED
  BY <1>0, <1>1

\* Rows numbered 1..n are n rows.
LEMMA RowCount ==
  ASSUME NEW rows, NEW n \in Nat, Numbered(rows, n)
  PROVE  Cardinality(rows) = n
<1>1. PICK f : f = [k \in 1..n |-> CHOOSE r \in rows : r.version = k]
  OBVIOUS
<1>2. \A k \in 1..n : f[k] \in rows /\ f[k].version = k
  BY <1>1 DEF Numbered
<1>3. f \in Injection(1..n, rows)
  <2>1. f \in [1..n -> rows]
    BY <1>1, <1>2
  <2>2. \A a, b \in 1..n : f[a] = f[b] => a = b
    BY <1>2
  <2>3. DOMAIN f = 1..n
    BY <1>1
  <2> QED
    BY <2>1, <2>2, <2>3 DEF Injection, IsInjective
<1>4. f \in Surjection(1..n, rows)
  <2>1. f \in [1..n -> rows]
    BY <1>1, <1>2
  <2>2. ASSUME NEW r \in rows PROVE \E k \in 1..n : f[k] = r
    <3>1. r.version \in 1..n
      BY DEF Numbered
    <3>2. f[r.version] \in rows /\ f[r.version].version = r.version
      BY <1>2, <3>1
    <3>3. f[r.version] = r
      BY <3>2 DEF Numbered
    <3> QED
      BY <3>1, <3>3
  <2> QED
    BY <2>1, <2>2 DEF Surjection
<1>5. ExistsBijection(1..n, rows)
  BY <1>3, <1>4 DEF ExistsBijection, Bijection
<1> QED
  BY <1>5, FS_CountingElements

LEMMA ReportSafe == ReportInv => R!LatestIsNewest /\ R!CompletedHasFinal /\ R!MissingIsMissing
<1> SUFFICES ASSUME ReportInv PROVE R!LatestIsNewest /\ R!CompletedHasFinal /\ R!MissingIsMissing
  OBVIOUS
<1>1. PICK n \in Nat : Numbered(reports, n)
  BY DEF ReportInv
<1>2. R!Cardinality(reports) = n
  <2>1. R!Cardinality(reports) = Cardinality(reports)
    BY DEF R!Cardinality, Cardinality
  <2> QED
    BY <1>1, <2>1, RowCount
<1>3. {r.version : r \in reports} = 1..n
  <2>1. \A r \in reports : r.version \in 1..n
    BY <1>1 DEF Numbered
  <2>2. \A k \in 1..n : k \in {r.version : r \in reports}
    BY <1>1 DEF Numbered
  <2> QED
    BY <2>1, <2>2
<1>4. \A r \in reports : r.latest <=> r.version = n
  BY <1>1 DEF Numbered
<1> QED
  <2>1. R!LatestIsNewest
    BY <1>2, <1>3, <1>4 DEF R!LatestIsNewest
  <2>2. R!CompletedHasFinal
    BY DEF ReportInv, R!CompletedHasFinal
  <2>3. R!MissingIsMissing
    BY DEF ReportInv, Seen, R!MissingIsMissing
  <2> QED
    BY <2>1, <2>2, <2>3
(***************************************************************************)
(* Brand voices.  The index alone gives at most one active voice.  That    *)
(* switching leaves none without a voice needs what a transaction carries: *)
(* one that creates an inactive voice switches nothing off, and one that   *)
(* switches others off switches its own voice on in the same commit.       *)
(***************************************************************************)
\* The components count as this module does.
LEMMA SameCardinality == \A S : V!Cardinality(S) = Cardinality(S)
  BY DEF V!Cardinality, Cardinality

\* A transaction of create_brand_voice or activate_brand_voice.
VoiceTransactions ==
  [op : {"create", "activate"}, voice : Voices, on : BOOLEAN,
   stage : {"loaded", "waiting", "locked"}, off : SUBSET Voices]

\* The types of the variables.
VoiceTypes ==
  /\ active \subseteq Voices
  /\ tx \in [Sessions -> VoiceTransactions \cup {V!Idle}]

\* Only a transaction that switches its own voice on switches others off.
OffNeedsOn ==
  \A s \in Sessions : tx[s] # V!Idle /\ ~tx[s].on => tx[s].stage = "locked" /\ tx[s].off = {}

\* What idx_brand_voice_active admits.
AtMostOne == IsFiniteSet(active) /\ Cardinality(active) <= 1

\* The inductive invariant.
VoiceInv == VoiceTypes /\ OffNeedsOn /\ AtMostOne

\* There are no voices at first.
LEMMA VoiceInit == V!Init => VoiceInv
<1>1. IsFiniteSet({}) /\ Cardinality({}) <= 1
  BY FS_EmptySet, SMT
<1> QED
  BY <1>1 DEF V!Init, VoiceInv, VoiceTypes, OffNeedsOn, AtMostOne

\* A finite set with a member and room for one has exactly one.
LEMMA ExactlyOne ==
  ASSUME NEW S, IsFiniteSet(S), Cardinality(S) <= 1, S # {}
  PROVE  Cardinality(S) = 1
<1>1. Cardinality(S) \in Nat /\ Cardinality(S) # 0
  BY FS_EmptySet, FS_CardinalityType
<1> QED
  BY <1>1, SMT

\* The commit: what the index admits, and a voice if there was one before.
LEMMA VoiceCommit ==
  ASSUME VoiceInv, NEW s \in Sessions, V!Commit(s)
  PROVE  AtMostOne' /\ active' \subseteq Voices /\ (active # {} => active' # {})
<1> DEFINE own == IF tx[s].on THEN {tx[s].voice} ELSE {}
<1>1. tx[s] \in VoiceTransactions
  BY DEF VoiceInv, VoiceTypes, V!Commit
<1>2. active' = (active \ tx[s].off) \cup own /\ Cardinality(active') <= 1
  BY SameCardinality DEF V!Commit, V!IndexAdmits
<1>3. IsFiniteSet(active')
  <2>1. IsFiniteSet(active \cup {tx[s].voice})
    BY FS_AddElement DEF VoiceInv, AtMostOne
  <2>2. active' \subseteq active \cup {tx[s].voice}
    BY <1>2
  <2> QED
    BY <2>1, <2>2, FS_Subset
<1>4. active' \subseteq Voices
  BY <1>1, <1>2 DEF VoiceInv, VoiceTypes, VoiceTransactions
<1>5. active # {} => active' # {}
  <2>1. CASE tx[s].on
    BY <1>2, <2>1
  <2>2. CASE ~tx[s].on
    <3>1. tx[s].off = {}
      BY <2>2 DEF VoiceInv, OffNeedsOn, V!Commit
    <3> QED
      BY <1>2, <3>1
  <2> QED
    BY <2>1, <2>2
<1> QED
  BY <1>2, <1>3, <1>4, <1>5 DEF AtMostOne

\* Only a commit changes which voices are active.
LEMMA VoiceKept ==
  ASSUME NEW s \in Sessions,
         \/ \E v \in Voices : (\E on \in BOOLEAN : V!CreateBrandVoice(s, v, on))
                              \/ V!ActivateBrandVoice(s, v)
         \/ V!Deactivate(s) \/ V!Lock(s) \/ V!Rollback(s)
  PROVE  active' = active
  BY DEF V!CreateBrandVoice, V!ActivateBrandVoice, V!Begin, V!Deactivate, V!Lock, V!SwitchOff, V!Rollback

\* What each statement of a request leaves in its transaction.
LEMMA VoiceTransaction ==
  ASSUME VoiceInv, NEW s \in Sessions, NEW t \in VoiceTransactions \cup {V!Idle},
         tx' = [tx EXCEPT ![s] = t],
         t # V!Idle /\ ~t.on => t.stage = "locked" /\ t.off = {}
  PROVE  tx' \in [Sessions -> VoiceTransactions \cup {V!Idle}] /\ OffNeedsOn'
  BY DEF VoiceInv, VoiceTypes, OffNeedsOn

\* Every step of a request preserves the types and what transactions carry.
LEMMA VoiceRequest ==
  ASSUME VoiceInv, [V!Next]_(V!vars)
  PROVE  tx' \in [Sessions -> VoiceTransactions \cup {V!Idle}] /\ OffNeedsOn'
<1>0. CASE UNCHANGED V!vars
  BY <1>0 DEF V!vars, VoiceInv, VoiceTypes, OffNeedsOn
<1>1. ASSUME NEW s \in Sessions, NEW v \in Voices, NEW on \in BOOLEAN,
             V!CreateBrandVoice(s, v, on)
      PROVE  tx' \in [Sessions -> VoiceTransactions \cup {V!Idle}] /\ OffNeedsOn'
  <2> DEFINE t == [op |-> "create", voice |-> v, on |-> on,
                   stage |-> IF on THEN "loaded" ELSE "locked", off |-> {}]
  <2>1. t \in VoiceTransactions /\ (~t.on => t.stage = "locked" /\ t.off = {})
    BY DEF VoiceTransactions
  <2>2. tx' = [tx EXCEPT ![s] = t]
    BY <1>1 DEF V!CreateBrandVoice, V!Begin
  <2> HIDE DEF t
  <2> QED
    BY <2>1, <2>2, VoiceTransaction
<1>2. ASSUME NEW s \in Sessions, NEW v \in Voices, V!ActivateBrandVoice(s, v)
      PROVE  tx' \in [Sessions -> VoiceTransactions \cup {V!Idle}] /\ OffNeedsOn'
  <2> DEFINE t == [op |-> "activate", voice |-> v, on |-> TRUE, stage |-> "loaded", off |-> {}]
  <2>1. t \in VoiceTransactions /\ t.on
    BY DEF VoiceTransactions
  <2>2. tx' = [tx EXCEPT ![s] = t]
    BY <1>2 DEF V!ActivateBrandVoice, V!Begin
  <2> HIDE DEF t
  <2> QED
    BY <2>1, <2>2, VoiceTransaction
<1>3. ASSUME NEW s \in Sessions, V!Deactivate(s) \/ V!Lock(s)
      PROVE  tx' \in [Sessions -> VoiceTransactions \cup {V!Idle}] /\ OffNeedsOn'
  <2>1. tx[s] \in VoiceTransactions /\ tx[s].on
    BY <1>3 DEF VoiceInv, VoiceTypes, OffNeedsOn, V!Deactivate, V!Lock
  <2>2. ASSUME NEW stage \in {"waiting", "locked"}, NEW off \in SUBSET Voices,
               tx' = [tx EXCEPT ![s].stage = stage, ![s].off = off]
        PROVE  tx' \in [Sessions -> VoiceTransactions \cup {V!Idle}] /\ OffNeedsOn'
    <3> DEFINE t == [tx[s] EXCEPT !.stage = stage, !.off = off]
    <3>1. t \in VoiceTransactions /\ t.on
      BY <2>1 DEF VoiceTransactions
    <3>2. tx' = [tx EXCEPT ![s] = t]
      BY <2>2 DEF VoiceInv, VoiceTypes
    <3> HIDE DEF t
    <3> QED
      BY <3>1, <3>2, VoiceTransaction
  <2>3. CASE V!Deactivate(s)
    <3>1. active \ {tx[s].voice} \in SUBSET Voices
      BY DEF VoiceInv, VoiceTypes
    <3> QED
      BY <2>2, <2>3, <3>1 DEF V!Deactivate
  <2>4. CASE V!Lock(s)
    <3>1. tx[s].off \cap active \in SUBSET Voices
      BY DEF VoiceInv, VoiceTypes
    <3>2. tx' = [tx EXCEPT ![s].stage = "locked", ![s].off = tx[s].off \cap active]
      BY <2>4 DEF V!Lock, VoiceInv, VoiceTypes
    <3> QED
      BY <2>2, <3>1, <3>2
  <2> QED
    BY <1>3, <2>3, <2>4
<1>4. ASSUME NEW s \in Sessions, V!Commit(s) \/ V!Rollback(s)
      PROVE  tx' \in [Sessions -> VoiceTransactions \cup {V!Idle}] /\ OffNeedsOn'
  <2>1. tx' = [tx EXCEPT ![s] = V!Idle]
    BY <1>4 DEF V!Commit, V!Rollback
  <2> QED
    BY <2>1, VoiceTransaction
<1> QED
  BY <1>0, <1>1, <1>2, <1>3, <1>4 DEF V!Next

\* Every step preserves the inductive invariant, and a voice if there is one.
LEMMA VoiceStep ==
  ASSUME VoiceInv, [V!Next]_(V!vars)
  PROVE  VoiceInv' /\ (active # {} => Cardinality(active') = 1)
<1>1. AtMostOne' /\ active' \subseteq Voices /\ (active # {} => active' # {})
  <2>1. CASE active' = active
    BY <2>1 DEF VoiceInv, VoiceTypes, AtMostOne
  <2>2. CASE active' # active
    <3> PICK s \in Sessions : V!Commit(s)
      BY <2>2, VoiceKept DEF V!Next, V!vars
    <3> QED
      BY VoiceCommit
  <2> QED
    BY <2>1, <2>2
<1>2. tx' \in [Sessions -> VoiceTransactions \cup {V!Idle}] /\ OffNeedsOn'
  BY VoiceRequest
<1>3. active # {} => Cardinality(active') = 1
  BY <1>1, ExactlyOne DEF AtMostOne
<1> QED
  BY <1>1, <1>2, <1>3 DEF VoiceInv, VoiceTypes

-----------------------------------------------------------------------------
(***************************************************************************)
(* Drafts.  The tool's best text is no longer than any answer it got, or   *)
(* it got none; the agent's attempts stay within their budget; and of what *)
(* is stored both verdicts hold.                                           *)
(***************************************************************************)
BestSoFar(b, got) ==
  /\ b \in D!Texts \cup {D!NoText} /\ got \subseteq 0..MaxOverrun
  /\ b = D!NoText => got = {}
  /\ \A o \in got : b.over <= o

DraftInv ==
  /\ attempt \in 0..SimRegenMaxRetries
  /\ BestSoFar(best, overruns)
  /\ D!VerdictOfStoredText
  /\ D!AttemptsSpent

\* A call of the tool starts without an answer.
LEMMA NothingYet == BestSoFar(D!NoText, {})
  BY DEF BestSoFar

LEMMA DraftInit == D!Init => DraftInv
<1> SUFFICES ASSUME D!Init PROVE DraftInv
  OBVIOUS
<1>1. attempt \in 0..SimRegenMaxRetries
  BY DraftingAssumption, SMT DEF D!Init
<1>2. BestSoFar(best, overruns)
  BY NothingYet DEF D!Init
<1>3. stored.text = D!NoText
  BY DEF D!Init
<1> QED
  BY <1>1, <1>2, <1>3 DEF DraftInv, D!VerdictOfStoredText, D!AttemptsSpent, D!Drafted

\* One more answer of the model (Better, of CopywritingTool.call).
LEMMA OneMoreAnswer ==
  ASSUME BestSoFar(best, overruns), NEW text \in D!Texts
  PROVE  BestSoFar(IF text.over = 0 THEN text ELSE D!Better(text), overruns \cup {text.over})
<1>1. text.over \in 0..MaxOverrun
  BY DEF D!Texts
<1>2. overruns \cup {text.over} \subseteq 0..MaxOverrun
  BY <1>1 DEF BestSoFar
<1>3. CASE text.over = 0
  <2>1. \A o \in overruns \cup {text.over} : text.over <= o
    BY <1>2, <1>3, DraftingAssumption, SMT
  <2>2. text # D!NoText
    BY <1>3, SMT DEF D!NoText
  <2> QED
    BY <1>2, <1>3, <2>1, <2>2 DEF BestSoFar
<1>4. CASE text.over # 0 /\ (best = D!NoText \/ text.over < best.over)
  <2>1. D!Better(text) = text
    BY <1>4 DEF D!Better
  <2>2. \A o \in overruns \cup {text.over} : text.over <= o
    <3>1. CASE best = D!NoText
      BY <1>1, <3>1, DraftingAssumption, SMT DEF BestSoFar
    <3>2. CASE best # D!NoText
      <4>1. best.over \in 0..MaxOverrun /\ text.over < best.over /\ \A o \in overruns : best.over <= o
        BY <1>4, <3>2 DEF BestSoFar, D!Texts
      <4> QED
        BY <1>1, <1>2, <4>1, DraftingAssumption, SMT
    <3> QED
      BY <3>1, <3>2
  <2>3. text # D!NoText
    BY <1>1, DraftingAssumption, SMT DEF D!NoText
  <2> QED
    BY <1>2, <1>4, <2>1, <2>2, <2>3 DEF BestSoFar
<1>5. CASE text.over # 0 /\ ~(best = D!NoText \/ text.over < best.over)
  <2>1. D!Better(text) = best
    BY <1>5 DEF D!Better
  <2>2. best.over \in 0..MaxOverrun
    BY <1>5 DEF BestSoFar, D!Texts
  <2>3. best.over <= text.over
    BY <1>1, <1>5, <2>2, DraftingAssumption, SMT
  <2> QED
    BY <1>2, <1>5, <2>1, <2>3 DEF BestSoFar
<1> QED
  BY <1>3, <1>4, <1>5

\* The draft that ends an attempt is stored with the verdicts on it.
LEMMA StoredIsJudged ==
  ASSUME DraftInv, stored' = D!Stored, ~(attempt < SimRegenMaxRetries /\ D!NeedsRewrite(best))
  PROVE  D!VerdictOfStoredText' /\ D!AttemptsSpent'
<1>1. /\ stored'.text = best /\ stored'.rules = used /\ stored'.attempt = attempt
      /\ stored'.blocked = D!Blocked(best)
  BY SMT DEF D!Stored
<1>2. D!VerdictOfStoredText'
  BY <1>1 DEF D!VerdictOfStoredText, D!Blocked, D!Hits
<1>3. D!NeedsRewrite(best) => attempt = SimRegenMaxRetries
  BY DraftingAssumption, SMT DEF DraftInv
<1>4. D!AttemptsSpent'
  BY <1>1, <1>3 DEF D!AttemptsSpent, D!NeedsRewrite, D!Hits
<1> QED
  BY <1>2, <1>4

LEMMA DraftStep ==
  ASSUME DraftInv, [D!Next]_(D!vars)
  PROVE  DraftInv'
<1>1. CASE UNCHANGED <<attempt, best, overruns, stored>>
  BY <1>1 DEF DraftInv, D!VerdictOfStoredText, D!AttemptsSpent, D!Drafted
<1>2. CASE D!GenerateAsset
  <2>1. attempt' = 0 /\ best' = D!NoText /\ overruns' = {} /\ stored' = stored
    BY <1>2 DEF D!GenerateAsset
  <2>2. attempt' \in 0..SimRegenMaxRetries
    BY <2>1, DraftingAssumption, SMT
  <2> QED
    BY <2>1, <2>2, NothingYet DEF DraftInv, D!VerdictOfStoredText, D!AttemptsSpent, D!Drafted
<1>3. ASSUME NEW text \in D!Texts, D!CallModel(text)
      PROVE  DraftInv'
  <2>1. /\ best' = (IF text.over = 0 THEN text ELSE D!Better(text))
        /\ overruns' = overruns \cup {text.over} /\ attempt' = attempt /\ stored' = stored
    BY <1>3 DEF D!CallModel
  <2>2. BestSoFar(best', overruns')
    BY <2>1, OneMoreAnswer DEF DraftInv
  <2> QED
    BY <2>1, <2>2 DEF DraftInv, D!VerdictOfStoredText, D!AttemptsSpent, D!Drafted
<1>4. CASE D!CheckDraft
  <2>1. CASE attempt < SimRegenMaxRetries /\ D!NeedsRewrite(best)
    <3>1. attempt' = attempt + 1 /\ best' = D!NoText /\ overruns' = {} /\ stored' = stored
      BY <1>4, <2>1 DEF D!CheckDraft
    <3>2. attempt' \in 0..SimRegenMaxRetries
      BY <2>1, <3>1, DraftingAssumption, SMT DEF DraftInv
    <3> QED
      BY <3>1, <3>2, NothingYet DEF DraftInv, D!VerdictOfStoredText, D!AttemptsSpent, D!Drafted
  <2>2. CASE ~(attempt < SimRegenMaxRetries /\ D!NeedsRewrite(best))
    <3>1. stored' = D!Stored /\ UNCHANGED <<attempt, best, overruns>>
      BY <1>4, <2>2 DEF D!CheckDraft
    <3>2. D!VerdictOfStoredText' /\ D!AttemptsSpent'
      BY <2>2, <3>1, StoredIsJudged
    <3> QED
      BY <3>1, <3>2 DEF DraftInv
  <2> QED
    BY <2>1, <2>2
<1>5. CASE D!RaiseError \/ UNCHANGED D!vars
           \/ \E t \in Terms : (\E severity \in {"warn", "block"} : D!CreateComplianceRule(t, severity))
                               \/ D!DeleteComplianceRule(t)
  BY <1>1, <1>5 DEF D!RaiseError, D!vars, D!CreateComplianceRule, D!DeleteComplianceRule
<1> QED
  BY <1>2, <1>3, <1>4, <1>5 DEF D!Next

LEMMA DraftSafe == DraftInv => D!LeastOverrun /\ D!VerdictOfStoredText /\ D!AttemptsSpent
  BY DEF DraftInv, BestSoFar, D!LeastOverrun
-----------------------------------------------------------------------------
(***************************************************************************)
(* Spend gates.  Until a request commits while another is open, what an    *)
(* open request has read is still so: its commit writes what it checked.   *)
(***************************************************************************)
Snaps == SettingBodies \cup {T!Defaults}

\* A request t read the settings, budget and assets as they are in set, bud and rows.
Fresh(t, set, bud, rows) ==
  /\ t.op = "put" => t.row = set /\ t.body \in SettingBodies
  /\ t.op = "patch" => t.row = bud /\ t.body \in CampaignBudgets
  /\ t.op = "submit" => /\ t.rows = [a \in {b \in Gated : rows[b].status = "drafted"} |-> rows[a]]
                        /\ t.snap \in Snaps
  /\ t.op = "approve" => t.rows \subseteq Gated
  /\ t.op = "approve" /\ t.via \in {"api", "batch"} =>
       \A a \in t.rows : T!RequiresAdmin(rows[a].snap, bud) => t.role = "admin"
  /\ t.op = "approve" /\ t.via = "batch" =>
       \A a \in t.rows : ~rows[a].blocked /\ ~T!ExceedsCap(rows[a].snap, bud)

\* A logged approval was within the gates.
WithinGates(d) ==
  /\ d.via \in {"api", "batch"} /\ T!Above(d) => d.role = "admin"
  /\ d.via = "batch" => /\ ~d.row.blocked
                        /\ d.row.snap.currency = d.budget.currency => d.budget.total <= d.row.snap.cap

GatedRow ==
  [status : {"drafted", "pending_approval", "approved", "rejected"}, blocked : BOOLEAN, snap : Snaps]

GatedRows == [Gated -> GatedRow]

GateSerial ==
  /\ settings = asked /\ settings \in SettingBodies \cup {T!NoRow}
  /\ budget \in CampaignBudgets
  /\ asset \in GatedRows
  /\ tx = [s \in Sessions |-> tx[s]]
  /\ \A s \in Sessions : Fresh(tx[s], settings, budget, asset)
  /\ \A d \in log : WithinGates(d)

GateInv == raced \/ GateSerial

LEMMA IdleIsFresh == \A set, bud, rows : Fresh(T!Idle, set, bud, rows)
<1>1. T!Idle.op = "none"
  BY SMT DEF T!Idle
<1> QED
  BY <1>1 DEF Fresh

LEMMA GateInit == T!Init => GateInv
<1> SUFFICES ASSUME T!Init PROVE GateSerial
  BY DEF GateInv
<1>1. asset \in GatedRows
  <2>1. T!Unsubmitted \in Snaps
    BY DEF T!Unsubmitted, Snaps
  <2>2. asset \in [Gated -> [status : {"drafted"}, blocked : BOOLEAN, snap : {T!Unsubmitted}]]
    BY DEF T!Init
  <2>3. [status : {"drafted"}, blocked : BOOLEAN, snap : {T!Unsubmitted}] \subseteq GatedRow
    BY <2>1 DEF GatedRow
  <2> QED
    BY <2>2, <2>3 DEF GatedRows
<1>2. \A s \in Sessions : tx[s] = T!Idle
  BY DEF T!Init
<1>3. \A s \in Sessions : Fresh(tx[s], settings, budget, asset)
  BY <1>2, IdleIsFresh
<1> QED
  BY <1>1, <1>3 DEF T!Init, GateSerial

\* The UPDATE of an object that nobody else has changed writes the whole body.
LEMMA WrittenIsBody ==
  ASSUME NEW old
  PROVE  /\ \A body \in SettingBodies : T!Written(body, old, old) = body
         /\ \A body \in CampaignBudgets : T!Written(body, old, old) = body
<1>1. ASSUME NEW body \in [above : Int \cup {NoAmount}, cap : Int, currency : STRING]
      PROVE  T!Written(body, old, old) = body
  BY SMT DEF T!Written
<1>2. ASSUME NEW body \in [total : Int, currency : STRING]
      PROVE  T!Written(body, old, old) = body
  BY SMT DEF T!Written
<1> QED
  BY <1>1, <1>2, GatesAssumption

-----------------------------------------------------------------------------
\* A request reads and checks.
LEMMA GateBegin ==
  ASSUME GateSerial, NEW s \in Sessions, NEW t, T!Begin(s, t), Fresh(t, settings, budget, asset)
  PROVE  GateSerial'
<1>1. /\ tx' = [tx EXCEPT ![s] = t]
      /\ UNCHANGED <<settings, budget, asset, asked, log>>
  BY DEF T!Begin
<1>2. tx = [q \in Sessions |-> tx[q]]
  BY DEF GateSerial
<1>3. tx' = [q \in Sessions |-> tx'[q]] /\ \A q \in Sessions : tx'[q] = IF q = s THEN t ELSE tx[q]
  BY <1>1, <1>2
<1>4. \A q \in Sessions : Fresh(tx'[q], settings, budget, asset)
  BY <1>3 DEF GateSerial
<1> QED
  BY <1>1, <1>3, <1>4 DEF GateSerial

LEMMA GateLoads ==
  ASSUME GateSerial, NEW s \in Sessions,
         \/ \E body \in SettingBodies : T!LoadPut(s, body)
         \/ \E b \in CampaignBudgets : T!LoadPatch(s, b)
         \/ T!LoadSubmit(s)
         \/ \E role \in {"manager", "admin"} :
              \/ \E a \in Gated, via \in {"api", "page", "assistant"} : T!LoadApprove(s, via, a, role)
              \/ \E S \in SUBSET Gated \ {{}}, dry \in BOOLEAN : T!LoadBatch(s, S, role, dry)
  PROVE  GateSerial'
<1>1. ASSUME NEW body \in SettingBodies, T!LoadPut(s, body) PROVE GateSerial'
  <2>1. PICK t : t = [op |-> "put", row |-> settings, body |-> body]
    OBVIOUS
  <2>2. t.op = "put" /\ t.row = settings /\ t.body = body
    BY <2>1, SMT
  <2>3. Fresh(t, settings, budget, asset)
    BY <2>2 DEF Fresh
  <2> QED
    BY <1>1, <2>1, <2>3, GateBegin DEF T!LoadPut
<1>2. ASSUME NEW body \in CampaignBudgets, T!LoadPatch(s, body) PROVE GateSerial'
  <2>1. PICK t : t = [op |-> "patch", row |-> budget, body |-> body]
    OBVIOUS
  <2>2. t.op = "patch" /\ t.row = budget /\ t.body = body
    BY <2>1, SMT
  <2>3. Fresh(t, settings, budget, asset)
    BY <2>2 DEF Fresh
  <2> QED
    BY <1>2, <2>1, <2>3, GateBegin DEF T!LoadPatch
<1>3. CASE T!LoadSubmit(s)
  <2>1. PICK snap : snap = IF settings = T!NoRow THEN T!Defaults ELSE settings
    OBVIOUS
  <2>2. PICK rows : rows = [a \in T!Submitted |-> asset[a]]
    OBVIOUS
  <2>3. PICK t : t = [op |-> "submit", rows |-> rows, snap |-> snap]
    OBVIOUS
  <2>4. t.op = "submit" /\ t.rows = rows /\ t.snap = snap
    BY <2>3, SMT
  <2>5. snap \in Snaps
    BY <2>1 DEF Snaps, GateSerial
  <2>6. Fresh(t, settings, budget, asset)
    BY <2>2, <2>4, <2>5 DEF Fresh, T!Submitted
  <2> QED
    BY <1>3, <2>1, <2>2, <2>3, <2>6, GateBegin DEF T!LoadSubmit
<1>4. ASSUME NEW role \in {"manager", "admin"}, NEW via \in {"api", "page", "assistant"}, NEW a \in Gated,
             T!LoadApprove(s, via, a, role)
      PROVE  GateSerial'
  <2>1. PICK t : t = [op |-> "approve", via |-> via, role |-> role, rows |-> {a}]
    OBVIOUS
  <2>2. t.op = "approve" /\ t.via = via /\ t.role = role /\ t.rows = {a}
    BY <2>1, SMT
  <2>3. via = "api" => (T!RequiresAdmin(asset[a].snap, budget) => role = "admin")
    BY <1>4 DEF T!LoadApprove, T!Eligible
  <2>4. Fresh(t, settings, budget, asset)
    BY <2>2, <2>3 DEF Fresh
  <2> QED
    BY <1>4, <2>1, <2>4, GateBegin DEF T!LoadApprove
<1>5. ASSUME NEW role \in {"manager", "admin"}, NEW S \in SUBSET Gated \ {{}}, NEW dry \in BOOLEAN,
             T!LoadBatch(s, S, role, dry)
      PROVE  GateSerial'
  <2>1. PICK rows : rows = IF dry THEN {} ELSE T!Approvable(S, role)
    OBVIOUS
  <2>2. PICK t : t = [op |-> "approve", via |-> "batch", role |-> role, rows |-> rows]
    OBVIOUS
  <2>3. t.op = "approve" /\ t.via = "batch" /\ t.role = role /\ t.rows = rows
    BY <2>2, SMT
  <2>4. \A a \in rows : /\ a \in Gated /\ ~asset[a].blocked /\ ~T!ExceedsCap(asset[a].snap, budget)
                        /\ T!RequiresAdmin(asset[a].snap, budget) => role = "admin"
    BY <2>1 DEF T!Approvable
  <2>5. Fresh(t, settings, budget, asset)
    BY <2>3, <2>4 DEF Fresh
  <2> QED
    BY <1>5, <2>1, <2>2, <2>5, GateBegin DEF T!LoadBatch
<1> QED
  BY <1>1, <1>2, <1>3, <1>4, <1>5

-----------------------------------------------------------------------------
\* After a commit that no other request was open at, none is.
LEMMA AloneAtEnd ==
  ASSUME tx = [q \in Sessions |-> tx[q]], NEW s \in Sessions, T!End(s), ~raced'
  PROVE  /\ tx' = [q \in Sessions |-> tx'[q]]
         /\ \A q \in Sessions : tx'[q] = T!Idle
  BY DEF T!End

LEMMA GateAlone ==
  ASSUME GateSerial, NEW s \in Sessions, T!End(s), ~raced',
         settings' = asked', settings' \in SettingBodies \cup {T!NoRow}, budget' \in CampaignBudgets,
         asset' \in GatedRows, \A d \in log' : WithinGates(d)
  PROVE  GateSerial'
<1>1. tx' = [q \in Sessions |-> tx'[q]] /\ \A q \in Sessions : tx'[q] = T!Idle
  BY AloneAtEnd DEF GateSerial
<1>2. \A q \in Sessions : Fresh(tx'[q], settings', budget', asset')
  BY <1>1, IdleIsFresh
<1> QED
  BY <1>1, <1>2 DEF GateSerial

\* What is written to a row.
LEMMA RowSubmitted ==
  ASSUME NEW row \in GatedRow, NEW snap \in Snaps
  PROVE  [row EXCEPT !.status = "pending_approval", !.snap = snap] \in GatedRow
  BY DEF GatedRow

LEMMA RowDecided ==
  ASSUME NEW row \in GatedRow, NEW st \in {"approved", "rejected"}
  PROVE  [row EXCEPT !.status = st] \in GatedRow /\ [row EXCEPT !.status = st].snap = row.snap
  BY DEF GatedRow

LEMMA RowRedrafted ==
  ASSUME NEW row \in GatedRow, NEW blocked \in BOOLEAN
  PROVE  /\ [row EXCEPT !.status = "drafted", !.blocked = blocked] \in GatedRow
         /\ [row EXCEPT !.status = "drafted", !.blocked = blocked].snap = row.snap
  BY DEF GatedRow

LEMMA GateCommitPut ==
  ASSUME GateSerial, NEW s \in Sessions, T!CommitPut(s), ~raced'
  PROVE  GateSerial'
<1>1. tx[s].op = "put" /\ tx[s].row = settings /\ tx[s].body \in SettingBodies
  BY DEF GateSerial, Fresh, T!CommitPut
<1>2. settings' = tx[s].body
  BY <1>1, WrittenIsBody DEF T!CommitPut
<1>3. asked' = tx[s].body /\ UNCHANGED <<budget, asset, log>>
  BY DEF T!CommitPut
<1>4. T!End(s)
  BY DEF T!CommitPut
<1> QED
  BY <1>1, <1>2, <1>3, <1>4, GateAlone DEF GateSerial

LEMMA GateCommitPatch ==
  ASSUME GateSerial, NEW s \in Sessions, T!CommitPatch(s), ~raced'
  PROVE  GateSerial'
<1>1. tx[s].op = "patch" /\ tx[s].row = budget /\ tx[s].body \in CampaignBudgets
  BY DEF GateSerial, Fresh, T!CommitPatch
<1>2. budget' = tx[s].body
  BY <1>1, WrittenIsBody DEF T!CommitPatch
<1>3. UNCHANGED <<settings, asset, asked, log>>
  BY DEF T!CommitPatch
<1>4. T!End(s)
  BY DEF T!CommitPatch
<1> QED
  BY <1>1, <1>2, <1>3, <1>4, GateAlone DEF GateSerial

\* What is submitted is drafted until then.
LEMMA GateCommitSubmit ==
  ASSUME GateSerial, NEW s \in Sessions, T!CommitSubmit(s)
  PROVE  /\ ~raced' => GateSerial'
         /\ \A a \in Gated : asset'[a].snap # asset[a].snap => asset[a].status = "drafted"
<1>1. /\ tx[s].rows = [a \in {b \in Gated : asset[b].status = "drafted"} |-> asset[a]]
      /\ tx[s].snap \in Snaps
  BY DEF GateSerial, Fresh, T!CommitSubmit
<1>2. asset' = [a \in Gated |-> IF a \in {b \in Gated : asset[b].status = "drafted"}
                                THEN [asset[a] EXCEPT !.status = "pending_approval", !.snap = tx[s].snap]
                                ELSE asset[a]]
  BY <1>1 DEF T!CommitSubmit
<1>3. asset \in GatedRows
  BY DEF GateSerial
<1>4. asset' \in GatedRows
  <2>1. \A a \in Gated : asset[a] \in GatedRow
    BY <1>3 DEF GatedRows
  <2>2. \A a \in Gated : [asset[a] EXCEPT !.status = "pending_approval", !.snap = tx[s].snap] \in GatedRow
    BY <1>1, <2>1, RowSubmitted
  <2> QED
    BY <1>2, <2>1, <2>2 DEF GatedRows
<1>5. UNCHANGED <<settings, budget, asked, log>> /\ T!End(s)
  BY DEF T!CommitSubmit
<1>6. ~raced' => GateSerial'
  BY <1>4, <1>5, GateAlone DEF GateSerial
<1>7. \A a \in Gated : asset[a].status # "drafted" => asset'[a] = asset[a]
  BY <1>2
<1> QED
  BY <1>6, <1>7

\* What is approved is logged as it was checked.
LEMMA GateCommitApprove ==
  ASSUME GateSerial, NEW s \in Sessions, T!CommitApprove(s)
  PROVE  /\ ~raced' => GateSerial'
         /\ \A a \in Gated : asset'[a].snap = asset[a].snap
<1>1. PICK W \in IF tx[s].via = "batch" THEN SUBSET tx[s].rows ELSE {tx[s].rows} :
        /\ asset' = [a \in Gated |-> IF a \in W THEN [asset[a] EXCEPT !.status = "approved"]
                                              ELSE asset[a]]
        /\ log' = log \cup
             {[asset |-> a, via |-> tx[s].via, role |-> tx[s].role, budget |-> budget,
               row |-> asset[a]] : a \in W}
  BY DEF T!CommitApprove
<1>2. tx[s].op = "approve" /\ Fresh(tx[s], settings, budget, asset) /\ asset \in GatedRows
      /\ budget \in CampaignBudgets
  BY DEF GateSerial, T!CommitApprove
<1>3. W \subseteq tx[s].rows /\ tx[s].rows \subseteq Gated
  BY <1>1, <1>2 DEF Fresh
<1>4. asset' \in GatedRows /\ \A a \in Gated : asset'[a].snap = asset[a].snap
  <2>1. \A a \in Gated : asset[a] \in GatedRow
    BY <1>2 DEF GatedRows
  <2>2. \A a \in Gated : /\ [asset[a] EXCEPT !.status = "approved"] \in GatedRow
                          /\ [asset[a] EXCEPT !.status = "approved"].snap = asset[a].snap
    BY <2>1, RowDecided
  <2> QED
    BY <1>1, <2>1, <2>2 DEF GatedRows
<1>5. ASSUME NEW a \in W, NEW d,
             d = [asset |-> a, via |-> tx[s].via, role |-> tx[s].role, budget |-> budget,
                  row |-> asset[a]]
      PROVE  WithinGates(d)
  <2>1. d.via = tx[s].via /\ d.role = tx[s].role /\ d.budget = budget /\ d.row = asset[a]
    BY <1>5, SMT
  <2>2. d.via \in {"api", "batch"} /\ T!Above(d) => d.role = "admin"
    BY <1>2, <1>3, <2>1 DEF Fresh, T!Above, T!RequiresAdmin
  <2>3. d.via = "batch" => ~asset[a].blocked /\ ~T!ExceedsCap(asset[a].snap, budget)
    BY <1>2, <1>3, <2>1 DEF Fresh
  <2>4. asset[a].snap.cap \in Int /\ budget.total \in Int
    <3>1. asset[a].snap \in Snaps
      BY <1>2, <1>3 DEF GatedRows, GatedRow
    <3>2. T!Defaults.cap \in Int
      BY SMT DEF T!Defaults
    <3>3. \A b \in SettingBodies : b.cap \in Int
      BY GatesAssumption
    <3>4. \A b \in CampaignBudgets : b.total \in Int
      BY GatesAssumption
    <3> QED
      BY <1>2, <3>1, <3>2, <3>3, <3>4 DEF Snaps
  <2>5. ASSUME NEW m \in Int, NEW n \in Int, ~(m > n) PROVE m <= n
    BY <2>5, SMT
  <2>6. d.via = "batch" => (asset[a].snap.currency = budget.currency => budget.total <= asset[a].snap.cap)
    BY <2>3, <2>4, <2>5 DEF T!ExceedsCap
  <2> QED
    BY <2>1, <2>2, <2>3, <2>6 DEF WithinGates
<1>6. \A d \in log' : WithinGates(d)
  BY <1>1, <1>5 DEF GateSerial
<1>7. UNCHANGED <<settings, budget, asked>> /\ T!End(s)
  BY DEF T!CommitApprove
<1> QED
  BY <1>4, <1>6, <1>7, GateAlone DEF GateSerial

\* A rejection and the next draft leave the snapshot alone.
LEMMA GateReject ==
  ASSUME GateSerial, NEW a \in Gated, T!Reject(a) \/ \E blocked \in BOOLEAN : T!Redraft(a, blocked)
  PROVE  /\ ~raced' => GateSerial'
         /\ \A b \in Gated : asset'[b].snap = asset[b].snap
<1>1. asset \in GatedRows /\ \A b \in Gated : asset[b] \in GatedRow
  BY DEF GateSerial, GatedRows
<1>2. PICK row \in GatedRow : row.snap = asset[a].snap /\ asset' = [asset EXCEPT ![a] = row]
  <2>1. CASE T!Reject(a)
    <3>1. asset' = [asset EXCEPT ![a] = [asset[a] EXCEPT !.status = "rejected"]]
      BY <1>1, <2>1 DEF T!Reject, GatedRows
    <3> QED
      BY <1>1, <3>1, RowDecided
  <2>2. ASSUME NEW blocked \in BOOLEAN, T!Redraft(a, blocked)
        PROVE  \E row \in GatedRow : row.snap = asset[a].snap /\ asset' = [asset EXCEPT ![a] = row]
    <3>1. asset' = [asset EXCEPT ![a] = [asset[a] EXCEPT !.status = "drafted", !.blocked = blocked]]
      BY <1>1, <2>2 DEF T!Redraft, GatedRows
    <3> QED
      BY <1>1, <3>1, RowRedrafted
  <2> QED
    BY <2>1, <2>2
<1>3. asset' \in GatedRows /\ \A b \in Gated : asset'[b].snap = asset[b].snap
  BY <1>1, <1>2 DEF GatedRows
<1>4. UNCHANGED <<settings, budget, tx, asked, log>>
  BY DEF T!Reject, T!Redraft
<1>5. ~raced' => \A q \in Sessions : tx[q] = T!Idle
  BY DEF T!Reject, T!Redraft
<1>6. ~raced' => \A q \in Sessions : Fresh(tx[q], settings, budget, asset')
  BY <1>5, IdleIsFresh
<1> QED
  BY <1>3, <1>4, <1>6 DEF GateSerial

LEMMA GateRollback ==
  ASSUME GateSerial, NEW s \in Sessions, T!Rollback(s)
  PROVE  GateSerial'
<1>1. tx' = [tx EXCEPT ![s] = T!Idle] /\ UNCHANGED <<settings, budget, asset, asked, log>>
  BY DEF T!Rollback
<1>2. tx = [q \in Sessions |-> tx[q]]
  BY DEF GateSerial
<1>3. tx' = [q \in Sessions |-> tx'[q]] /\ \A q \in Sessions : tx'[q] = T!Idle \/ tx'[q] = tx[q]
  BY <1>1, <1>2
<1> QED
  BY <1>1, <1>3, IdleIsFresh DEF GateSerial

\* Once requests have overlapped they have.
LEMMA RacedStays == [T!Next]_(T!vars) /\ raced => raced'
<1>1. \A s, t : T!Begin(s, t) => raced' = raced
  BY DEF T!Begin
<1>2. \A s \in Sessions : T!End(s) /\ raced => raced'
  BY DEF T!End
<1> QED
  BY <1>1, <1>2 DEF T!Next, T!vars, T!LoadPut, T!LoadPatch, T!LoadSubmit, T!LoadApprove, T!LoadBatch,
    T!CommitPut, T!CommitPatch, T!CommitSubmit, T!CommitApprove, T!Rollback, T!Reject, T!Redraft

LEMMA GateStep ==
  ASSUME GateInv, [T!Next]_(T!vars)
  PROVE  GateInv' /\ (T!SnapshotFrozenStep \/ UNCHANGED T!vars)
<1>0. CASE raced
  BY <1>0, RacedStays DEF GateInv, T!SnapshotFrozenStep
<1>1. CASE ~raced /\ UNCHANGED T!vars
  BY <1>1 DEF T!vars, GateInv, GateSerial
<1>2. CASE ~raced /\ T!Next
  <2>1. GateSerial
    BY <1>2 DEF GateInv
  <2>2. ASSUME NEW s \in Sessions,
               \/ \E body \in SettingBodies : T!LoadPut(s, body)
               \/ \E b \in CampaignBudgets : T!LoadPatch(s, b)
               \/ T!LoadSubmit(s)
               \/ \E role \in {"manager", "admin"} :
                    \/ \E a \in Gated, via \in {"api", "page", "assistant"} : T!LoadApprove(s, via, a, role)
                    \/ \E S \in SUBSET Gated \ {{}}, dry \in BOOLEAN : T!LoadBatch(s, S, role, dry)
        PROVE  GateSerial' /\ asset' = asset
    <3>1. GateSerial'
      BY <2>1, <2>2, GateLoads
    <3>2. asset' = asset
      BY <2>2 DEF T!LoadPut, T!LoadPatch, T!LoadSubmit, T!LoadApprove, T!LoadBatch, T!Begin
    <3> QED
      BY <3>1, <3>2
  <2>3. ASSUME NEW s \in Sessions, T!CommitPut(s) \/ T!CommitPatch(s) \/ T!Rollback(s)
        PROVE  (~raced' => GateSerial') /\ asset' = asset
    <3>1. ~raced' => GateSerial'
      BY <2>1, <2>3, GateCommitPut, GateCommitPatch, GateRollback
    <3>2. asset' = asset
      BY <2>3 DEF T!CommitPut, T!CommitPatch, T!Rollback
    <3> QED
      BY <3>1, <3>2
  <2>4. ASSUME NEW s \in Sessions, T!CommitSubmit(s) \/ T!CommitApprove(s)
        PROVE  /\ ~raced' => GateSerial'
               /\ \A a \in Gated : asset'[a].snap # asset[a].snap => asset[a].status = "drafted"
    BY <2>1, <2>4, GateCommitSubmit, GateCommitApprove
  <2>5. ASSUME NEW a \in Gated, T!Reject(a) \/ \E blocked \in BOOLEAN : T!Redraft(a, blocked)
        PROVE  (~raced' => GateSerial') /\ \A b \in Gated : asset'[b].snap = asset[b].snap
    BY <2>1, <2>5, GateReject
  <2>6. /\ ~raced' => GateSerial'
        /\ \A a \in Gated : asset'[a].snap # asset[a].snap => asset[a].status = "drafted"
    BY <1>2, <2>2, <2>3, <2>4, <2>5 DEF T!Next
  <2> QED
    BY <2>6 DEF GateInv, T!SnapshotFrozenStep
<1> QED
  BY <1>0, <1>1, <1>2

LEMMA GateSafe == GateInv => T!GateHolds /\ T!BatchWithinCap /\ T!SettingsAsAsked
  BY DEF GateInv, GateSerial, WithinGates, T!GateHolds, T!BatchWithinCap, T!SettingsAsAsked
-----------------------------------------------------------------------------
\* A behaviour stays in its scene and takes the steps of its component.
LEMMA ChecksAtWork ==
  ASSUME [ChecksNext]_vars
  PROVE  /\ scene' = scene
         /\ scene = "drafting" => [D!Next]_(D!vars)
         /\ scene = "thresholds" => [T!Next]_(T!vars)
         /\ scene = "voices" => [V!Next]_(V!vars)
         /\ scene = "reports" => [R!Next]_(R!vars)
<1>1. DNext => scene = "drafting" /\ scene' = scene /\ D!Next
  BY DEF DNext
<1>2. TNext => scene = "thresholds" /\ scene' = scene /\ T!Next
  BY DEF TNext
<1>3. VNext => scene = "voices" /\ scene' = scene /\ V!Next
  BY DEF VNext
<1>4. RNext => scene = "reports" /\ scene' = scene /\ R!Next
  BY DEF RNext
<1>5. UNCHANGED vars => UNCHANGED <<scene, D!vars, T!vars, V!vars, R!vars>>
  BY DEF vars, D!vars, T!vars, V!vars, R!vars
<1> QED
  BY <1>1, <1>2, <1>3, <1>4, <1>5 DEF ChecksNext

\* The invariant of these scenes: that of the component at work.
ChecksInv ==
  /\ scene = "drafting" => DraftInv
  /\ scene = "thresholds" => GateInv
  /\ scene = "voices" => VoiceInv
  /\ scene = "reports" => ReportInv

LEMMA ChecksFirst == ChecksInit => ChecksInv
<1>1. DInit => scene = "drafting" /\ DraftInv
  BY DraftInit DEF DInit
<1>2. TInit => scene = "thresholds" /\ GateInv
  BY GateInit DEF TInit
<1>3. VInit => scene = "voices" /\ VoiceInv
  BY VoiceInit DEF VInit
<1>4. RInit => scene = "reports" /\ ReportInv
  BY ReportInit DEF RInit
<1> QED
  BY <1>1, <1>2, <1>3, <1>4 DEF ChecksInit, ChecksInv

LEMMA ChecksStep == ChecksInv /\ [ChecksNext]_vars => ChecksInv'
<1> SUFFICES ASSUME ChecksInv, [ChecksNext]_vars PROVE ChecksInv'
  OBVIOUS
<1>1. scene = "drafting" => DraftInv'
  BY ChecksAtWork, DraftStep DEF ChecksInv
<1>2. scene = "thresholds" => GateInv'
  BY ChecksAtWork, GateStep DEF ChecksInv
<1>3. scene = "voices" => VoiceInv'
  BY ChecksAtWork, VoiceStep DEF ChecksInv
<1>4. scene = "reports" => ReportInv'
  BY ChecksAtWork, ReportStep DEF ChecksInv
<1> QED
  BY <1>1, <1>2, <1>3, <1>4, ChecksAtWork DEF ChecksInv

LEMMA ChecksAlways == ChecksSpec => []ChecksInv
  BY ChecksFirst, ChecksStep, PTL DEF ChecksSpec
-----------------------------------------------------------------------------
\* For every set of terms and every budget of attempts, whatever the model answers and
\* however the rules change meanwhile: the tool returns an answer with the smallest
\* overrun, the stored verdict is the one on the stored text, and a draft that ought to
\* be rewritten is stored only when the attempts are spent (DraftJudged; generate_asset).
THEOREM DraftsAreJudged == ChecksSpec => []DraftJudged
<1>1. ChecksInv => DraftJudged
  BY DraftSafe DEF ChecksInv, DraftJudged
<1> QED
  BY <1>1, ChecksAlways, PTL

\* For all settings, budgets and assets: while requests do not overlap, the API approves
\* above the threshold of the submission only for an admin, a batch stays within the
\* cap, the settings are those of the last PUT, and an asset in review keeps its
\* thresholds (ThresholdGates; api/approvals.py, api/approval_settings.py).
THEOREM GatesHold == ChecksSpec => ThresholdGates
<1> DEFINE good == scene = "thresholds" => T!GateHolds /\ T!BatchWithinCap /\ T!SettingsAsAsked
<1>1. ChecksInv => good
  BY GateSafe DEF ChecksInv
<1>2. ChecksInv /\ [ChecksNext]_vars /\ good' =>
        [scene = "thresholds" =>
           /\ T!GateHolds'
           /\ T!BatchWithinCap'
           /\ T!SettingsAsAsked'
           /\ T!SnapshotFrozenStep]_vars
  <2> SUFFICES ASSUME ChecksInv, [ChecksNext]_vars, good', scene = "thresholds"
               PROVE  /\ T!GateHolds'
                      /\ T!BatchWithinCap'
                      /\ T!SettingsAsAsked'
                      /\ T!SnapshotFrozenStep \/ UNCHANGED vars
    OBVIOUS
  <2>1. scene' = "thresholds" /\ GateInv /\ [T!Next]_(T!vars)
    BY ChecksAtWork DEF ChecksInv
  <2>2. T!SnapshotFrozenStep \/ UNCHANGED T!vars
    BY <2>1, GateStep
  <2>3. UNCHANGED T!vars => T!SnapshotFrozenStep
    BY DEF T!vars, T!SnapshotFrozenStep
  <2> QED
    BY <2>1, <2>2, <2>3
<1> QED
  BY <1>1, <1>2, ChecksAlways, PTL DEF ChecksSpec, ThresholdGates

\* For any voices and any number of requests: once a voice is active exactly one is,
\* whatever the order in which activations read, wait for the row locks, commit and
\* roll back (ExactlyOneVoice; _deactivate_others, idx_brand_voice_active).
THEOREM AlwaysOneVoice == ChecksSpec => ExactlyOneVoice
<1>1. ChecksInv /\ [ChecksNext]_vars => [scene = "voices" => V!ExactlyOneVoiceStep]_vars
  <2> SUFFICES ASSUME ChecksInv, [ChecksNext]_vars, scene = "voices"
               PROVE  V!ExactlyOneVoiceStep
    OBVIOUS
  <2>1. active # {} => Cardinality(active') = 1
    BY ChecksAtWork, VoiceStep DEF ChecksInv
  <2> QED
    BY <2>1, SameCardinality DEF V!ExactlyOneVoiceStep
<1> QED
  BY <1>1, ChecksAlways, PTL DEF ChecksSpec, ExactlyOneVoice

\* For any number of reports and requests: versions are 1, 2, ..., the default view is
\* the newest, a completed campaign has its final report, and a custom KPI is not
\* reported missing beside a count of its events (ReportsSound; report.py,
\* custom_kpis.py, complete_campaign).
THEOREM ReportsAreSound == ChecksSpec => []ReportsSound
<1>1. ChecksInv => ReportsSound
  BY ReportSafe DEF ChecksInv, ReportsSound
<1> QED
  BY <1>1, ChecksAlways, PTL
=============================================================================
