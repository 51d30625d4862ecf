------------------------------- MODULE Reports -------------------------------
(***************************************************************************)
(* Campaign reports and custom KPIs: generate_report of                    *)
(* app/analytics/report.py, called by POST /campaigns/{id}/reports and by  *)
(* the completion of the campaign, and evaluate_custom_kpi of              *)
(* app/analytics/custom_kpis.py.                                           *)
(*                                                                         *)
(* The campaign has one KPI target on a metric and at most one custom KPI  *)
(* on the same metric with a filter.  hits and misses count its events of  *)
(* that metric that the filter keeps and drops, others its other events.   *)
(* Absent stands for the JSON null of "no data".                           *)
(***************************************************************************)
EXTENDS Integers, FiniteSets

CONSTANTS Sessions, Absent, MaxEvents, MaxReports, MaxCalls

VARIABLES hits, misses, others, kpi, reports, status, calls, tx

vars == <<hits, misses, others, kpi, reports, status, calls, tx>>

Idle == [phase |-> "none"]

Init ==
  /\ hits = 0 /\ misses = 0 /\ others = 0
  /\ kpi = "none" /\ reports = {} /\ status = "live" /\ calls = 0
  /\ tx = [s \in Sessions |-> Idle]

\* An event of the campaign is ingested (Webhooks, WebAnalytics).
Arrive ==
  /\ hits + misses + others < MaxEvents
  /\ \/ hits' = hits + 1 /\ UNCHANGED <<misses, others>>
     \/ misses' = misses + 1 /\ UNCHANGED <<hits, others>>
     \/ others' = others + 1 /\ UNCHANGED <<hits, misses>>
  /\ UNCHANGED <<kpi, reports, status, calls, tx>>

CreateCustomKpi ==
  /\ kpi = "none" /\ kpi' = "active"
  /\ UNCHANGED <<hits, misses, others, reports, status, calls, tx>>

DeleteCustomKpi ==
  /\ kpi = "active" /\ kpi' = "deleted"
  /\ UNCHANGED <<hits, misses, others, reports, status, calls, tx>>

\* _count_metric: null only while the campaign has no event of any kind.
Observed == IF hits + misses + others = 0 THEN Absent ELSE hits + misses

\* Mutant of EvaluateCustomKpi: absence is judged after the filter.
EvaluateFiltered == IF hits = 0 THEN Absent ELSE hits

\* evaluate_custom_kpi: null only while the campaign has no event of the metric.
EvaluateCustomKpi == IF hits + misses = 0 THEN Absent ELSE hits
-----------------------------------------------------------------------------
\* generate_campaign_report, or complete_campaign (live -> completed).
Begin(s, completing) ==
  /\ tx[s] = Idle /\ calls < MaxCalls /\ calls' = calls + 1
  /\ completing => status = "live"
  /\ tx' = [tx EXCEPT ![s] = [phase |-> "kpis", completing |-> completing]]
  /\ UNCHANGED <<hits, misses, others, kpi, reports, status>>

\* The transition's UPDATE of the campaign is flushed by the first query of its
\* report: from then on it holds the row.
CampaignRowHeld(s) ==
  \E t \in Sessions \ {s} : tx[t].phase \notin {"none", "kpis"} /\ tx[t].completing

\* _build_data reads its sections one query after the other.
KpisVsTarget(s) ==
  /\ tx[s].phase = "kpis"
  /\ tx[s].completing => ~CampaignRowHeld(s)
  /\ tx' = [tx EXCEPT ![s] = [phase |-> "custom", completing |-> tx[s].completing, observed |-> Observed]]
  /\ UNCHANGED <<hits, misses, others, kpi, reports, status, calls>>

CustomKpisSection(s) ==
  /\ tx[s].phase = "custom"
  /\ tx' = [tx EXCEPT ![s] = [phase |-> "number", completing |-> tx[s].completing, observed |-> tx[s].observed,
                              custom |-> IF kpi = "active" THEN {EvaluateCustomKpi} ELSE {}]]
  /\ UNCHANGED <<hits, misses, others, kpi, reports, status, calls>>

\* The version of the row with is_latest, if there is one.
LatestOf(rows) == {r.version : r \in {q \in rows : q.latest}}

\* The version after the latest row's or, without one, after the highest.
NextVersion(prior) ==
  LET known == IF prior = {} THEN {r.version : r \in reports} ELSE prior
  IN  IF known = {} THEN 1 ELSE 1 + CHOOSE n \in known : \A m \in known : m <= n

\* The latest row is read ...
ReadLatest(s) ==
  /\ tx[s].phase = "number"
  /\ tx' = [tx EXCEPT ![s] = [phase |-> "demote", completing |-> tx[s].completing, observed |-> tx[s].observed,
                              custom |-> tx[s].custom, version |-> NextVersion(LatestOf(reports)),
                              prior |-> LatestOf(reports)]]
  /\ UNCHANGED <<hits, misses, others, kpi, reports, status, calls>>

\* ... and demoted, once no other transaction holds its row; the lock is kept to the end.
Demote(s) ==
  /\ tx[s].phase = "demote"
  /\ ~\E t \in Sessions \ {s} : tx[t].phase = "insert" /\ tx[t].prior \cap tx[s].prior # {}
  /\ tx' = [tx EXCEPT ![s].phase = "insert"]
  /\ UNCHANGED <<hits, misses, others, kpi, reports, status, calls>>

\* Mutant of Fits: the table has no unique constraint.
FitsAlways(version, kept) == kept \subseteq reports /\ version \in Nat

\* The unique constraint on the version and the partial unique index on is_latest.
Fits(version, kept) == ~\E r \in reports : r.version = version \/ (r \in kept /\ r.latest)

\* Mutant of Completes: the transition commits although its report was refused.
CompletesAnyway(s, fits) == tx[s].completing /\ fits \in BOOLEAN

\* The transition and its report are one transaction.
Completes(s, fits) == tx[s].completing /\ fits

\* The insert and the commit; a refused insert rolls everything back.
InsertReport(s) ==
  /\ tx[s].phase = "insert" /\ Cardinality(reports) < MaxReports
  /\ LET kept == {r \in reports : r.version \notin tx[s].prior}
         fits == Fits(tx[s].version, kept)
     IN  /\ reports' = IF ~fits THEN reports
                       ELSE kept \cup {[r EXCEPT !.latest = FALSE] : r \in reports \ kept}
                              \cup {[version |-> tx[s].version, latest |-> TRUE, final |-> tx[s].completing,
                                     observed |-> tx[s].observed, custom |-> tx[s].custom]}
         /\ status' = IF Completes(s, fits) THEN "completed" ELSE status
  /\ tx' = [tx EXCEPT ![s] = Idle]
  /\ UNCHANGED <<hits, misses, others, kpi, calls>>

Next ==
  \/ Arrive \/ CreateCustomKpi \/ DeleteCustomKpi
  \/ \E s \in Sessions :
       \/ KpisVsTarget(s) \/ CustomKpisSection(s) \/ ReadLatest(s) \/ Demote(s)
       \/ InsertReport(s)
       \/ \E c \in BOOLEAN : Begin(s, c)

Spec == Init /\ [][Next]_vars
-----------------------------------------------------------------------------
\* Versions are 1, 2, ... without gap or repetition and the default view is the
\* newest one, however requests and the completion of the campaign overlap.
LatestIsNewest ==
  LET n == Cardinality(reports)
  IN  /\ {r.version : r \in reports} = 1..n
      /\ \A r \in reports : r.latest <=> r.version = n

\* A completed campaign has its final report: the transition never outlives the
\* report that it takes ("so a regeneration is never needed").
CompletedHasFinal == status = "completed" => \E r \in reports : r.final

\* A custom KPI is never reported missing beside a count of events of its
\* metric: "no events of this type" and "the filters left none" stay apart, also
\* when events arrive while the sections are read.
MissingIsMissing ==
  \A r \in reports : r.observed # Absent /\ r.observed > 0 => Absent \notin r.custom
=============================================================================
