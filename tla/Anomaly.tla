------------------------------- MODULE Anomaly -------------------------------
(***************************************************************************)
(* Anomaly detection and auto-pause: analyse_campaign of                   *)
(* app/agents/analytics.py with app/analytics/anomaly.py, and the dismissal *)
(* endpoint of app/api/analytics.py, for one metric of one campaign.       *)
(*                                                                         *)
(* Time is counted in half days.  counts[t] is the number of events of the *)
(* metric with event_at in half day t, anomalies the rows of               *)
(* metric_anomaly in the order they were written.                          *)
(***************************************************************************)
EXTENDS Integers, Sequences, SequencesExt, FiniteSets, FiniteSetsExt

CONSTANTS BaselineDays, MaxTime, MaxEvents, MaxAnomalies

VARIABLES metric, optedIn, now, counts, anomalies, status

vars == <<metric, optedIn, now, counts, anomalies, status>>

CriticalMetrics == {"unsubscribe", "bounce", "spam_complaint"}
Silence == 2                                      \* 24 hours
DayOf(t) == t \div 2

Init ==
  /\ metric \in {"open", "bounce"} /\ optedIn \in BOOLEAN
  /\ now = 0 /\ counts = [t \in 0..MaxTime |-> 0]
  /\ anomalies = <<>> /\ status = "live"

Arrive ==
  /\ MapThenSumSet(LAMBDA t : counts[t], 0..now) < MaxEvents
  /\ counts' = [counts EXCEPT ![now] = @ + 1]
  /\ UNCHANGED <<metric, optedIn, now, anomalies, status>>

TimePasses ==
  /\ now < MaxTime /\ now' = now + 1
  /\ UNCHANGED <<metric, optedIn, counts, anomalies, status>>

\* _daily_counts: the days of the window that have an event, with their counts.
DayCount(d) == MapThenSumSet(LAMBDA t : counts[t], {t \in 0..now : t >= now - 2 * BaselineDays /\ DayOf(t) = d})
Series == SetToSortSeq({d \in 0..DayOf(now) : DayCount(d) > 0}, <)

\* Twice the median of the counts of a sequence of days.
TwiceMedian(days) ==
  LET sorted == SortSeq([i \in DOMAIN days |-> DayCount(days[i])], <)
      n == Len(days)
  IN  IF n % 2 = 1 THEN 2 * sorted[(n + 1) \div 2] ELSE sorted[n \div 2] + sorted[n \div 2 + 1]

\* n^2 times the population variance.
Spread(days) ==
  LET n == Len(days)
      sum == MapThenSumSet(LAMBDA i : DayCount(days[i]), DOMAIN days)
      squares == MapThenSumSet(LAMBDA i : DayCount(days[i]) * DayCount(days[i]), DOMAIN days)
  IN  n * squares - sum * sum

\* _detect_one: the last day with events deviates by more than three sigma from
\* the median of the days before it, or at all when those do not vary.
Detected ==
  /\ Len(Series) >= BaselineDays
  /\ LET base == Front(Series)
         gap == 2 * DayCount(Last(Series)) - TwiceMedian(base)
     IN  IF Spread(base) = 0 THEN gap # 0
         ELSE gap * gap * Len(base) * Len(base) > 36 * Spread(base)

\* Mutant of ActiveAnomaly: silent for twelve hours only.
ActiveHalfDay(rows) == \E i \in DOMAIN rows : rows[i].created >= now - 1 /\ ~rows[i].dismissed

\* An undismissed row of the last 24 hours silences the metric.
ActiveAnomaly(rows) == \E i \in DOMAIN rows : rows[i].created >= now - Silence /\ ~rows[i].dismissed

\* detect_anomalies
Detect ==
  IF Detected /\ ~ActiveAnomaly(anomalies)
  THEN Append(anomalies, [created |-> now, window |-> Last(Series), dismissed |-> FALSE,
                          severity |-> IF metric \in CriticalMetrics THEN "critical" ELSE "warning"])
  ELSE anomalies

\* Mutant of ShouldAutoPause: one anomaly is enough.
ShouldPauseAtOnce(rows) == optedIn /\ \E i \in DOMAIN rows : ~rows[i].dismissed /\ rows[i].severity = "critical"

\* should_auto_pause: the two most recent undismissed rows of a critical metric.
ShouldAutoPause(rows) ==
  LET recent == SelectSeq(rows, LAMBDA r : ~r.dismissed)
      n == Len(recent)
  IN  optedIn /\ n >= 2 /\ metric \in CriticalMetrics
        /\ recent[n].severity = "critical" /\ recent[n - 1].severity = "critical"

\* analyse_campaign: no state of the campaign but paused stops the pause.
AnalyseCampaign ==
  /\ Len(anomalies) < MaxAnomalies
  /\ anomalies' = Detect
  /\ status' = IF Detect # anomalies /\ ShouldAutoPause(Detect) THEN "paused" ELSE status
  /\ UNCHANGED <<metric, optedIn, now, counts>>

\* dismiss_anomaly_endpoint; dismissing twice changes nothing.
DismissAnomaly(i) ==
  /\ ~anomalies[i].dismissed
  /\ anomalies' = [anomalies EXCEPT ![i].dismissed = TRUE]
  /\ UNCHANGED <<metric, optedIn, now, counts, status>>

\* The resume and complete_campaign transitions (Lifecycle).
Resume ==
  /\ status = "paused" /\ status' = "live"
  /\ UNCHANGED <<metric, optedIn, now, counts, anomalies>>

Complete ==
  /\ status \in {"live", "paused"} /\ status' = "completed"
  /\ UNCHANGED <<metric, optedIn, now, counts, anomalies>>

Next ==
  \/ Arrive \/ TimePasses \/ AnalyseCampaign \/ Resume \/ Complete
  \/ \E i \in DOMAIN anomalies : DismissAnomaly(i)

Spec == Init /\ [][Next]_vars
-----------------------------------------------------------------------------
\* A persisting deviation is not recorded again within 24 hours: two rows that
\* nobody dismissed are further apart than the silence window.
FiresSpaced ==
  \A i, j \in DOMAIN anomalies :
    i < j /\ ~anomalies[i].dismissed /\ ~anomalies[j].dismissed
      => anomalies[j].created > anomalies[i].created + Silence

\* The analysis pauses a campaign only on a sustained alarm: the tenant opted in
\* and two undismissed critical rows, more than 24 hours apart, stand.
PausedOnlySustainedStep ==
  status # "paused" /\ status' = "paused" =>
    optedIn /\ \E i, j \in DOMAIN anomalies' :
      /\ anomalies'[j].created > anomalies'[i].created + Silence
      /\ \A k \in {i, j} : ~anomalies'[k].dismissed /\ anomalies'[k].severity = "critical"

\* "Subsequent detection passes for the same (campaign, metric) won't re-fire for
\* 24h" after a dismissal: no row is written within 24 hours of a row that was
\* dismissed before.
DismissalSilences ==
  [][\A i \in DOMAIN anomalies :
       Len(anomalies') > Len(anomalies) /\ anomalies[i].dismissed
         => now > anomalies[i].created + Silence]_vars
=============================================================================
