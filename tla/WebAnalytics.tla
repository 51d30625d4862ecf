---------------------------- MODULE WebAnalytics ----------------------------
(***************************************************************************)
(* The Plausible sync: POST /api/integrations/plausible/sync               *)
(* (app/api/integrations.py), the connector and the ingest writer of       *)
(* app/integrations/web_analytics/.                                        *)
(*                                                                         *)
(* views[<<d, u>>] is what the provider counts for day d and utm_campaign  *)
(* u (a visit is one page view), rows the rows of analytic_event that came *)
(* from it and jobs the ingest.web_analytics.plausible task rows.  A sync  *)
(* fetches, later inserts what it fetched row by row, and commits the rows *)
(* with its task row; any sync may be rolled back.                         *)
(***************************************************************************)
EXTENDS Integers, Sequences, FiniteSets

CONSTANTS Sessions, Utms, NoUtm, MaxDay, Spans, MaxViews, MaxCalls

VARIABLES today, views, named, rows, jobs, calls, tx

vars == <<today, views, named, rows, jobs, calls, tx>>

Metrics == {"pageviews", "visitors"}
Idle == [kind |-> "none"]

Init ==
  /\ today = 1 /\ named = {} /\ rows = {} /\ jobs = <<>> /\ calls = 0
  /\ views = [x \in (1..MaxDay) \X Utms |-> 0]
  /\ tx = [s \in Sessions |-> Idle]

Visit(u) ==
  /\ views[<<today, u>>] < MaxViews
  /\ views' = [views EXCEPT ![<<today, u>>] = @ + 1]
  /\ UNCHANGED <<today, named, rows, jobs, calls, tx>>

Midnight ==
  /\ today < MaxDay /\ today' = today + 1
  /\ UNCHANGED <<views, named, rows, jobs, calls, tx>>

\* A campaign gets the name that a utm_campaign carries.
NameCampaign(u) ==
  /\ u \notin named \cup {NoUtm} /\ named' = named \cup {u}
  /\ UNCHANGED <<today, views, rows, jobs, calls, tx>>

Total(since, until, u) ==
  LET Upto[d \in 0..MaxDay] ==
        IF d = 0 THEN 0 ELSE Upto[d - 1] + (IF d \in since..until THEN views[<<d, u>>] ELSE 0)
  IN  Upto[MaxDay]

\* fetch_events: one bucket per utm_campaign seen in the window, two events per
\* bucket, keyed by the dates of the window.
Fetched(since, until) ==
  {[id |-> <<since, until, u, m>>, utm |-> u, value |-> Total(since, until, u)] :
     u \in {x \in Utms : Total(since, until, x) > 0}, m \in Metrics}

\* plausible_sync up to the answer of the provider.
FetchEvents(s, span) ==
  /\ tx[s] = Idle /\ calls < MaxCalls /\ calls' = calls + 1
  /\ tx' = [tx EXCEPT ![s] = [kind |-> "fetched", got |-> Fetched(today - span, today)]]
  /\ UNCHANGED <<today, views, named, rows, jobs>>

\* ingest_events: resolve_campaign_by_utm for every utm_campaign of the answer, then
\* the insert statement begins.
IngestEvents(s) ==
  /\ tx[s].kind = "fetched"
  /\ tx' = [tx EXCEPT ![s] = [kind |-> "insert", got |-> tx[s].got, todo |-> tx[s].got,
                              owned |-> {e \in tx[s].got : e.utm \in named}, new |-> {}]]
  /\ UNCHANGED <<today, views, named, rows, jobs, calls>>

\* Mutant of KeyFree: the index does not see the rows of open transactions.
KeyFreeAlways(s, id) == TRUE

\* No other open transaction holds the key; an insert waits until then.
KeyFree(s, id) ==
  \A o \in Sessions \ {s} : tx[o].kind = "insert" => id \notin {e.id : e \in tx[o].new}

\* One row of the statement: ON CONFLICT DO NOTHING passes over a key that is there.
InsertRow(s, e) ==
  /\ tx[s].kind = "insert" /\ e \in tx[s].todo
  /\ KeyFree(s, e.id)
  /\ tx' = [tx EXCEPT ![s].todo = @ \ {e},
                      ![s].new = IF e.id \in {r.id : r \in rows} THEN @ ELSE @ \cup {e}]
  /\ UNCHANGED <<today, views, named, rows, jobs, calls>>

\* Mutant of Imported: every event of the answer is counted.
ImportedAll(t) == Cardinality(t.got)

\* The ids the insert returned.
Imported(t) == Cardinality(t.new)

\* The task row of the sync, committed with the rows.
Commit(s) ==
  /\ tx[s].kind = "insert" /\ tx[s].todo = {}
  /\ LET t == tx[s]
     IN  /\ rows' = rows \cup {[id |-> e.id, value |-> e.value, owned |-> e \in t.owned] : e \in t.new}
         /\ jobs' = Append(jobs, [fetched |-> Cardinality(t.got), imported |-> Imported(t),
                                  duplicates |-> Cardinality(t.got) - Imported(t),
                                  unattributed |-> Cardinality(t.got \ t.owned)])
  /\ tx' = [tx EXCEPT ![s] = Idle]
  /\ UNCHANGED <<today, views, named, calls>>

\* The request fails: a deadlock victim, a lost connection.
Rollback(s) ==
  /\ tx[s] # Idle
  /\ tx' = [tx EXCEPT ![s] = Idle]
  /\ UNCHANGED <<today, views, named, rows, jobs, calls>>

Next ==
  \/ Midnight
  \/ \E u \in Utms : Visit(u) \/ NameCampaign(u)
  \/ \E s \in Sessions :
       \/ \E span \in Spans : FetchEvents(s, span)
       \/ IngestEvents(s) \/ Commit(s) \/ Rollback(s)
       \/ \E e \in (IF tx[s].kind = "insert" THEN tx[s].todo ELSE {}) : InsertRow(s, e)

Spec == Init /\ [][Next]_vars
-----------------------------------------------------------------------------
\* The counts of the operator dashboard reconcile with the table: what the jobs
\* say they imported is exactly what analytic_event holds, also when the inserts
\* of syncs of the same window overlap row by row, wait for each other or are
\* rolled back.
ImportsReconcile ==
  LET Upto[i \in 0..Len(jobs)] == IF i = 0 THEN 0 ELSE Upto[i - 1] + jobs[i].imported
  IN  Upto[Len(jobs)] = Cardinality(rows)

\* "Given the same event is fetched twice via overlapping windows, when ingested,
\* then dedup keeps a single row": no traffic is held by two rows.
SingleRowPerTraffic ==
  \A r, q \in rows :
    r # q /\ r.id[3] = q.id[3] /\ r.id[4] = q.id[4]
      => \A d \in (r.id[1]..r.id[2]) \cap (q.id[1]..q.id[2]) : d \notin 1..MaxDay \/ views[<<d, r.id[3]>>] = 0
=============================================================================
