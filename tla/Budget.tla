------------------------------- MODULE Budget -------------------------------
(***************************************************************************)
(* Budget shifts and spend: generate_recommendations of                    *)
(* app/analytics/recommendations.py, the accept and reject endpoints of    *)
(* app/api/analytics.py, and app/analytics/spend_reconciliation.py with    *)
(* its endpoints in app/api/custom_kpis.py.                                *)
(*                                                                         *)
(* Amounts are in cents.  plan is the allocation of the accepted strategy, *)
(* floor the min_daily_spend of a channel (0: none).  allocated and spent  *)
(* are the columns of campaign_channel_budget, recs the table              *)
(* optimisation_recommendation, recon[p] the spend_reconciliation row of   *)
(* period p; its field final is history: the campaign was completed when   *)
(* the row was made.  Unset is a missing row.  raced remembers that two    *)
(* transactions were ever open at once.                                    *)
(***************************************************************************)
EXTENDS Integers, Sequences, FiniteSets, FiniteSetsExt

CONSTANTS Sessions, Channels, plan, floor, Snapshots, Amounts, Periods, Unset, MaxRecs, MaxCalls

VARIABLES allocated, spent, recs, recon, status, calls, raced, tx

vars == <<allocated, spent, recs, recon, status, calls, raced, tx>>

Idle == [kind |-> "none"]

Init ==
  /\ allocated = [c \in Channels |-> Unset] /\ spent = [c \in Channels |-> 0]
  /\ recs = <<>> /\ recon = [p \in Periods |-> Unset]
  /\ status = "live" /\ calls = 0 /\ raced = FALSE
  /\ tx = [s \in Sessions |-> Idle]

Overlaps == raced \/ \E o \in Sessions : tx[o] # Idle

Begin(s, t) ==
  /\ tx[s] = Idle /\ calls < MaxCalls /\ calls' = calls + 1
  /\ tx' = [tx EXCEPT ![s] = t]
  /\ raced' = Overlaps

End(s) == tx' = [tx EXCEPT ![s] = Idle] /\ UNCHANGED <<calls, raced>>
-----------------------------------------------------------------------------
\* Conversions are the outcome as soon as the campaign has one, clicks before.
OutcomesOf(m) ==
  IF \E c \in Channels : m[c].conversions > 0 THEN [c \in Channels |-> m[c].conversions]
  ELSE [c \in Channels |-> m[c].clicks]

\* The cost per outcome of c is at most k tenths of that of d.
Cheaper(m, c, d, k) == 10 * m[c].spend * OutcomesOf(m)[d] <= k * m[d].spend * OutcomesOf(m)[c]

\* Decimal.quantize of n / d: to the nearest, and to the even one of two.
RoundHalfEven(n, d) ==
  LET below == n \div d
      rest  == 2 * (n % d)
  IN  IF rest < d \/ (rest = d /\ below % 2 = 0) THEN below ELSE below + 1

\* Mutant of Moved: the floor of the laggard is ignored.
MovedBelowFloor(c) == 3 * plan[c] + 0 * floor[c]

\* 30% of the laggard's allocation, less where it would fall below its floor, in
\* tenths of a cent: it is not rounded.
Moved(c) ==
  LET wanted == 3 * plan[c]
  IN  IF floor[c] = 0 THEN wanted ELSE Max({0, Min({wanted, 10 * (plan[c] - floor[c])})})

\* _try_budget_shift: from the dearest to the cheapest channel with spend and
\* outcomes, when the ratio is 1.2 or more and 10% or more would move.  Each of the
\* new shares is rounded on its own.
BudgetShifts(m) ==
  LET eligible == {c \in Channels : m[c].spend > 0 /\ OutcomesOf(m)[c] > 0}
      leaders == {c \in eligible : \A d \in eligible : Cheaper(m, c, d, 10)}
      laggards == {c \in eligible : \A d \in eligible : Cheaper(m, d, c, 10)}
  IN  {[from |-> p[1], to |-> p[2],
        newFrom |-> RoundHalfEven(10 * plan[p[1]] - Moved(p[1]), 10),
        newTo |-> RoundHalfEven(10 * plan[p[2]] + Moved(p[1]), 10), status |-> "pending"] :
         p \in {q \in laggards \X leaders :
                         /\ q[1] # q[2] /\ 12 * m[q[2]].spend * OutcomesOf(m)[q[1]]
                                             <= 10 * m[q[1]].spend * OutcomesOf(m)[q[2]]
                         /\ plan[q[1]] > 0 /\ Moved(q[1]) >= plan[q[1]]}}

\* _already_pending
AlreadyPending(rec) ==
  \E i \in DOMAIN recs : recs[i].status = "pending" /\ recs[i].from = rec.from /\ recs[i].to = rec.to

GenerateRecommendations ==
  /\ Len(recs) < MaxRecs
  /\ \E m \in Snapshots : \E rec \in BudgetShifts(m) :
       ~AlreadyPending(rec) /\ recs' = Append(recs, rec)
  /\ UNCHANGED <<allocated, spent, recon, status, calls, raced, tx>>

\* Mutant of Decidable: an applied recommendation can still be rejected.
DecidableAlways(i, kind) == recs[i].status = "pending" \/ kind = "reject"

\* accept_recommendation, of the API or the assistant, and reject_recommendation
\* refuse anything but pending.
Decidable(i, kind) == recs[i].status = "pending" /\ kind \in {"accept", "reject"}

LoadDecision(s, kind, i) ==
  /\ Decidable(i, kind) /\ Begin(s, [kind |-> kind, rec |-> i])
  /\ UNCHANGED <<allocated, spent, recs, recon, status>>

\* _apply_budget_shift, and the status.
CommitAccept(s) ==
  /\ tx[s].kind = "accept"
  /\ LET r == recs[tx[s].rec]
     IN  allocated' = [allocated EXCEPT ![r.from] = r.newFrom, ![r.to] = r.newTo]
  /\ recs' = [recs EXCEPT ![tx[s].rec].status = "applied"]
  /\ End(s) /\ UNCHANGED <<spent, recon, status>>

CommitReject(s) ==
  /\ tx[s].kind = "reject"
  /\ recs' = [recs EXCEPT ![tx[s].rec].status = "rejected"]
  /\ End(s) /\ UNCHANGED <<allocated, spent, recon, status>>
-----------------------------------------------------------------------------
Complete ==
  /\ status = "live" /\ status' = "completed" /\ raced' = Overlaps
  /\ UNCHANGED <<allocated, spent, recs, recon, calls, tx>>

Settled == {p \in Periods : recon[p] # Unset}

\* Mutant of SpendReadOnly: the first period is looked at, not the latest.
SpendReadOnlyByFirst ==
  status = "completed" /\ Settled # {} /\ recon[Min(Settled)].status = "matched"

\* _is_spend_read_only: completed, and the latest reconciliation matched.
SpendReadOnly ==
  status = "completed" /\ Settled # {} /\ recon[Max(Settled)].status = "matched"

\* ingest_platform_spend: the check, then an upsert per record.
LoadSpend(s) ==
  /\ ~SpendReadOnly
  /\ \E c \in Channels, n \in Amounts : Begin(s, [kind |-> "spend", channel |-> c, amount |-> n])
  /\ UNCHANGED <<allocated, spent, recs, recon, status>>

CommitSpend(s) ==
  /\ tx[s].kind = "spend"
  /\ spent' = [spent EXCEPT ![tx[s].channel] = tx[s].amount]
  /\ allocated' = [allocated EXCEPT ![tx[s].channel] = IF @ = Unset THEN 0 ELSE @]
  /\ End(s) /\ UNCHANGED <<recs, recon, status>>

CommittedTotal == MapThenSumSet(LAMBDA c : spent[c], Channels)

\* _delta_pct, in ten-thousandths of a percent; with nothing committed an invoice
\* is a 100% delta.  The percents and their remainder are taken apart.
DeltaPct(committed, invoiced) ==
  LET percents == 100 * (invoiced - committed)
  IN  IF committed = 0 THEN IF invoiced = 0 THEN 0 ELSE 1000000
      ELSE 10000 * (percents \div committed)
             + RoundHalfEven(10000 * (percents % committed), committed)

\* Mutant of Matches: nothing was committed, so nothing differs.
MatchesZero(committed, invoiced) ==
  committed = 0 \/ DeltaPct(committed, invoiced) \in -10000..10000

\* The rounded delta against MATCH_THRESHOLD_PCT.
Matches(committed, invoiced) == DeltaPct(committed, invoiced) \in -10000..10000

\* run_reconciliation reads the committed total and upserts the period's row.
LoadReconciliation(s) ==
  /\ \E p \in Periods, n \in Amounts \cup {0} :
       Begin(s, [kind |-> "recon", period |-> p, invoiced |-> n, committed |-> CommittedTotal,
                 final |-> status = "completed"])
  /\ UNCHANGED <<allocated, spent, recs, recon, status>>

UpsertReconciliation(s) ==
  /\ tx[s].kind = "recon"
  /\ recon' = [recon EXCEPT ![tx[s].period] =
                 [committed |-> tx[s].committed, invoiced |-> tx[s].invoiced, final |-> tx[s].final,
                  status |-> IF Matches(tx[s].committed, tx[s].invoiced) THEN "matched" ELSE "pending"]]
  /\ End(s) /\ UNCHANGED <<allocated, spent, recs, status>>

\* mark_explained, mark_disputed: from any status.
Resolve(p) ==
  /\ recon[p] # Unset /\ calls < MaxCalls /\ calls' = calls + 1
  /\ \E new \in {"explained", "disputed"} : recon' = [recon EXCEPT ![p].status = new]
  /\ raced' = Overlaps
  /\ UNCHANGED <<allocated, spent, recs, status, tx>>

Next ==
  \/ GenerateRecommendations \/ Complete
  \/ \E p \in Periods : Resolve(p)
  \/ \E s \in Sessions :
       \/ CommitAccept(s) \/ CommitReject(s) \/ LoadSpend(s) \/ CommitSpend(s)
       \/ LoadReconciliation(s) \/ UpsertReconciliation(s)
       \/ \E i \in DOMAIN recs, kind \in {"accept", "reject"} : LoadDecision(s, kind, i)

Spec == Init /\ [][Next]_vars
-----------------------------------------------------------------------------
\* A proposed shift keeps the money of its two channels together within a cent,
\* moves between 10% and 50% of the laggard's allocation within half a cent, and
\* leaves the laggard its floor.
ShiftsBounded ==
  \A i \in DOMAIN recs :
    LET r == recs[i]
        moved == plan[r.from] - r.newFrom
    IN  /\ r.newFrom + r.newTo - plan[r.from] - plan[r.to] \in -1..1
        /\ plan[r.from] <= 10 * moved + 5 /\ 2 * moved <= plan[r.from] + 1
        /\ r.newFrom >= floor[r.from]

\* One decision at a time, the budget only holds what an applied recommendation
\* put there: a rejected one left no trace.
BudgetFromApplied ==
  ~raced => \A c \in Channels :
    allocated[c] \notin {Unset, 0} =>
      \E i \in DOMAIN recs : /\ recs[i].status = "applied"
                             /\ \/ recs[i].from = c /\ recs[i].newFrom = allocated[c]
                                \/ recs[i].to = c /\ recs[i].newTo = allocated[c]

\* One request at a time, a completed campaign whose latest period was matched after
\* it completed has exactly the spend that was reconciled, whatever was reconciled,
\* explained, disputed or ingested in between.
SpendAsReconciled ==
  ~raced /\ status = "completed" /\ Settled # {} =>
    LET latest == recon[Max(Settled)]
    IN  latest.status = "matched" /\ latest.final => latest.committed = CommittedTotal

\* A period is matched only if its invoice is within 1% of the spend that was
\* tracked, or above by what rounds away in the fourth decimal of the percentage,
\* and left pending only if it is not within 1%; also when nothing was tracked.
MatchedWithinOnePercent ==
  \A p \in Periods : recon[p] # Unset =>
    LET tracked == recon[p].committed
        delta   == Max({recon[p].invoiced - tracked, tracked - recon[p].invoiced})
    IN  /\ recon[p].status = "matched" => 100 * delta - tracked <= tracked \div 20000
        /\ recon[p].status = "pending" => 100 * delta > tracked
=============================================================================
