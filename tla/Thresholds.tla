----------------------------- MODULE Thresholds -----------------------------
(***************************************************************************)
(* The spend gates of the approval workflow (E07-S03, E07-S04): the        *)
(* tenant's approval settings (app/api/approval_settings.py), the snapshot *)
(* of them a submission writes on each asset (app/orchestrator/            *)
(* state_machine.py), the gates the approval API evaluates on that         *)
(* snapshot and on the campaign's budget (app/api/approvals.py), and the   *)
(* two other ways to approve: the review page (app/api/ui/approvals.py)    *)
(* and the assistant (app/assistant/tools.py).                             *)
(*                                                                         *)
(* A request of a session s is one transaction: Load... reads the rows and *)
(* makes the checks, Commit... writes.  The campaign is before launch all  *)
(* along, so its budget may be edited at any time.                         *)
(***************************************************************************)
EXTENDS Integers, FiniteSets

CONSTANTS
  Sessions,    \* requests that may be open at a time
  Assets,      \* the campaign's content assets
  NoAmount,    \* admin_required_above_amount is null
  Bodies,      \* the bodies of PUT /api/approval-settings
  Budgets,     \* the budgets a PATCH of the campaign may set
  MaxCalls     \* bound: requests in a behaviour

VARIABLES
  settings,    \* the tenant_approval_settings row, or NoRow
  budget,      \* campaign.budget_total and currency
  asset,       \* each asset: status, compliance.blocked, approval_threshold
  tx,          \* the open transaction of each session
  calls,
  raced,       \* history: a request committed while another was open
  asked,       \* history: the body of the last PUT that committed
  log          \* history: the approvals, with what was in force at the commit

vars == <<settings, budget, asset, tx, calls, raced, asked, log>>

Idle == [op |-> "none"]

NoRow == [above |-> NoAmount, cap |-> 0, currency |-> "none"]

\* What the code falls back on when the tenant has no row.
Defaults == [above |-> NoAmount, cap |-> 0, currency |-> "USD"]

\* An asset that was never submitted: its gates see the defaults.
Unsubmitted == Defaults

Init ==
  /\ settings = NoRow
  /\ budget \in Budgets
  /\ asset \in [Assets -> [status : {"drafted"}, blocked : BOOLEAN, snap : {Unsubmitted}]]
  /\ tx = [s \in Sessions |-> Idle]
  /\ calls = 0
  /\ raced = FALSE
  /\ asked = NoRow
  /\ log = {}

Begin(s, t) ==
  /\ tx[s] = Idle
  /\ calls < MaxCalls
  /\ calls' = calls + 1
  /\ tx' = [tx EXCEPT ![s] = t]
  /\ UNCHANGED <<settings, budget, asset, raced, asked, log>>

End(s) ==
  /\ tx' = [tx EXCEPT ![s] = Idle]
  /\ raced' = (raced \/ \E q \in Sessions \ {s} : tx[q] # Idle)
  /\ UNCHANGED calls
-----------------------------------------------------------------------------
\* upsert_approval_settings: the row or its absence is read first ...
LoadPut(s, body) == Begin(s, [op |-> "put", row |-> settings, body |-> body])

\* Mutant of Written: the currency is not among the columns updated.
WrittenButCurrency(new, old, now) ==
  [f \in DOMAIN new |-> IF new[f] # old[f] /\ f # "currency" THEN new[f] ELSE now[f]]

\* The UPDATE of an ORM object: only the columns that differ from the ones read.
Written(new, old, now) ==
  [f \in DOMAIN new |-> IF new[f] # old[f] THEN new[f] ELSE now[f]]

\* ... and then inserted (the tenant_id is unique) or updated.
CommitPut(s) ==
  /\ tx[s].op = "put"
  /\ tx[s].row = NoRow => settings = NoRow
  /\ settings' = IF tx[s].row = NoRow THEN tx[s].body
                 ELSE Written(tx[s].body, tx[s].row, settings)
  /\ asked' = tx[s].body
  /\ End(s)
  /\ UNCHANGED <<budget, asset, log>>

\* patch_campaign, for the two fields the gates look at.
LoadPatch(s, b) == Begin(s, [op |-> "patch", row |-> budget, body |-> b])

CommitPatch(s) ==
  /\ tx[s].op = "patch"
  /\ budget' = Written(tx[s].body, tx[s].row, budget)
  /\ End(s)
  /\ UNCHANGED <<settings, asset, asked, log>>
-----------------------------------------------------------------------------
\* Mutant of Submitted: what is in review already is submitted again.
SubmittedAgain == {a \in Assets : asset[a].status \in {"drafted", "pending_approval"}}

\* The rows _flip_drafted_assets_to_pending_approval selects.
Submitted == {a \in Assets : asset[a].status = "drafted"}

\* submit_for_approval's on_enter: it reads the rows and the settings ...
LoadSubmit(s) ==
  /\ Submitted # {}
  /\ Begin(s, [op |-> "submit", rows |-> [a \in Submitted |-> asset[a]],
               snap |-> IF settings = NoRow THEN Defaults ELSE settings])

\* ... and stamps them on each row, with the metadata it read.
CommitSubmit(s) ==
  /\ tx[s].op = "submit"
  /\ asset' = [a \in Assets |->
                 IF a \in DOMAIN tx[s].rows
                 THEN [tx[s].rows[a] EXCEPT !.status = "pending_approval", !.snap = tx[s].snap]
                 ELSE asset[a]]
  /\ End(s)
  /\ UNCHANGED <<settings, budget, asked, log>>

\* A rejection, and the generation that follows it: another draft, which keeps
\* the asset's metadata but for the verdict on the new text.
Reject(a) ==
  /\ asset[a].status = "pending_approval"
  /\ calls < MaxCalls
  /\ calls' = calls + 1
  /\ asset' = [asset EXCEPT ![a].status = "rejected"]
  /\ raced' = (raced \/ \E q \in Sessions : tx[q] # Idle)
  /\ UNCHANGED <<settings, budget, tx, asked, log>>

Redraft(a, blocked) ==
  /\ asset[a].status = "rejected"
  /\ asset' = [asset EXCEPT ![a].status = "drafted", ![a].blocked = blocked]
  /\ raced' = (raced \/ \E q \in Sessions : tx[q] # Idle)
  /\ UNCHANGED <<settings, budget, tx, calls, asked, log>>
-----------------------------------------------------------------------------
\* Mutant of RequiresAdmin: the threshold is one unit too lenient.
RequiresAdminLate(snap, b) ==
  /\ snap.above # NoAmount
  /\ snap.currency = b.currency
  /\ b.total > snap.above + 1

\* _evaluate_threshold: no threshold, or one in another currency, gates nothing.
RequiresAdmin(snap, b) ==
  /\ snap.above # NoAmount
  /\ snap.currency = b.currency
  /\ b.total > snap.above

\* Mutant of ExceedsCap: a cap of 0 is read as no cap.
ExceedsCapIfSet(snap, b) ==
  snap.currency = b.currency /\ snap.cap # 0 /\ b.total > snap.cap

\* _exceeds_auto_approval_cap.
ExceedsCap(snap, b) == snap.currency = b.currency /\ b.total > snap.cap

\* The checks of the three ways to approve one asset.  Only the API looks at
\* the threshold; the assistant looks for a flag that nothing writes.
Eligible(via, a, role) ==
  CASE via = "api" ->
         /\ asset[a].status \in {"pending_approval", "rejected"}
         /\ ~asset[a].blocked
         /\ RequiresAdmin(asset[a].snap, budget) => role = "admin"
    [] via = "page" ->
         /\ asset[a].status \in {"pending_approval", "rejected", "drafted"}
         /\ ~asset[a].blocked
    [] via = "assistant" ->
         asset[a].status \in {"pending_approval", "rejected", "drafted"}

LoadApprove(s, via, a, role) ==
  /\ Eligible(via, a, role)
  /\ Begin(s, [op |-> "approve", via |-> via, role |-> role, rows |-> {a}])

\* The assets batch_approve approves, by its filters in their order.
Approvable(S, role) ==
  {a \in S : /\ asset[a].status \in {"pending_approval", "rejected"}
             /\ ~asset[a].blocked
             /\ ~ExceedsCap(asset[a].snap, budget)
             /\ RequiresAdmin(asset[a].snap, budget) => role = "admin"}

\* A dry run answers with Approvable(S, role) and writes nothing.
LoadBatch(s, S, role, dry) ==
  Begin(s, [op |-> "approve", via |-> "batch", role |-> role,
            rows |-> IF dry THEN {} ELSE Approvable(S, role)])

\* The status is written, whatever it has become; in a batch each asset has a
\* savepoint of its own, so any part of it may fail and the rest is kept.
CommitApprove(s) ==
  /\ tx[s].op = "approve"
  /\ \E W \in IF tx[s].via = "batch" THEN SUBSET tx[s].rows ELSE {tx[s].rows} :
       /\ asset' = [a \in Assets |-> IF a \in W THEN [asset[a] EXCEPT !.status = "approved"]
                                                ELSE asset[a]]
       /\ log' = log \cup
            {[asset |-> a, via |-> tx[s].via, role |-> tx[s].role, budget |-> budget,
              row |-> asset[a]] : a \in W}
  /\ End(s)
  /\ UNCHANGED <<settings, budget, asked>>

\* A failed request, or a unique violation: nothing is written.
Rollback(s) ==
  /\ tx[s] # Idle
  /\ tx' = [tx EXCEPT ![s] = Idle]
  /\ UNCHANGED <<settings, budget, asset, calls, raced, asked, log>>

Next ==
  \/ \E s \in Sessions :
       \/ \E body \in Bodies : LoadPut(s, body)
       \/ \E b \in Budgets : LoadPatch(s, b)
       \/ LoadSubmit(s)
       \/ \E role \in {"manager", "admin"} :
            \/ \E a \in Assets, via \in {"api", "page", "assistant"} :
                 LoadApprove(s, via, a, role)
            \/ \E S \in SUBSET Assets \ {{}}, dry \in BOOLEAN : LoadBatch(s, S, role, dry)
       \/ CommitPut(s) \/ CommitPatch(s) \/ CommitSubmit(s) \/ CommitApprove(s)
       \/ Rollback(s)
  \/ \E a \in Assets : Reject(a) \/ \E blocked \in BOOLEAN : Redraft(a, blocked)

Spec == Init /\ [][Next]_vars
-----------------------------------------------------------------------------
\* d was made above the threshold its asset was submitted under.
Above(d) ==
  /\ d.row.snap.above # NoAmount
  /\ d.row.snap.currency = d.budget.currency
  /\ d.budget.total > d.row.snap.above

\* With requests one at a time, an asset of a campaign whose budget is above the
\* threshold in force at its submission is approved by the API, singly or in a
\* batch, only for an admin: whatever the settings and the budget became between
\* the submission and the decision.
GateHolds ==
  raced \/ \A d \in log : d.via \in {"api", "batch"} /\ Above(d) => d.role = "admin"

\* With requests one at a time, a batch never approves a flagged asset, and none
\* of a campaign whose budget, in the currency of the settings, exceeds the
\* auto-approval cap, which is 0 until an admin raises it.
BatchWithinCap ==
  raced \/ \A d \in log :
    d.via = "batch" =>
      /\ ~d.row.blocked
      /\ d.row.snap.currency = d.budget.currency => d.budget.total <= d.row.snap.cap

\* With requests one at a time, the settings are what the last PUT asked for:
\* every field of it, and not a mixture of two bodies.
SettingsAsAsked == raced \/ settings = asked

\* With requests one at a time, an asset in review keeps the thresholds it was
\* submitted under ("in-flight approvals continue under the threshold at
\* submission time"): they change only when it goes from drafted into review.
SnapshotFrozenStep ==
  \A a \in Assets :
    asset'[a].snap # asset[a].snap => raced' \/ asset[a].status = "drafted"

\* E07-S04: "assets attached to campaigns above the threshold require an `admin`
\* (not `manager`) decision", whichever way it was made.
AboveNeedsAdmin == raced \/ \A d \in log : Above(d) => d.role = "admin"
=============================================================================
