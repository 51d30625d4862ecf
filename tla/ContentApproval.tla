-------------------------- MODULE ContentApproval --------------------------
(***************************************************************************)
(* Content production and approval of one campaign, from the commit of     *)
(* start_content to ready_to_launch: the generate_asset task handler       *)
(* (app/agents/content_creator.py), the review endpoints (app/api/         *)
(* approvals.py, content_assets.py, ui/approvals.py), the assistant's      *)
(* review tools (app/assistant/tools.py) and the manual transitions        *)
(* (app/api/campaigns.py).                                                 *)
(*                                                                         *)
(* Each of them is one READ COMMITTED transaction of a session p, run in   *)
(* the steps other transactions can see or disturb:                        *)
(*                                                                         *)
(*   Load     session.get of the asset and the campaign, and the checks    *)
(*            made on those objects; they are not read again               *)
(*   Generate the flush of status = generating: p now holds the row lock   *)
(*   Flush    the UPDATE of the operation's own rows (it waits for their   *)
(*            locks), then the guard of the follow-up transition, a query  *)
(*            over the committed rows and p's own writes                   *)
(*   Enter    the UPDATE of the campaign row (it waits for its lock) and   *)
(*            the on_enter query                                           *)
(*   Commit   the UPDATEs of on_enter (they wait for the rows' locks) and  *)
(*            the commit: every write of p becomes visible                 *)
(*                                                                         *)
(* The ORM writes only changed columns and compares no version: the last   *)
(* writer of a column wins.                                                *)
(***************************************************************************)
EXTENDS Integers, FiniteSets, Lifecycle

CONSTANTS
  Assets,            \* the campaign's content_asset rows
  Sessions,          \* transactions that may be open at a time
  Ops,               \* the operations in use, a subset of Operations
  MaxTasks,          \* bound: open generate_asset tasks of an asset
  MaxRedeliveries,   \* bound: finished generate_asset tasks that run again
  MaxDispatches      \* bound: dispatch tasks enqueued for an asset

\* Operations on one asset.
ReviewOps ==
  {"approve", "reject", "regenerate", "clear", "uiApprove", "uiReject",
   "assistantApprove", "assistantReject"}

\* POST /campaigns/{id}/transitions/{name}.
Transitions ==
  {"submit_for_approval", "start_launch", "regenerate_after_rejection"}

Operations == {"generate", "assistantApproveAll"} \cup ReviewOps \cup Transitions

ASSUME ApprovalAssumption ==
  /\ Ops \subseteq Operations
  /\ MaxTasks \in Nat \ {0}
  /\ MaxRedeliveries \in Nat
  /\ MaxDispatches \in Nat \ {0}

VARIABLES
  campaign,      \* campaign.status
  status,        \* content_asset.status of each asset
  required,      \* content_asset.is_required
  blocked,       \* extra_metadata.compliance.blocked
  tasks,         \* open generate_asset tasks of each asset
  tx,            \* the open transaction of each session
  content,       \* history: the asset has had a generated draft
  decided,       \* history: an approved decision is in approval_decision_log
  dispatches,    \* history: dispatch tasks enqueued for the asset
  redeliveries   \* history: generate_asset tasks that ran again

table == <<campaign, status, required, blocked>>
ghosts == <<content, decided, dispatches, redeliveries>>
vars == <<table, tasks, tx, ghosts>>

NoTx == [op |-> "none"]

Open(p) == tx[p].op # "none"

\* The stages at which a transaction holds the locks of its own rows.
Locked == {"generating", "flushed", "entered"}

\* The rows t updated itself; on_enter's rows are locked and written at Commit.
\* regenerate of an asset that is already `requested` updates nothing.
LockedRows(t) ==
  {a \in t.assets : t.stage = "generating" \/ t.cols[a] # {}}

\* Session p's UPDATE of the rows in S need not wait.
LockFree(p, S) ==
  \A q \in Sessions \ {p} :
    Open(q) /\ tx[q].stage \in Locked => LockedRows(tx[q]) \cap S = {}

\* No other session has updated the campaign row and not committed.
CampaignLockFree(p) ==
  \A q \in Sessions \ {p} : Open(q) => tx[q].stage # "entered"

\* Column col of the table, with transaction t's uncommitted writes to it.
Overlay(t, col, table_column, written) ==
  [a \in Assets |->
     IF a \in DOMAIN t.cols /\ col \in t.cols[a] THEN written[a] ELSE table_column[a]]

\* What a query of t sees: the committed rows and its own writes.  Its campaign
\* is the object it loaded, which a query does not refresh.
View(t) ==
  [campaign |-> t.campaign,
   status   |-> Overlay(t, "status", status, t.status),
   required |-> Overlay(t, "required", required, [a \in Assets |-> FALSE]),
   blocked  |-> Overlay(t, "blocked", blocked, t.blocked)]
-----------------------------------------------------------------------------
\* seed_assets_for_campaign, run by start_content: a row per touchpoint and one
\* generation task per row.
Init ==
  /\ campaign = "content_in_production"
  /\ status = [a \in Assets |-> "requested"]
  /\ required = [a \in Assets |-> TRUE]
  /\ blocked = [a \in Assets |-> FALSE]
  /\ tasks = [a \in Assets |-> 1]
  /\ tx = [p \in Sessions |-> NoTx]
  /\ content = [a \in Assets |-> FALSE]
  /\ decided = [a \in Assets |-> FALSE]
  /\ dispatches = [a \in Assets |-> 0]
  /\ redeliveries = 0

\* The checks an operation makes on the asset and campaign it loaded; a failed
\* check answers 409 or 422 and nothing is written.  First the approval API; its
\* role threshold (403) is one more way to refuse.
ReviewEligible(op, a) ==
  IF op = "approve" THEN status[a] \in {"pending_approval", "rejected"} /\ ~blocked[a]
                    ELSE status[a] = "pending_approval"

\* The content API: regenerate_asset and clear_compliance_block.
ContentEligible(op, a) ==
  IF op = "regenerate" THEN campaign \in {"content_in_production", "approval_pending"}
                       ELSE blocked[a]

\* Mutant of PageEligible: the compliance flag is not looked at.
PageEligibleByStatus(op, a) == status[a] \in {"pending_approval", "rejected", "drafted"}

\* The review pages.
PageEligible(op, a) ==
  IF op = "uiApprove"
  THEN status[a] \in {"pending_approval", "rejected", "drafted"} /\ ~blocked[a]
  ELSE status[a] \in {"pending_approval", "drafted"}

\* The assistant: it looks for `compliance_violations`, which nothing writes.
AssistantEligible(op, a) ==
  IF op = "assistantApprove" THEN status[a] \in {"drafted", "pending_approval", "rejected"}
                             ELSE status[a] \in {"drafted", "pending_approval"}

Eligible(op, a) ==
  CASE op \in {"approve", "reject"} -> ReviewEligible(op, a)
    [] op \in {"regenerate", "clear"} -> ContentEligible(op, a)
    [] op \in {"uiApprove", "uiReject"} -> PageEligible(op, a)
    [] op \in {"assistantApprove", "assistantReject"} -> AssistantEligible(op, a)

\* The transaction of op on the rows in S, as loaded: the objects' columns, the
\* columns written (none), the rows locked (none), the follow-up transition and
\* the assets to enqueue a dispatch task for.
Loaded(op, S) ==
  [op |-> op, stage |-> "loaded", assets |-> S, campaign |-> campaign,
   status |-> [a \in S |-> status[a]], blocked |-> [a \in S |-> blocked[a]],
   cols |-> [a \in S |-> {}], next |-> "none", dispatch |-> {}]

Begin(p, t) ==
  /\ ~Open(p)
  /\ t.op \in Ops
  /\ tx' = [tx EXCEPT ![p] = t]
  /\ UNCHANGED <<table, tasks, ghosts>>

\* A worker that claimed one of a's tasks starts generate_asset.
LoadGenerate(p, a) ==
  /\ tasks[a] > Cardinality({q \in Sessions : Open(q) /\ tx[q].op = "generate"
                                                      /\ tx[q].assets = {a}})
  /\ Begin(p, Loaded("generate", {a}))

LoadReview(p, op, a) ==
  /\ Eligible(op, a)
  /\ op \in {"reject", "regenerate"} => tasks[a] < MaxTasks
  /\ Begin(p, Loaded(op, {a}))

\* approve_all_content reads every drafted or pending_approval row.
LoadApproveAll(p) ==
  LET S == {a \in Assets : status[a] \in {"drafted", "pending_approval"}}
  IN  S # {} /\ Begin(p, Loaded("assistantApproveAll", S))

\* apply_transition.
LoadTransition(p, name) == Begin(p, Loaded(name, {}))
-----------------------------------------------------------------------------
\* The operations that end with try_advance_after_approval.
Advancing ==
  {"uiApprove", "uiReject", "assistantApprove", "assistantReject", "assistantApproveAll"}

\* Mutants of FollowUp: a generation never submits; an approval never launches.
FollowUpOfReviews(op, v) ==
  IF op = "approve" /\ Applies("start_launch", v) THEN "start_launch" ELSE "none"

FollowUpOfGeneration(op, v) ==
  IF op = "generate" /\ Applies("submit_for_approval", v) THEN "submit_for_approval" ELSE "none"

\* The transition an operation tries next, when the state machine accepts it.
FollowUp(op, v) ==
  LET try(name) == IF Applies(name, v) THEN name ELSE "none"
  IN  CASE op = "generate" -> try("submit_for_approval")
        [] op = "approve" -> try("start_launch")
        [] op = "reject" -> try("regenerate_after_rejection")
        [] op \in Advancing -> IF v.campaign = "content_in_production"
                               THEN try("submit_for_approval")
                               ELSE try("start_launch")
        [] op \in Transitions -> try(op)
        [] OTHER -> "none"

\* Transaction t, having updated its own rows, evaluates its follow-up.
Flushed(t) == [t EXCEPT !.stage = "flushed", !.next = FollowUp(t.op, View(t))]

\* t with its assets' status set; a column that keeps its value is not written.
SetStatus(t, s) ==
  [t EXCEPT !.status = [a \in t.assets |-> s],
            !.cols = [a \in t.assets |-> IF t.status[a] = s THEN {} ELSE {"status"}]]

WithColumn(t, col) == [t EXCEPT !.cols = [a \in t.assets |-> @[a] \cup {col}]]

\* Writing extra_metadata writes the whole document, as it was loaded but for the
\* keys changed.
WithMetadata(t) == WithColumn(t, "blocked")

\* approve_asset; editing fields rewrites extra_metadata.
Approved(t, edited) ==
  IF edited THEN WithMetadata(SetStatus(t, "approved")) ELSE SetStatus(t, "approved")

\* reject_asset of the API.
Rejected(t) == SetStatus(t, "rejected")

\* reject_via_ui: the variant is dropped from the campaign (is_required = false).
Dropped(t) == WithColumn(SetStatus(t, "rejected"), "required")

\* reject_asset of the assistant: a reason goes into extra_metadata.
DroppedByAssistant(t, reason) == IF reason THEN WithMetadata(Dropped(t)) ELSE Dropped(t)

\* regenerate_asset.
Regenerated(t) == SetStatus(t, "requested")

\* clear_compliance_block.
Cleared(t) == WithMetadata([t EXCEPT !.blocked = [a \in t.assets |-> FALSE]])

\* The updates of an operation; extra: the request carries edited fields or a
\* reason.
Reviewed(t, extra) ==
  CASE t.op \in {"approve", "uiApprove"} -> Approved(t, extra)
    [] t.op \in {"assistantApprove", "assistantApproveAll"} -> SetStatus(t, "approved")
    [] t.op = "reject" -> Rejected(t)
    [] t.op = "uiReject" -> Dropped(t)
    [] t.op = "assistantReject" -> DroppedByAssistant(t, extra)
    [] t.op = "regenerate" -> Regenerated(t)
    [] t.op = "clear" -> Cleared(t)
    [] t.op \in Transitions -> t

\* These load the campaign after the UPDATE of the asset.
LoadsCampaignLate == {"uiReject", "assistantApprove", "assistantReject"}

Step(p, t) ==
  /\ tx' = [tx EXCEPT ![p] = t]
  /\ UNCHANGED <<table, tasks, ghosts>>

Flush(p) ==
  /\ Open(p)
  /\ tx[p].stage = "loaded"
  /\ tx[p].op # "generate"
  /\ \E extra \in BOOLEAN :
       LET now == IF tx[p].op \in LoadsCampaignLate
                  THEN [tx[p] EXCEPT !.campaign = campaign] ELSE tx[p]
           t == Flushed(Reviewed(now, extra))
       IN  /\ extra => t.op \in {"approve", "uiApprove", "assistantReject"}
           /\ t.op \in Transitions => t.next # "none"
           /\ LockFree(p, LockedRows(t))
           /\ Step(p, t)

\* generate_asset flushes status = generating.
Generate(p) ==
  /\ Open(p)
  /\ tx[p].stage = "loaded"
  /\ tx[p].op = "generate"
  /\ LockFree(p, tx[p].assets)
  /\ Step(p, [tx[p] EXCEPT !.stage = "generating",
                           !.status = [a \in tx[p].assets |-> "generating"]])

\* _run_generation returns: a draft, flagged by the compliance check or not, then
\* _maybe_submit_for_approval.
Draft(p) ==
  /\ Open(p)
  /\ tx[p].stage = "generating"
  /\ \E flagged \in BOOLEAN :
       Step(p, Flushed([tx[p] EXCEPT
                 !.status = [a \in tx[p].assets |-> "drafted"],
                 !.blocked = [a \in tx[p].assets |-> flagged],
                 !.cols = [a \in tx[p].assets |-> {"status", "blocked"}]]))

\* _run_generation raises ComplianceCheckError: the asset is marked failed, its
\* extra_metadata as loaded gets a compliance_error, and the handler returns
\* without a submission check.
DraftUnchecked(p) ==
  /\ Open(p)
  /\ tx[p].stage = "generating"
  /\ Step(p, [tx[p] EXCEPT
       !.stage = "flushed",
       !.status = [a \in tx[p].assets |-> "failed"],
       !.cols = [a \in tx[p].assets |-> {"status", "blocked"}]])

\* The view after the follow-up transition; try_advance_after_approval goes on
\* from approval_pending to start_launch.
Entered(t) ==
  LET v == Applied(t.next, View(t))
  IN  IF t.op \in Advancing /\ Applies("start_launch", v)
      THEN Applied("start_launch", v) ELSE v

\* The campaign UPDATE and on_enter.  The submission rewrites extra_metadata of
\* the rows it flips; scheduling does when it attaches a schedule_warning.
Enter(p) ==
  LET t == tx[p]
      v == Entered(t)
      changed == {a \in Assets : v.status[a] # View(t).status[a]}
      scheduled == {a \in changed : v.status[a] = "scheduled"}
      touched == t.assets \cup changed
  IN  /\ Open(p)
      /\ t.stage = "flushed"
      /\ t.next # "none"
      /\ CampaignLockFree(p)
      /\ \A a \in scheduled : dispatches[a] < MaxDispatches
      /\ \E warned \in SUBSET scheduled :
           LET cols(a) == IF a \in scheduled \ warned THEN {"status"} ELSE {"status", "blocked"}
           IN  Step(p, [t EXCEPT
                 !.stage = "entered",
                 !.campaign = v.campaign,
                 !.dispatch = scheduled,
                 !.status = [a \in touched |-> IF a \in changed THEN v.status[a] ELSE @[a]],
                 !.blocked = [a \in touched |-> IF a \in t.assets THEN @[a] ELSE blocked[a]],
                 !.cols = [a \in touched |->
                             (IF a \in t.assets THEN @[a] ELSE {})
                             \cup (IF a \in changed THEN cols(a) ELSE {})]])

\* A committed generation task is completed, or it runs again because its worker
\* died before complete().
TaskDone(a) ==
  \/ /\ tasks' = [tasks EXCEPT ![a] = @ - 1]
     /\ UNCHANGED redeliveries
  \/ /\ redeliveries < MaxRedeliveries
     /\ redeliveries' = redeliveries + 1
     /\ UNCHANGED tasks

Commit(p) ==
  LET t == tx[p]
  IN  /\ Open(p)
      /\ t.stage = "entered" \/ (t.stage = "flushed" /\ t.next = "none")
      /\ LockFree(p, DOMAIN t.cols)
      /\ campaign' = IF t.stage = "entered" THEN t.campaign ELSE campaign
      /\ status' = View(t).status
      /\ required' = View(t).required
      /\ blocked' = View(t).blocked
      /\ content' = [a \in Assets |->
           content[a] \/ (t.op = "generate" /\ a \in t.assets /\ t.status[a] # "failed")]
      /\ decided' = [a \in Assets |->
           decided[a] \/ (t.op \in {"approve", "uiApprove"} /\ a \in t.assets)]
      /\ dispatches' = [a \in Assets |->
           IF a \in t.dispatch THEN dispatches[a] + 1 ELSE dispatches[a]]
      /\ CASE t.op = "generate" -> \E a \in t.assets : TaskDone(a)
           [] t.op \in {"reject", "regenerate"} ->
                /\ tasks' = [a \in Assets |->
                               IF a \in t.assets THEN tasks[a] + 1 ELSE tasks[a]]
                /\ UNCHANGED redeliveries
           [] OTHER -> UNCHANGED <<tasks, redeliveries>>
      /\ tx' = [tx EXCEPT ![p] = NoTx]

\* The transaction is rolled back: a refused transition, an exception, a deadlock
\* victim, a lost connection.
Abort(p) ==
  /\ Open(p)
  /\ tx' = [tx EXCEPT ![p] = NoTx]
  /\ UNCHANGED <<table, tasks, ghosts>>

\* A generation raises on its last attempt: fail() closes the task.
Exhaust(p) ==
  /\ Open(p)
  /\ tx[p].op = "generate"
  /\ tasks' = [a \in Assets |-> IF a \in tx[p].assets THEN tasks[a] - 1 ELSE tasks[a]]
  /\ tx' = [tx EXCEPT ![p] = NoTx]
  /\ UNCHANGED <<table, ghosts>>

Next ==
  \E p \in Sessions :
    \/ \E a \in Assets : LoadGenerate(p, a) \/ \E op \in ReviewOps : LoadReview(p, op, a)
    \/ LoadApproveAll(p)
    \/ \E name \in Transitions : LoadTransition(p, name)
    \/ Flush(p) \/ Generate(p) \/ Draft(p) \/ DraftUnchecked(p)
    \/ Enter(p) \/ Commit(p) \/ Abort(p) \/ Exhaust(p)

Spec == Init /\ [][Next]_vars
-----------------------------------------------------------------------------
\* Nothing empty is ever reviewed: an asset past generation has a draft, and so
\* has every required asset of a campaign past content_in_production, although
\* the submission check and the flip to pending_approval are separate queries
\* (state_machine.py, submit_for_approval).
ReviewedHasContent ==
  \A a \in Assets :
    \/ status[a] \in {"drafted", "pending_approval", "approved", "scheduled"}
    \/ required[a] /\ campaign \in {"approval_pending", "ready_to_launch"}
    => content[a]

\* "No asset reaches the Channel Distribution agent without an `approved`
\* decision logged for it" (docs/backlog/stories/E07-approval-workflow.md).
DecisionBeforeDispatch ==
  /\ \A a \in Assets : dispatches[a] > 0 => decided[a]
  /\ campaign = "ready_to_launch" => \A a \in Assets : required[a] => decided[a]

\* approve refuses a compliance-blocked asset "rather than silently approving a
\* flagged draft" (api/approvals.py, approve_asset).
NoFlaggedApproval ==
  \A a \in Assets : status[a] \in {"approved", "scheduled"} => ~blocked[a]

\* Nothing is running or waiting to run.
Quiet == (\A p \in Sessions : ~Open(p)) /\ (\A a \in Assets : tasks[a] = 0)

\* The campaign's content is ready for approval and has not been submitted.
AwaitsSubmission ==
  /\ campaign = "content_in_production"
  /\ \E a \in Assets : required[a]
  /\ \A a \in Assets : required[a] => status[a] = "drafted" /\ ~blocked[a]

\* "Given all required assets reach `drafted`, when written, then the campaign
\* moves to `approval_pending`" (E06-content-creator.md): the work is never all
\* done with the campaign left in content_in_production.
DraftedMeansSubmitted == ~(Quiet /\ AwaitsSubmission)

\* The same, of a step: whatever completes the drafts submits them.  Only
\* clear_compliance_block does not, which unblocks the last draft "so the campaign
\* can advance to approval" and leaves the advance to someone else.
OnlyClearingLeavesUnsubmitted ==
  AwaitsSubmission' => AwaitsSubmission \/ \E p \in Sessions : tx[p].op = "clear"

\* "If every required asset is approved, drive the campaign forward"
\* (api/approvals.py, _maybe_advance_to_ready_to_launch).
ApprovedMeansLaunched ==
  ~ /\ Quiet
    /\ campaign = "approval_pending"
    /\ \A a \in Assets : required[a] /\ status[a] = "approved"

\* start_launch hands each asset to distribution at most once.
ScheduledOnce == \A a \in Assets : dispatches[a] <= 1
=============================================================================
