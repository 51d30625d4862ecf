----------------------------- MODULE Lifecycle -----------------------------
(***************************************************************************)
(* The campaign state machine (app/orchestrator/state_machine.py): the     *)
(* guard and the on_enter callback of each transition, as operators on the *)
(* rows a database session sees.  A view v is a record                     *)
(*                                                                         *)
(*   [campaign |-> the campaign's status as the session holds it,          *)
(*    status   |-> content_asset.status of each asset of the campaign,     *)
(*    required |-> content_asset.is_required,                              *)
(*    blocked  |-> extra_metadata.compliance.blocked]                      *)
(*                                                                         *)
(* The session's copy of the campaign may be older than the asset rows.    *)
(***************************************************************************)

CampaignStatus ==
  {"drafted", "audience_built", "strategy_set", "content_in_production",
   "approval_pending", "ready_to_launch", "live", "optimising", "paused",
   "completed"}

RequiredAssets(v) == {a \in DOMAIN v.status : v.required[a]}

\* Mutant of AllRequiredAssetsDrafted: assets nobody has generated yet count as
\* drafted.
RequestedCountsAsDrafted(v) ==
  \A a \in RequiredAssets(v) : v.status[a] \notin {"generating", "failed"} /\ ~v.blocked[a]

\* _all_required_assets_drafted, the guard of submit_for_approval.
AllRequiredAssetsDrafted(v) ==
  /\ RequiredAssets(v) # {}
  /\ \A a \in RequiredAssets(v) :
       /\ v.status[a] \notin {"requested", "generating", "failed"}
       /\ ~v.blocked[a]

\* Mutant of AllRequiredAssetsApproved: a rejection counts too.
AllRequiredAssetsDecided(v) ==
  /\ RequiredAssets(v) # {}
  /\ \A a \in RequiredAssets(v) : v.status[a] \in {"approved", "rejected"}

\* _all_required_assets_approved, the guard of start_launch.
AllRequiredAssetsApproved(v) ==
  /\ RequiredAssets(v) # {}
  /\ \A a \in RequiredAssets(v) : v.status[a] = "approved"

\* _any_required_asset_rejected, the guard of regenerate_after_rejection.
AnyRequiredAssetRejected(v) ==
  \E a \in RequiredAssets(v) : v.status[a] = "rejected"

\* _ready_to_go_live, the guard of start_live; started: start_date is reached.
ReadyToGoLive(v, started) ==
  /\ started
  /\ RequiredAssets(v) # {}
  /\ \A a \in RequiredAssets(v) :
       v.status[a] \notin {"requested", "generating", "drafted", "pending_approval",
                           "approved", "rejected", "failed"}

\* Mutant of Applies: the guard alone, from any status.
GuardAccepts(name, v) ==
  CASE name = "submit_for_approval" -> AllRequiredAssetsDrafted(v)
    [] name = "start_launch" -> AllRequiredAssetsApproved(v)
    [] name = "regenerate_after_rejection" -> AnyRequiredAssetRejected(v)
    [] OTHER -> FALSE

\* StateMachine.apply on a view: is transition name registered from the status
\* the session holds, and does its guard accept?
Applies(name, v) ==
  CASE name = "submit_for_approval" ->
         v.campaign = "content_in_production" /\ AllRequiredAssetsDrafted(v)
    [] name = "start_launch" ->
         v.campaign = "approval_pending" /\ AllRequiredAssetsApproved(v)
    [] name = "regenerate_after_rejection" ->
         v.campaign = "approval_pending" /\ AnyRequiredAssetRejected(v)
    [] OTHER -> FALSE

\* _flip_drafted_assets_to_pending_approval.
FlipDraftedAssetsToPendingApproval(v) ==
  [a \in DOMAIN v.status |->
     IF v.required[a] /\ v.status[a] = "drafted" THEN "pending_approval" ELSE v.status[a]]

\* schedule_approved_assets: every approved asset, required or not.
ScheduleApprovedAssets(v) ==
  [a \in DOMAIN v.status |->
     IF v.status[a] = "approved" THEN "scheduled" ELSE v.status[a]]

\* The view after the transition: its to_state and its on_enter.
Applied(name, v) ==
  CASE name = "submit_for_approval" ->
         [v EXCEPT !.campaign = "approval_pending",
                   !.status = FlipDraftedAssetsToPendingApproval(v)]
    [] name = "start_launch" ->
         [v EXCEPT !.campaign = "ready_to_launch",
                   !.status = ScheduleApprovedAssets(v)]
    [] name = "regenerate_after_rejection" ->
         [v EXCEPT !.campaign = "content_in_production"]
=============================================================================
