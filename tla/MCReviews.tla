----------------------------- MODULE MCReviews -----------------------------
\* ContentApproval under one group of reviewers' operations at a time: mode is
\* chosen at the start and selects which operations are begun.
EXTENDS ContentApproval, TLC

CONSTANT Redelivering   \* the modes in which finished generation tasks run again

VARIABLE mode

\* Sessions are interchangeable, and so are assets: Init and Next name none.
Symmetry == Permutations(Sessions) \cup Permutations(Assets)

OpsOf ==
  [ \* the rejection cycle of the API: back to content_in_production and again
    api |-> {"generate", "approve", "reject", "regenerate_after_rejection"},
    \* the pages, whose rejection drops the asset, as the assistant's does, with the
    \* manager's clearance and the manual transitions forward
    pages |-> {"generate", "uiApprove", "uiReject", "assistantReject", "clear",
               "submit_for_approval", "start_launch"},
    \* finished generation tasks that run again under the pages' reviews
    redelivery |-> {"generate", "uiApprove", "uiReject", "start_launch"},
    \* everything a reviewer can decide through the API and the pages, and the
    \* manager's clearance, one transaction at a time
    serial |-> {"generate", "approve", "reject", "regenerate", "clear", "uiApprove",
                "uiReject"},
    \* the assistant's review of an asset
    assistant |-> {"generate", "assistantApprove", "assistantReject", "start_launch"},
    \* its approval of everything, against regeneration
    assistantAll |-> {"generate", "regenerate", "assistantApproveAll"} ]

AllOps == UNION {OpsOf[m] : m \in DOMAIN OpsOf}

ReviewInit == Init /\ mode \in DOMAIN OpsOf

Rejections == {"reject", "regenerate"}

\* The bounds of each mode: one transaction at a time in the serial one; in the
\* others a rejection is begun where no generation task is open, and an asset is
\* dispatched once, except where tasks are redelivered.
Bounds ==
  /\ mode = "serial" => \A p, q \in Sessions : tx'[p] # NoTx /\ tx'[q] # NoTx => p = q
  /\ mode # "serial" =>
       \A p \in Sessions :
         tx[p] = NoTx /\ tx'[p].op \in Rejections => \A a \in Assets : tasks[a] = 0
  /\ mode \notin Redelivering => redeliveries' = 0
  /\ mode \notin Redelivering \cup {"serial"} => \A a \in Assets : dispatches'[a] <= 1

ReviewNext ==
  /\ Next
  /\ \A p \in Sessions : tx'[p].op \in OpsOf[mode] \cup {NoTx.op}
  /\ Bounds
  /\ UNCHANGED mode

ReviewSpec == ReviewInit /\ [][ReviewNext]_<<vars, mode>>
-----------------------------------------------------------------------------
\* "No asset reaches the Channel Distribution agent without an `approved` decision
\* logged for it" (docs/backlog/stories/E07-approval-workflow.md), through the API
\* and the pages; the assistant's approve_asset and approve_all_content log none.
DecisionLogged == mode \notin {"assistant", "assistantAll"} => DecisionBeforeDispatch

\* One transaction at a time, the review workflow is right: no compliance-blocked
\* asset is approved by the API or the pages; whatever completes the drafts of the
\* required assets submits the campaign, unless it is the manager's clearance of
\* the last block, which submits nothing; a campaign whose assets are all approved
\* has been driven on; and start_launch hands each asset to distribution at most
\* once (api/approvals.py, content_assets.py, content_creator.py, auto_advance.py).
SerialWorkflow ==
  [][mode = "serial" =>
       /\ (NoFlaggedApproval /\ ApprovedMeansLaunched /\ ScheduledOnce)'
       /\ OnlyClearingLeavesUnsubmitted]_<<vars, mode>>
=============================================================================
