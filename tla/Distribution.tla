---------------------------- MODULE Distribution ----------------------------
(***************************************************************************)
(* Channel distribution of one campaign (app/agents/distribution.py), from *)
(* start_launch on: the dispatch tasks of its scheduled assets, the email  *)
(* and social dispatch handlers, the dispatch_attempt rows that make       *)
(* retries safe, and pausing, resuming, completing and launching the       *)
(* campaign (app/orchestrator/state_machine.py, app/api/campaigns.py,      *)
(* app/assistant/tools.py).                                                *)
(*                                                                         *)
(* A handler is one transaction, but it talks to the provider in the       *)
(* middle: what it read before the send is old when it commits, and what   *)
(* it sent stays sent when it rolls back.  Hence three steps: Load, Send,  *)
(* Commit.  A request of a user is a transaction too: it checks the        *)
(* campaign it loaded (Begin) and writes later (Finish); resume selects    *)
(* the scheduled assets in between, with the campaign row locked (Enter).  *)
(*                                                                         *)
(* The queue is reduced to the number of claimable dispatch tasks of each  *)
(* asset; TaskQueue models it in full.  A fault is one of the events after *)
(* which the provider and the tables disagree or TaskQueue delivers a task *)
(* again: a worker's death, a lease that ends under a live worker, an      *)
(* error or an answer without a message id after delivery.                 *)
(***************************************************************************)
EXTENDS Integers, FiniteSets, Lifecycle

CONSTANTS
  Assets,          \* the campaign's assets, all scheduled at the start
  Social,          \* those of type social_post; the others are emails
  Required,        \* those with is_required
  Recipients,      \* addresses, and the pages social posts go to
  Audience,        \* the recipients of each asset, after the A/B filter
  Workers,         \* worker processes
  Users,           \* requests that may be open at a time
  StartCampaign,   \* campaign.status at the start
  Cap,             \* FrequencyCapSetting.max_sends_per_recipient
  MaxRetries,      \* bound: failed executions of an asset put back in the queue
  MaxRequests,     \* bound: requests of users
  MaxFaults        \* bound: faults

ASSUME DistributionAssumption ==
  /\ Social \subseteq Assets
  /\ Required \subseteq Assets
  /\ Audience \in [Assets -> SUBSET Recipients]
  /\ StartCampaign \in {"ready_to_launch", "live"}
  /\ Cap \in Nat \ {0}
  /\ MaxRetries \in Nat
  /\ MaxRequests \in Nat
  /\ MaxFaults \in Nat

VARIABLES
  campaign,    \* campaign.status
  started,     \* start_date is reached
  status,      \* content_asset.status
  elapsed,     \* assets whose slot (scheduled_at) is in the past
  queued,      \* claimable dispatch tasks of each asset
  row,         \* dispatch_attempt.status of each asset and recipient
  recent,      \* sent rows younger than the 24h dedup window
  tx,          \* the dispatch each worker executes
  req,         \* the open request of each user
  sends,       \* history: messages the provider delivered
  retries,     \* history: executions that failed and were retried
  gaveUp,      \* history: assets a dispatch task of which ended in `failed`
  requests,    \* history: requests begun
  resumes,     \* history: resume transitions
  faults       \* history: faults

counters == <<retries, gaveUp, requests, resumes, faults>>
clock == <<started, elapsed>>
vars == <<campaign, clock, status, queued, row, recent, tx, req, sends, counters>>

Idle == [stage |-> "idle"]

\* No request has updated the campaign row and not committed.
CampaignLockFree == \A u \in Users : req[u].stage # "entered"

RowStatus == {"none", "sent", "rejected", "failed", "skipped"}

\* The rows a guard of the state machine reads; nothing here is blocked.
AssetView(s) ==
  [campaign |-> campaign, status |-> s, required |-> [a \in Assets |-> a \in Required]]
-----------------------------------------------------------------------------
\* What schedule_approved_assets commits: every asset scheduled, one dispatch
\* task each, some slots already past ("send now").
Init ==
  /\ campaign = StartCampaign
  /\ started \in BOOLEAN
  /\ status = [a \in Assets |-> "scheduled"]
  /\ elapsed \in SUBSET Assets
  /\ queued = [a \in Assets |-> 1]
  /\ row = [a \in Assets |-> [r \in Recipients |-> "none"]]
  /\ recent = {}
  /\ tx = [w \in Workers |-> Idle]
  /\ req = [u \in Users |-> Idle]
  /\ sends = [a \in Assets |-> [r \in Recipients |-> 0]]
  /\ retries = [a \in Assets |-> 0]
  /\ gaveUp = {}
  /\ requests = 0
  /\ resumes = 0
  /\ faults = 0

\* The clock passes a slot, the start date, or the dedup window of every row.
SlotArrives(a) ==
  /\ a \notin elapsed
  /\ elapsed' = elapsed \cup {a}
  /\ UNCHANGED <<campaign, started, status, queued, row, recent, tx, req, sends, counters>>

StartDateArrives ==
  /\ ~started
  /\ started' = TRUE
  /\ UNCHANGED <<campaign, elapsed, status, queued, row, recent, tx, req, sends, counters>>

WindowPasses ==
  /\ recent # {}
  /\ recent' = {}
  /\ UNCHANGED <<campaign, clock, status, queued, row, tx, req, sends, counters>>

\* Mutant of Claim: no check that a task is ready.
ClaimUnchecked(w, a) ==
  /\ tx[w] = Idle
  /\ a \in elapsed
  /\ queued' = [queued EXCEPT ![a] = @ - 1]
  /\ tx' = [tx EXCEPT ![w] = [stage |-> "claimed", asset |-> a]]
  /\ UNCHANGED <<campaign, clock, status, row, recent, req, sends, counters>>

\* claim_next: a dispatch task is scheduled_for its asset's slot.
Claim(w, a) ==
  /\ tx[w] = Idle
  /\ queued[a] > 0
  /\ a \in elapsed
  /\ queued' = [queued EXCEPT ![a] = @ - 1]
  /\ tx' = [tx EXCEPT ![w] = [stage |-> "claimed", asset |-> a]]
  /\ UNCHANGED <<campaign, clock, status, row, recent, req, sends, counters>>

\* The handler raised: fail() puts the task back or closes it.
Raise(w, a) ==
  /\ tx' = [tx EXCEPT ![w] = Idle]
  /\ IF retries[a] < MaxRetries
     THEN /\ queued' = [queued EXCEPT ![a] = @ + 1]
          /\ retries' = [retries EXCEPT ![a] = @ + 1]
          /\ UNCHANGED gaveUp
     ELSE /\ gaveUp' = gaveUp \cup {a}
          /\ UNCHANGED <<queued, retries>>
  /\ UNCHANGED <<requests, resumes, req>>

\* _existing_attempts, and the cached attempt of social_publish.
AlreadySent(a) == {r \in Recipients : row[a][r] = "sent"}

\* _recent_sent_recipients: sent within the window, for whatever asset.
RecentlySent == {r \in Recipients : \E b \in Assets : <<b, r>> \in recent}

\* Mutant of Capped: one send too many.
CappedLate == {r \in Recipients : Cardinality({b \in Assets : row[b][r] = "sent"}) > Cap}

\* _capped_recipients.
Capped == {r \in Recipients : Cardinality({b \in Assets : row[b][r] = "sent"}) >= Cap}

\* The recipients of a that are neither sent to already nor, for an email, sent
\* to recently.
Candidates(a) ==
  Audience[a] \ (AlreadySent(a) \cup (IF a \in Social THEN {} ELSE RecentlySent))

\* The handler refuses an asset that is no longer scheduled, or a precondition
\* (integration, audience, credential) does not hold.
LoadRaises(w) ==
  /\ tx[w].stage = "claimed"
  /\ Raise(w, tx[w].asset)
  /\ UNCHANGED <<campaign, clock, status, row, recent, sends, faults>>

\* The campaign is paused: the handler returns cleanly and the task is complete.
LoadSkips(w) ==
  /\ tx[w].stage = "claimed"
  /\ status[tx[w].asset] = "scheduled"
  /\ campaign = "paused"
  /\ tx' = [tx EXCEPT ![w] = Idle]
  /\ UNCHANGED <<campaign, clock, status, queued, row, recent, req, sends, counters>>

\* The reads that decide the batch and the recipients to skip.
Load(w) ==
  LET a == tx[w].asset
      skip == IF a \in Social THEN {} ELSE Capped
  IN  /\ tx[w].stage = "claimed"
      /\ status[a] = "scheduled"
      /\ campaign # "paused"
      /\ tx' = [tx EXCEPT ![w] =
                 [stage |-> "loaded", asset |-> a, campaign |-> campaign,
                  batch |-> Candidates(a) \ skip, capped |-> Candidates(a) \cap skip]]
      /\ UNCHANGED <<campaign, clock, status, queued, row, recent, req, sends, counters>>

Deliver(a, D) ==
  sends' = [sends EXCEPT ![a] = [r \in Recipients |-> IF r \in D THEN @[r] + 1 ELSE @[r]]]

\* The provider call returns.  The email tool refuses some recipients itself
\* (suppressed, malformed) and sends the rest in one call; without an
\* X-Message-Id in the answer their rows say `failed`, delivered though they are.
Send(w) ==
  LET t == tx[w]
  IN  /\ t.stage = "loaded"
      /\ \E refused \in SUBSET t.batch, acknowledged \in BOOLEAN :
           LET accepted == t.batch \ refused
           IN  /\ t.asset \in Social => refused = {} /\ acknowledged
               /\ accepted = {} => acknowledged
               /\ ~acknowledged => faults < MaxFaults
               /\ faults' = IF acknowledged THEN faults ELSE faults + 1
               /\ Deliver(t.asset, accepted)
               /\ tx' = [tx EXCEPT ![w] =
                    [stage |-> "sent", asset |-> t.asset, campaign |-> t.campaign,
                     capped |-> t.capped,
                     answer |-> [r \in t.batch |-> IF r \in refused THEN "rejected"
                                                   ELSE IF acknowledged THEN "sent"
                                                   ELSE "failed"]]]
      /\ UNCHANGED <<campaign, clock, status, queued, row, recent, req, retries, gaveUp,
                     requests, resumes>>

\* ProviderUnreachableError or a rejection of the call: the transaction rolls
\* back.  It is a fault when the provider had delivered some of the batch.
SendRaises(w) ==
  LET a == tx[w].asset
  IN  /\ tx[w].stage = "loaded"
      /\ tx[w].batch # {}
      /\ \E D \in SUBSET tx[w].batch :
           /\ D # {} => faults < MaxFaults
           /\ faults' = IF D = {} THEN faults ELSE faults + 1
           /\ Deliver(a, D)
      /\ Raise(w, a)
      /\ UNCHANGED <<campaign, clock, status, row, recent>>

\* Mutant of NoneQueued: the pause forgets to cancel.
QueueKept == queued' = queued

\* cancel_queued_for_campaign.
NoneQueued == queued' = [a \in Assets |-> 0]

\* OAuthRevokedError: pause_campaign and the asset is failed, in a transaction
\* that commits; the task is complete.
OAuthRevoked(w) ==
  LET a == tx[w].asset
  IN  /\ tx[w].stage = "loaded"
      /\ a \in Social
      /\ tx[w].batch # {}
      /\ CampaignLockFree
      /\ campaign' = "paused"
      /\ NoneQueued
      /\ status' = [status EXCEPT ![a] = "failed"]
      /\ tx' = [tx EXCEPT ![w] = Idle]
      /\ UNCHANGED <<clock, row, recent, req, sends, counters>>

\* Mutant of Upsert: the last writer wins.
UpsertOverwrites(old, new) == new

\* _upsert_dispatch_attempt: on conflict the existing status stays.
Upsert(old, new) == IF old = "none" THEN new ELSE old

\* Mutant of Written: rows only for what was sent.
WrittenIfSent(t, r) ==
  IF r \in DOMAIN t.answer /\ t.answer[r] = "sent"
  THEN Upsert(row[t.asset][r], "sent") ELSE row[t.asset][r]

\* The attempt row of recipient r once the handler has written its own.
Written(t, r) ==
  LET old == row[t.asset][r]
  IN  IF r \in DOMAIN t.answer THEN Upsert(old, t.answer[r])
      ELSE IF r \in t.capped THEN Upsert(old, "skipped")
      ELSE old

\* Mutant of GoesLive: no look at the campaign's status.
GoesLiveFromAnyStatus(t, s) == ReadyToGoLive(AssetView(s), started)

\* _maybe_go_live, on the campaign as it was loaded.
GoesLive(t, s) == t.campaign = "ready_to_launch" /\ ReadyToGoLive(AssetView(s), started)

\* The attempt rows, status = published, _maybe_go_live, the commit; then
\* complete(), unless the worker dies before it (a fault).
Commit(w) ==
  LET t == tx[w]
      a == t.asset
      written == [r \in Recipients |-> Written(t, r)]
  IN  /\ t.stage = "sent"
      /\ row' = [row EXCEPT ![a] = written]
      /\ recent' = recent \cup
           {<<a, r>> : r \in {x \in Recipients : written[x] = "sent" /\ row[a][x] # "sent"}}
      /\ status' = [status EXCEPT ![a] = "published"]
      /\ GoesLive(t, status') => CampaignLockFree
      /\ campaign' = IF GoesLive(t, status') THEN "live" ELSE campaign
      /\ tx' = [tx EXCEPT ![w] = Idle]
      /\ \/ UNCHANGED <<queued, faults>>
         \/ /\ faults < MaxFaults
            /\ faults' = faults + 1
            /\ queued' = [queued EXCEPT ![a] = @ + 1]
      /\ UNCHANGED <<clock, req, sends, retries, gaveUp, requests, resumes>>

\* The transaction fails at the end (a deadlock victim, a lost connection): what
\* was sent stays sent.
CommitRaises(w) ==
  /\ tx[w].stage = "sent"
  /\ faults < MaxFaults
  /\ faults' = faults + 1
  /\ Raise(w, tx[w].asset)
  /\ UNCHANGED <<campaign, clock, status, row, recent, sends>>

\* The worker dies mid-dispatch and the reaper puts the task back.
Crash(w) ==
  /\ tx[w] # Idle
  /\ faults < MaxFaults
  /\ faults' = faults + 1
  /\ queued' = [queued EXCEPT ![tx[w].asset] = @ + 1]
  /\ tx' = [tx EXCEPT ![w] = Idle]
  /\ UNCHANGED <<campaign, clock, status, row, recent, req, sends, retries, gaveUp, requests, resumes>>

\* The lease ends while the worker is still busy and the reaper puts the task
\* back.
Overrun(w) ==
  /\ tx[w] # Idle
  /\ faults < MaxFaults
  /\ faults' = faults + 1
  /\ queued' = [queued EXCEPT ![tx[w].asset] = @ + 1]
  /\ UNCHANGED <<campaign, clock, status, row, recent, tx, req, sends, retries, gaveUp, requests,
                 resumes>>
-----------------------------------------------------------------------------
\* The requests that move the campaign: the transitions of the API and, under a
\* name of their own, the assistant's pause_campaign (from any status) and
\* launch_campaign (no guard but the status).
Requests ==
  {"pause", "pauseByAssistant", "resume", "complete_campaign", "start_live",
   "launchByAssistant"}

\* The check of a request on the campaign it loads.
Allowed(op) ==
  CASE op = "pause" -> campaign \in {"live", "optimising", "ready_to_launch"}
    [] op = "pauseByAssistant" -> campaign # "paused"
    [] op = "resume" -> campaign = "paused"
    [] op = "complete_campaign" -> campaign \in {"live", "optimising", "paused"}
    [] op = "start_live" ->
         campaign = "ready_to_launch" /\ ReadyToGoLive(AssetView(status), started)
    [] op = "launchByAssistant" -> campaign = "ready_to_launch"

Begin(u, op) ==
  /\ req[u] = Idle
  /\ requests < MaxRequests
  /\ Allowed(op)
  /\ requests' = requests + 1
  /\ req' = [req EXCEPT ![u] = [stage |-> "checked", op |-> op]]
  /\ UNCHANGED <<campaign, clock, status, queued, row, recent, tx, sends, retries, gaveUp,
                 resumes, faults>>

\* resume: the flush of status = live, then the select of
\* resume_distribution_for_campaign.  A scheduled asset whose slot is past will
\* fail, the others will get a dispatch task for their slot.
Enter(u) ==
  LET scheduled == {a \in Assets : status[a] = "scheduled"}
  IN  /\ req[u].stage = "checked"
      /\ req[u].op = "resume"
      /\ CampaignLockFree
      /\ req' = [req EXCEPT ![u] = [stage |-> "entered", op |-> "resume",
                                    fails |-> scheduled \cap elapsed,
                                    requeues |-> scheduled \ elapsed]]
      /\ UNCHANGED <<campaign, clock, status, queued, row, recent, tx, sends, counters>>

\* Mutant of FinishResume: nothing is put back in the queue.
FinishResumeWithoutTasks(u) ==
  /\ req[u].stage = "entered"
  /\ campaign' = "live"
  /\ resumes' = resumes + 1
  /\ status' = [a \in Assets |-> IF a \in req[u].fails THEN "failed" ELSE status[a]]
  /\ req' = [req EXCEPT ![u] = Idle]
  /\ UNCHANGED <<clock, queued, row, recent, tx, sends, retries, gaveUp, requests, faults>>

\* The UPDATEs of resume_distribution_for_campaign and the commit.
FinishResume(u) ==
  /\ req[u].stage = "entered"
  /\ campaign' = "live"
  /\ resumes' = resumes + 1
  /\ status' = [a \in Assets |-> IF a \in req[u].fails THEN "failed" ELSE status[a]]
  /\ queued' = [a \in Assets |-> IF a \in req[u].requeues THEN queued[a] + 1 ELSE queued[a]]
  /\ req' = [req EXCEPT ![u] = Idle]
  /\ UNCHANGED <<clock, row, recent, tx, sends, retries, gaveUp, requests, faults>>

\* Another request on the campaign it checked is ready to write.
Ready(u, ops) == req[u].stage = "checked" /\ req[u].op \in ops /\ CampaignLockFree

\* Both pauses write the status and cancel the claimable tasks.
FinishPause(u) ==
  /\ Ready(u, {"pause", "pauseByAssistant"})
  /\ campaign' = "paused"
  /\ NoneQueued
  /\ req' = [req EXCEPT ![u] = Idle]
  /\ UNCHANGED <<clock, status, row, recent, tx, sends, counters>>

\* The others write only the status: completing leaves the tasks alone.
FinishMove(u) ==
  /\ Ready(u, {"complete_campaign", "start_live", "launchByAssistant"})
  /\ campaign' = IF req[u].op = "complete_campaign" THEN "completed" ELSE "live"
  /\ req' = [req EXCEPT ![u] = Idle]
  /\ UNCHANGED <<clock, status, queued, row, recent, tx, sends, counters>>

Finish(u) == Enter(u) \/ FinishResume(u) \/ FinishPause(u) \/ FinishMove(u)

Dispatch(w) ==
  \/ \E a \in Assets : Claim(w, a)
  \/ LoadRaises(w) \/ LoadSkips(w) \/ Load(w)
  \/ Send(w) \/ SendRaises(w) \/ OAuthRevoked(w) \/ Commit(w) \/ CommitRaises(w)

Next ==
  \/ \E a \in Assets : SlotArrives(a)
  \/ StartDateArrives \/ WindowPasses
  \/ \E w \in Workers : Dispatch(w) \/ Crash(w) \/ Overrun(w)
  \/ \E u \in Users : Finish(u) \/ \E op \in Requests : Begin(u, op)

Spec == Init /\ [][Next]_vars

\* Slots arrive, workers keep running their tasks and a request once begun runs
\* to its end; nobody need begin one.
FairSpec ==
  /\ Spec
  /\ \A a \in Assets : WF_vars(SlotArrives(a))
  /\ \A w \in Workers : WF_vars(Dispatch(w))
  /\ \A u \in Users : WF_vars(Finish(u))
-----------------------------------------------------------------------------
\* Every variable keeps its type.
TypeOK ==
  /\ campaign \in CampaignStatus
  /\ started \in BOOLEAN
  /\ status \in [Assets -> {"scheduled", "published", "failed"}]
  /\ elapsed \subseteq Assets
  /\ queued \in [Assets -> Nat]
  /\ row \in [Assets -> [Recipients -> RowStatus]]
  /\ recent \subseteq Assets \X Recipients
  /\ sends \in [Assets -> [Recipients -> Nat]]
  /\ retries \in [Assets -> 0..MaxRetries]
  /\ gaveUp \subseteq Assets
  /\ requests \in 0..MaxRequests
  /\ resumes \in Nat
  /\ faults \in 0..MaxFaults
  /\ \A w \in Workers : tx[w] # Idle => tx[w].asset \in Assets
  /\ \A u \in Users : req[u] # Idle => req[u].op \in Requests

\* A row that says `sent` records a message the provider really delivered, and
\* no retry or duplicate execution overwrites it with a worse outcome
\* (_upsert_dispatch_attempt).
SentIsTrueAndKept ==
  [][\A a \in Assets, r \in Recipients :
       /\ row[a][r] = "sent" => row'[a][r] = "sent"
       /\ row'[a][r] = "sent" => sends'[a][r] > 0]_vars

\* A published asset left nobody out unnoticed: each recipient has an attempt
\* row of it, or was sent another asset within the dedup window, whatever
\* crashes and duplicate executions came before (dispatch_email_asset).
PublishedAccountsForAll ==
  \A a \in Assets : status[a] = "published" =>
    \A r \in Audience[a] : row[a][r] # "none" \/ \E b \in Assets : row[b][r] = "sent"

\* "Given a dispatch task runs twice, when complete, then the provider receives
\* only one send" (docs/backlog/stories/E02-orchestration-platform.md).
NoDoubleSend == \A a \in Assets, r \in Recipients : sends[a][r] <= 1

\* A pause ends with a resume or with completion (E08-S07: in-flight tasks
\* finish "and the campaign in `paused` state", queue.py).
PauseHolds ==
  [][campaign = "paused" =>
       campaign' \in {"paused", "completed"} \/ resumes' > resumes]_vars

\* No asset of an active campaign is left scheduled with nobody to dispatch it:
\* there is a task in the queue or in a worker's hands, or a task of it failed.
NothingForgotten ==
  campaign \in {"ready_to_launch", "live"} =>
    \A a \in Assets : status[a] = "scheduled" =>
      queued[a] > 0 \/ a \in gaveUp \/ \E w \in Workers : tx[w] # Idle /\ tx[w].asset = a

\* An asset does not stay scheduled for ever, unless its campaign stays paused
\* or completed or its task used up its attempts.
EveryAssetLands ==
  \A a \in Assets :
    <>[](status[a] # "scheduled" \/ campaign \in {"paused", "completed"} \/ a \in gaveUp)

\* "Given a contact has received >= the frequency cap in the last N days, when
\* send is attempted, then it is skipped" (E08-channel-distribution.md).
CapRespected ==
  \A r \in Recipients :
    Cardinality({a \in Assets \ Social : sends[a][r] > 0}) <= Cap
=============================================================================
