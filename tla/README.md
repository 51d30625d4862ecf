# A TLA+ model of the Marketing Agentic System

MAS drives marketing campaigns through planning, content production, human
approval, distribution and analysis. Its correctness rests on a task queue in
Postgres, a campaign state machine, and many short READ COMMITTED transactions of
workers, API requests, web pages and an assistant that read, decide and write
without row versions. This directory models that system component by component,
model-checks it with TLC and proves parts of it with TLAPS.

`PROJECT.json` lists the components, the runs, the source lines behind each
definition, the mutants, the hazards, the findings and the theorems.

## 1. Inventory

| Part | Source (under `src/app/`) | State it changes | Modelled by |
|---|---|---|---|
| Task queue, worker, reaper | `orchestrator/queue.py`, `orchestrator/worker.py` | `task` rows, handler transactions | `TaskQueue`, abstractly `TaskContract` |
| Campaign state machine | `orchestrator/state_machine.py`, `approvals/auto_advance.py` | `campaign.status`, asset statuses | `Lifecycle` and its users |
| Strategy, calendar, constraints | `agents/strategist.py`, `agents/_strategist_planner.py`, `agents/_calendar.py`, `api/strategy.py` | proposals, touchpoints, campaign | `Planning`, `Planner`, `Calendar` |
| Audiences | `agents/audience_targeting.py`, `audiences/`, `api/audiences.py`, `outbound/enrichment.py` | audience members | `Audiences` |
| Content generation, compliance | `agents/content_creator.py`, `agents/_compliance.py`, `tools/copywriting.py` | assets, tasks, campaign | `Drafting` (the text), `ContentApproval` (the transaction) |
| Brand voice | `api/brand_voice.py` | `brand_voice.is_active` | `BrandVoices` |
| Approval, content API, review pages | `api/approvals.py`, `api/content_assets.py`, `api/ui/approvals.py` | assets, decision log, campaign | `ContentApproval`; spend gates in `Thresholds` |
| Distribution | `agents/distribution.py`, `tools/email_dispatch.py`, `api/campaigns.py` | attempt rows, assets, campaign, the provider | `Distribution` |
| A/B tests | `ab_testing/`, `api/ab_tests.py` | tests, assignments, variants | `Experiment` |
| Social publishing | `tools/social_publish.py`, `integrations/social/` | posts, the cached attempt | `SocialPublish` |
| Webhooks, suppression, unsubscribe | `webhooks/`, `api/integrations_email.py`, `api/unsubscribe.py` | events, raw trail, suppression list | `Webhooks` |
| Web analytics | `integrations/web_analytics/` | events, job rows | `WebAnalytics` |
| KPIs, anomalies, budget, reports | `analytics/`, `agents/analytics.py`, `api/analytics.py`, `api/custom_kpis.py` | anomalies, recommendations, spend, reports | `Kpis`, `Anomaly`, `Budget`, `Reports` |
| Assistant | `assistant/` | the thread; otherwise as the APIs | `Conversation`; its tools in the module of what they change |
| Outbound | `outbound/`, `api/ui/outbound.py` | payloads, templates | `Outbound` |
| Previews | `agents/_preview.py`, `api/preview.py` | nothing | `Previews` |
| Credentials | `api/integrations.py`, `integrations/hubspot.py` | credentials, channel copies | `Connections` |
| Text, pages, HTTP, single-row settings, logging | the rest | nothing, or one row | left out |

How they interact. A strategist run proposes a plan; a user accepts it and its
calendar is laid down; `start_content` seeds one asset per touchpoint and one
`generate_asset` task per asset. Workers claim tasks and run handlers. The last
draft submits the campaign; reviewers approve or reject; the last approval runs
`start_launch`, which schedules the approved assets and enqueues a dispatch task
for each. Dispatch handlers ask the A/B test for the recipients of a variant, call
the provider, write `dispatch_attempt` rows, publish the asset and may set the
campaign live. Provider events come back by webhook and are counted through the
attempt rows; the analysis raises anomalies, recommends budget shifts and may
pause the campaign. Users pause, resume and complete it.

## 2. Modules

A session, where a module has sessions, is a request or a worker's task with an
open transaction `tx[s]`: it reads when it loads, what it wrote appears when it
commits, and a crash or error rolls it back. Row locks and unique indexes are
modelled where they decide an outcome. `raced` is history: two transactions were
open at once. A guarantee the code gives only to requests that do not overlap is
stated as `raced \/ ...`; everything else is claimed for all interleavings.
`calls` and the `Max...` constants bound behaviours in the guards.

**`TaskQueue`.** Variables are the columns of `task` that decide anything
(`status`, `attempt`, `worker_id`, `leased_until`), the set of `due` rows, and
per worker a position in `run_once`. Every action is one transaction, or an
event outside the code: the clock, a crash, a restart. `run_once` uses three
transactions per task (claim, handler, complete or fail). `fail()` reads the
row before it writes it, so it is two actions. Timestamps are reduced to the
questions asked of them: is `scheduled_for` past, is `leased_until` past.
`ORDER BY` becomes "any ready row". A worker crashes only with a task in hand;
dying idle changes nothing.

**`TaskContract`.** What callers rely on: a task is open from insertion; its
effects may be applied any number of times while open; it is closed once, as a
success only when its effects were applied. `TaskQueue` maps its rows to phases
and instantiates it.

**`Lifecycle`.** The guards and `on_enter` effects of the transitions, as
operators on the rows a session sees. The session's copy of the campaign can be
older than the asset rows, so the view carries it.

**`Planning`, `Planner`, `Calendar`.** One campaign up to `content_in_production`:
proposals numbered max + 1 after a model call, human overrides carried into a
re-plan, acceptance by the API or the assistant, touches laid down, moved and
removed, forbidden platforms and caps changed meanwhile. `Planner` is the
validation of a model's answer and the choice among retries; `Calendar` lays
touches out, enforces caps and finds frequency warnings. Both are pure operators
and are also checked alone over bounded inputs. Days replace timestamps: every
touch is at 09:00.

**`ContentApproval`.** One campaign from `start_content` to `ready_to_launch`.
A transaction is a record of what it loaded and what it wrote, and advances by
Load, (Generate,) Flush, Enter and Commit, the points at which others can see or
block it. Row locks are held from the UPDATE to the commit. Only changed columns
are written, `extra_metadata` as a whole, and the last writer wins. Ghost
variables record drafts, logged approvals and dispatches. Simplifications: the
`on_enter` query and the second guard of `try_advance_after_approval` happen at
one instant; the approval threshold is one more way to refuse (`Thresholds` has
it in full); all assets are emails or posts; a zombie generation is left to
`TaskQueue`, but redelivery of a finished one is modelled.

**`Thresholds`.** The approval settings, their snapshot on submission, the gates
of single and batch approval, and the ways to approve that do not evaluate them.

**`Drafting`.** The nested retries of one draft: the tool asks again while the
text is too long and returns the shortest overrun; the agent asks again while the
text warns or, for a variant, is too close to its baseline; the verdict is stored
with the text. A text is the terms it uses, its overrun and its closeness. Rules
change while it runs.

**`BrandVoices`.** Creation and activation under the partial unique index, with
the lock waits of `UPDATE ... WHERE is_active`.

**`Distribution`.** One campaign from `start_launch` on. A dispatch is Load
(dedup, cap, batch), Send (the provider acts) and Commit (rows, `published`,
`_maybe_go_live` on the campaign as loaded). A request is Begin (check) and
Finish (write); `resume` selects assets in between with the campaign row locked.
The queue is reduced to the number of claimable tasks per asset, so a task that
was taken back from a slow worker stays claimable even if that worker finishes;
this only adds behaviours. `suppressed` rows are merged with `rejected`. The
audience after the A/B filter is fixed per asset; `Experiment` has the filter.

**`Experiment`.** Variants, tests (created, launched, stopped, evaluated,
promoted) and dispatches that assign recipients by hash and stick to it. The
two-proportion test is compared on scaled counts.

**`SocialPublish`.** One post that two workers may dispatch at once, through the
tool and one of three connectors: the asset's status, the cached attempt, the retry
loop, the classification of answers, a crash before the commit. The provider accepts
a request whether or not its reply arrives. The dispatch serves LinkedIn only; the
other connectors are called once, through the tool.

**`Webhooks`.** Both receivers of mail events with their inserts, waits on
duplicate keys, rollbacks and repeats; an event is keyed by its own id or, lacking
one, by that of its message; the suppression list, the unsubscribe link, and the
batches that read the list. **`WebAnalytics`** overlaps syncs of overlapping
windows, inserted row by row with waits on the unique index. **`Kpis`** counts
events through the attempt rows, while dispatches commit late or never; an asset may
have no channel. **`Anomaly`** (half days as clock) detects, dismisses and
auto-pauses. **`Budget`** has recommendations, decisions, spend and its
reconciliation, in cents and with the rounding of the code: each new share to the
cent, the percentage of a reconciliation to its fourth decimal, half to even.
**`Reports`** has report versions, completion and custom KPIs.

**`Audiences`.** CSV rows to contacts, criteria to segments, segments to
snapshots, and the enrichment that rewrites the rows of one audience in place.
**`Outbound`** enriches, drafts, overwrites, submits, approves (as it stands or with
edits), rejects and renders per contact; a template holds its text twice, in
`content` and in `metadata.fields.body`. **`Previews`** compares the audit of merge
fields with the merge of the mail: which fields of the asset each of them looks at,
and which values each accepts. **`Conversation`** is the chat
loop and its trimmed memory. **`Connections`** is the OAuth flow, the copies of a
credential on channels, refresh with rotated tokens and the mail provider's row.

**`MC*`** instantiate these for TLC. `MCReviews` picks a group of operations at
the start and runs `ContentApproval` with them.

**`Desk*` and `Edge*`** put components side by side: a behaviour picks one component,
its *scene*, and follows that component's specification; the variables of the others
keep the value `Off`. Where two components write the same table, each has the part of
it that it decides on: `audience_member` is in `Audiences` (segments) and `Outbound`
(templates), `analytic_event` in `Webhooks`, `WebAnalytics` and `Kpis`. Each of them
has the writes of the others that its properties depend on. A property over scenes
says `scene = ... => ` and names the component's properties, which are stated and
explained in its module. `DeskState` and `EdgeState` declare the parameters, the
assumptions on them and all variables. The components are instantiated in groups:

| Module | Components |
|---|---|
| `DeskChecks` | `Drafting`, `Thresholds`, `BrandVoices`, `Reports` |
| `DeskTests` | `Experiment` |
| `Desk` | these and `Planning`, `Audiences`, `Budget`, `Anomaly`, `Kpis`, `Calendar`, `Planner` |
| `EdgeProviders` | `Webhooks`, `SocialPublish`, `Connections` |
| `EdgeUsers` | `Conversation`, `Previews` |
| `Edge` | these and `WebAnalytics`, `Outbound` |

`MCDesk` and `MCEdge` choose values for the parameters of `Desk` and `Edge`.

**`TaskQueueProofs`, `DistributionProofs`, `ContentApprovalProofs`, `DeskProofs`,
`DeskTestsProofs`, `EdgeProvidersProofs`, `EdgeUsersProofs`, `EdgeProofs`** hold the
theorems and their lemmas (section 5). Operators introduced as
"Mutant of X", and the wrong variants that stand right before X, are plausible
mistakes in X that TLC must catch, at least one for each property and as a rule one
for each conjunct; no specification uses them.

## 3. Runs

Deadlock is not checked anywhere: all tasks finished, the campaign launched, every
asset landed or the bound on requests reached are legal ends.

| Run | Instance | Shows |
|---|---|---|
| `contract` | 3 tasks (two share a key, one has no handler), 2 workers, 2 attempts, a crash per task, no overrun | `ImplementsContract` |
| `zombies` | 1 task, 3 workers, 3 attempts, 1 crash, 2 overruns, fair | `ExclusiveExecution`, `ExecutorsBounded`, `AttemptsWithinBudget`, `FinishedStaysFinished`, `EverythingSettles` |
| `reviews` | 2 assets, 2 sessions, six groups of operations (API, pages, redelivery, serial, assistant, assistant's approve-all) | `ReviewedHasContent`, `DecisionLogged`, `SerialWorkflow` |
| `desk` | the scenes of the table below | the properties of the table below |
| `edge` | the scenes of the table below | the properties of the table below |
| `dispatch` | an email to two contacts and a post, 2 workers, 1 user, 3 requests, fair | `TypeOK`, `NoDoubleSend`, `EveryAssetLands` |
| `requests` | two emails and a post, cap 1, 1 worker, 2 users, 3 requests | `NothingForgotten`, `CapRespected`, `PauseHolds` |
| `faults` | an email and a post, 2 workers, 2 faults, 2 requests, from `ready_to_launch` | `PublishedAccountsForAll`, `SentIsTrueAndKept` |
| `submitskew` | 2 generations side by side | violates `DraftedMeansSubmitted` |
| `threshold` | 1 asset, 1 session, 4 requests | violates `AboveNeedsAdmin` |
| `doubleresume` | 2 users, 2 workers, 3 requests | violates `NoDoubleSend` |
| `unpaused` | 1 email, 1 worker, 1 pause, from `ready_to_launch` | violates `PauseHolds` |

Scenes of `desk` (two sessions or workers each, where there are any):

| Scene | Instance | Property |
|---|---|---|
| `planning` | 2 platforms, 3 answers, 2 proposals, 2 seedings, 6 requests | `PlanConsistent`, `ReplanKeepsOverrides` |
| `experiment` | 3 variants, 2 recipients, 2 tests, 4 requests | `TestsExclusive`, `EndsAreFinal` |
| `thresholds` | 1 asset, settings with no limit, limit 0 and another currency, 4 requests | `ThresholdGates` |
| `drafting` | 2 terms, a variant, overruns up to 2, one rule change | `DraftJudged` |
| `voices` | 3 voices, 5 requests | `ExactlyOneVoice` |
| `audiences` | 2 addresses, files of 2 rows, 2 answers of the directory, 4 requests | `AudienceExact` |
| `budget` | 2 channels, one with a floor, 2 periods, 2 recommendations, amounts whose shares and percentages are rounded, 3 requests | `BudgetSound`, `SpendAsReconciled` |
| `reports` | 2 events, 3 reports, 3 requests | `ReportsSound` |
| `anomalies` | 7 half days, 3 days of baseline, 2 rows | `AlarmsSustained` |
| `kpis` | 2 campaigns, 2 assets, one without a channel, 2 recipients, 2 messages, 2 events | `KpisAttributed` |
| `calendar`, `frequency`, `proposing` | every input within the bounds of the module, as initial states | `AlgorithmsAgree` |

Scenes of `edge`:

| Scene | Instance | Property |
|---|---|---|
| `webhooks` | 6 batches, one of events without ids of their own, 3 spellings of 2 addresses, 4 calls | `EventsKept`, `SuppressedNotMailed` |
| `analytics` | 2 days, a campaign and no campaign, windows that share a day, 3 syncs | `ImportsReconcile` |
| `social` | 3 providers, 2 workers, 2 retries, 3 dispatches, crashes | `DuplicatesNeedDoubt`, `ToldTheTruth` |
| `connections` | 4 grants, 5 calls | `ConnectionsSound` |
| `outbound` | 2 contacts, 3 uploads, 2 directory records, 3 calls or decisions | `OutreachSound` |
| `chat` | 6 messages, 2 turns, 4 calls | `ChatMemorySound` |
| `audit` | 5 assets, 4 payloads, 2 audiences, one edit, any recipients | `PreviewsTrue` |

Read the conditions with the results. `SerialWorkflow` speaks of transactions that
do not overlap: its conjuncts fail otherwise (section 4). `DecisionLogged` leaves
out the assistant's approvals. `NoDoubleSend` holds without faults and with one
user at a time, `CapRespected` with one worker, `PauseHolds` for a campaign that
was live before. In the scenes, the following hold only for requests that do not
overlap (`raced`): that the calendar is current, that overrides are kept, that
ended tests stay ended and published variants published, the threshold gates,
fresh snapshots and exact segments, budgets from applied recommendations, spend that
is what was reconciled, one template per pair with the approved text, and a
conversation that stays cleared. A parked OAuth state lets one callback in unless two
overlap, and a post appears once unless two dispatches overlap or a reply was lost.

Some properties name the exceptions the code has. `SerialWorkflow`: complete drafts
are submitted by whatever completes them, except by `clear_compliance_block`, which
submits nothing, so that a campaign whose last blocked draft is cleared waits for the
next generation, page decision or manual transition. `AudienceExact`: a snapshot goes
by `added_at`, which enrichment leaves alone, so that it misses what was written last
when that was an enrichment of an older row of the contact. `BudgetSound`: the two
channels of a shift keep their money within a cent, and a match is within 1% but for
what rounds away in the fourth decimal. `KpisAttributed`: the mail of an asset without
a channel is in no channel's slice. `EventsKept`: of the events without an id of their
own one per message is kept, and an opt-out is lost to the list when its key was
stored before by the uniform receiver or by another event of its message.
`PreviewsTrue` is about the fields that audit and mail both look at. `OutreachSound`:
what an approved template renders is the body that was approved, and it is the
content only if nobody edited on approval.

Why the bounds are enough. The races are between two transactions on two rows, or one
row and the campaign, so two sessions and two assets show them; a third only repeats
the roles. Where `reviews` runs two transactions at a time, an asset is rejected or
regenerated only while no generation task is open. Redelivered generation tasks have a
group of operations of their own (`Redelivering`); the theorems about the groups hold
for any choice of it. Two overruns and three workers let a zombie meet another zombie
and the rightful holder. Three requests allow pause, resume and one more; the scenes
allow as many requests as it takes to make a row, change it, and have two more meet on
it. Values are chosen at the edges the code compares against: limits of zero, a share
just below a floor, a delta just over 1% that rounds to it, a file with a
malformed row before the good one. Counters are bounded in guards, never by a state
constraint. Symmetry is used in safety runs only, over sessions, assets, workers or
users that no definition names.

Fairness. `TaskQueue`: the polling loop keeps calling `run_once`, a handler
returns or raises, the reaper wakes up at its interval, time passes, and a dead
worker is restarted; nobody must enqueue or cancel. `Distribution`: slots
arrive, workers keep stepping, a request once begun runs to its end; nobody must
begin one. The other components act on request only, and nothing the code
schedules must eventually happen in them, so they have safety properties alone.

## 4. Findings

Listed in `PROJECT.json` with a run each:

* `submitskew`: neither of two concurrent generations sees the other's draft, so
  a fully drafted campaign stays in `content_in_production`.
* `doubleresume`: overlapping resumes enqueue a dispatch twice; the unique key of
  `dispatch_attempt` is consulted before the send and written after it, so both
  executions send. The docstring of `resume_distribution_for_campaign` calls
  duplicates safe.
* `unpaused`: a dispatch that loaded the campaign as `ready_to_launch` sets it
  live although a pause was committed during the send.
* `threshold`: the review pages and the assistant approve without evaluating the
  threshold that the API enforces.

The properties above also fail outside their conditions, in instances not kept
as runs:

* `ApprovedMeansLaunched` with two sessions (operations generate and approve):
  the launch has the same write skew as the submission.
* `NoFlaggedApproval` with two sessions: an approval writes over a redraft that
  was flagged after the approval had loaded the asset.
* `NoFlaggedApproval` with `assistantApprove`, even in one session: the tool
  tests `compliance_violations`, a key nothing writes.
* `DecisionBeforeDispatch` with `assistantApproveAll`: no row is written to
  `approval_decision_log`.
* `NoDoubleSend` with one fault: the provider delivers, the call raises, the
  retry sends again.
* `CapRespected` with two workers: both count before either commits.

Five statements of the docs are kept as definitions in their modules, and no run
checks them because TLC finds them false of the code:

* `Planning!AcceptedHasCalendar` ("so the `accepted` flag and the calendar appear
  atomically", `agents/strategist.py`): when seeding raises in the assistant's tool
  the error is caught and the transaction, flag included, is committed.
* `WebAnalytics!SingleRowPerTraffic` ("dedup keeps a single row",
  `docs/backlog/stories/E12-integrations.md:82`): the key contains the bounds of the
  window, so an overlapping window with other bounds imports the traffic again.
* `Anomaly!DismissalSilences` ("won't re-fire for 24h", `analytics/anomaly.py`):
  the lookup that silences skips dismissed rows, so the next pass fires again.
* `Webhooks!OptOutListed` (`docs/backlog/stories/E16-nfr-security-compliance.md:67`):
  the uniform receiver stores an opt-out and writes no suppression row, and the
  older one then skips the event as a duplicate.
* `Connections!ReconnectRestores` ("Admin must re-OAuth + manually resume the
  campaign", `agents/distribution.py`): channels hold a copy of the credential,
  which a new connection does not update.

Behaviours met while modelling that no property states:

* Queue and distribution: a worker that outlived its lease can rewrite a task
  another worker has closed. `resume` can write `failed` over the `published` of a
  dispatch that committed after its select. The second of two overlapping
  dispatches keeps the first one's attempt row, so its message counts nowhere.
* Planning: two acceptances side by side lay the calendar down twice. The
  assistant's `generate_content` seeds the assets again.
* Content: rules changed during a generation are not applied to it. An old
  `length_warning` survives a regeneration. A budget raised after an approval is not
  gated again. Overlapping PUTs of the approval settings mix their columns.
  `clear_compliance_block` tries no transition.
* Audiences: a contact is taken into a segment if any of its rows meets the criteria,
  and the snapshot carries its freshest row, which may not. Two enrichments of one
  audience side by side overwrite each other's payloads.
* Voices: two activations side by side trip the unique index, which migration 0009
  says "never trips during normal use"; one of them fails.
* A/B tests: a stop and an evaluation can overwrite each other, and a promotion can
  archive a variant that a dispatch is publishing.
* Analytics: one spike can be the two alarms that pause a campaign. Budget shifts
  are computed from the strategy, not from the current allocation, so applied
  shifts need not conserve the total. An acceptance and a rejection can both be
  recorded. Reconciling again overwrites `explained` and `disputed`. A report that
  commits late can become the latest. Nothing writes `analytic_event.channel_id`
  or produces `spend` events.
* Assistant: two `tool_use` blocks in one turn leave one unanswered. After an
  `AssistantError` tool writes are committed and the exchange is not stored. A chat
  in flight restores a cleared thread.
* Outbound: overlapping drafts insert a template twice, after which the lookup of
  that pair fails. Overwriting a draft while it is approved leaves the approval on
  the new text. The enrichment cap is spent again by each call. An approval with an
  edited `content` leaves `fields.body`, from which drafts are rendered, as it was; a
  rejected template cannot be regenerated, since it names no platform.
* Connections and publishing: a refresh that is rolled back loses the rotated
  token. A publish that timed out is sent again and may appear twice, and so may one
  that two workers dispatch at once (which is what `DuplicatesNeedDoubt` allows).
  `dispatch_social_asset` refuses Meta and X although their connectors exist. The
  connectors take 403 for a revoked token, which fails the asset and pauses the
  campaign; the comment on `ProviderRejectedError` (`integrations/social/base.py:63`)
  has every "4xx other than 401" rejected.
* Previews: the audit reads every entry of `metadata.fields`, and `body` in place of
  `content`; the mail is made of `content` and the subject, or the title when there
  is none. A link is refused by its configured lifetime, not by the `expires_at`
  of a custom `ttl_days`. The audit normalises `{{ First_Name }}` and counts
  booleans, which the mail does not merge, and reports `unsubscribe_url` missing.

## 5. Proofs

`TaskQueueProofs` proves, for any sets of tasks and workers and any bounds, from
`QueueAssumption` only:

* `TypeCorrect`, `LeasesOnRunningRows`, `ClaimsAreExclusive`, `SuccessIsReal`:
  the invariants `TypeOK`, `LeaseIffRunning`, `ExclusiveExecution`,
  `SucceededMeansPerformed`;
* `ZombiesAreBounded`: the invariant `ExecutorsBounded`;
* `AttemptsAreBudgeted`: the invariant `AttemptsWithinBudget`;
* `FinishedTasksStay`: the action property `FinishedStaysFinished`;
* `QueueKeepsContract`: with `MaxOverruns = 0`, `Spec` implements `TaskContract`.

The inductive invariant is
`IInv == TypeOK /\ LeaseIffRunning /\ OwnerHolds /\ Performed`. Exclusion is not
inductive alone: a second claim is impossible because the row is `running`, and
that is known only if the executor's own row says so. `OwnerHolds` adds it: while
no lease of a task has run out under a live worker, whoever executes the task is
the `worker_id` of its running row. `Performed` adds that a worker about to
call `complete()` has committed its handler, which success needs. `Inductive`
proves the invariant with one step per action; the theorems follow from it.

The bound on executors needs one more invariant, `StraysBounded`. A stray is an
executor whose lease on the row does not run. A claim adds no stray; a lease that
ends adds one, and one overrun; a stray that writes the row by id may turn the
rightful holder into a stray, but is gone itself. So there are never more strays
than overruns, and one executor at most is not a stray.

The bound on attempts has to leave room for the claims that are on their way
(`Claims`): one for each worker that has read in `fail()` that an attempt is left,
and one for a row that is in the queue or that the reaper will return to it.
`Budgeted` says that once `max_attempts` is reached, the attempts and the claims to
come are together within `max_attempts`, crashes and overruns. A claim turns one to
come into an attempt; a stale `fail()` turns the worker's into the row's; a crash or
an overrun opens one and pays for it; `fail()` opens none, because it reads an
attempt count that is used up. When a claim reaches `max_attempts`, the workers that
may still retry are strays, so that `StraysBounded` pays for them.

`DistributionProofs` proves, for any assets, audiences, workers, users and bounds,
from `DistributionAssumption` only, `TypeOK` (`TypesHold`),
`PublishedAccountsForAll` (`PublishedMeansAccounted`) and `SentIsTrueAndKept`
(`SentRowsAreTrue`). A dispatch decides its batch when it loads and writes its rows
when it commits, with other commits, crashes and repeated executions in between,
so neither is inductive. The invariant `DInv` says what a dispatch under way
carries (`Carried`): its batch, then its answer, together with the recipients it
skips, is the whole audience but for those who have a row of the asset or were
sent another, and the answer says `sent` only of deliveries. Rows and deliveries
never go away (`RowsStay`), so this survives whatever the others commit
(`CarriedKept`). All steps but Load, Send and Commit go through one lemma
(`PlainStep`).

For a campaign that starts `live`, with any faults and any overlapping requests, it
also proves `NothingForgotten` (`LiveCampaignForgetsNothing`) and `PauseHolds`
(`LiveCampaignPauseHolds`). `LiveInv` adds that the campaign never is
`ready_to_launch` again, not even in the copy a dispatch has loaded, so that
`_maybe_go_live` writes nothing; and that a resume under way has selected every asset
that is still scheduled, so that its commit leaves none without a task. From
`ready_to_launch` on `PauseHolds` is false (`unpaused`).

It also proves what depends on the order of sends, always with
`MaxFaults = 0` (nothing crashes, no answer is lost, no lease ends early; handlers may
still raise before they deliver):

* `NobodySentTwice`: `NoDoubleSend` for any number of workers and one user;
* `NobodySentTwiceByOneWorker`: `NoDoubleSend` for one worker and any number of users;
* `OneWorkerKeepsTheCap`: `CapRespected` for one worker, any users, any cap, and a
  finite set of assets.

The first two rest on different arguments. With one user there is never a second task
of an asset (`OneTask`): a resume puts back only what has no task, as a pause leaves
none waiting (`NoneWaiting`). With two users there can be, and then a single worker is
saved by what it finds recorded: an asset with a delivery has its rows or is no longer
scheduled (`RecordInv`). `CapInv` adds that a dispatch under way has room left under
the cap for everybody in its batch. Each assumption is needed: `doubleresume` has two
users and two workers, and section 4 lists the failures with a fault and with two
workers.

`ContentApprovalProofs` proves, for any assets, sessions, operations and bounds, from
the assumptions of `ContentApproval` only, `ReviewedHasContent`
(`NothingEmptyReviewed`), and, where the assistant's two approvals are not among the
operations, `DecisionBeforeDispatch` (`LoggedBeforeDispatch`). Both are about a check
made in one step and a write made in a later one, with other commits in between. They
hold because what the check saw is never undone: a draft and a logged decision stay,
and an asset that is not required never becomes so. `ContentInv` and `DecisionInv` say
of each open transaction that what it is about to write is backed by such a fact, or
will be by its own commit. The module begins with the lemmas both use: the types, and
what each step leaves of the record of a transaction.

It also proves, for any assets, sessions and bounds, `DecisionLogged`
(`LoggedUnlessAssisted`) and, for a campaign with assets, `SerialWorkflow`
(`SerialReviewsAreRight`) of `MCReviews`. The second is about the workflow and not
about races: `SerialInv` says that the rows are right after every commit (no flagged
approval, nothing complete left unlaunched), and of the one open transaction that its
own view will be right once it has taken the transition it has decided on. That
complete drafts are submitted is no invariant, since `clear_compliance_block` breaks
it; it is proved of the commits (`SerialSubmits`). The operations of `Submitting` try
the transition themselves; the others take their assets out of `drafted`, and so
complete no drafts (`OthersUnsubmitted`).

`EdgeProofs` proves seven of the nine properties of the run `edge`, of
`Edge!Spec` and for any values of the parameters, from the assumptions of
`EdgeState`. A step of a scene is a step of its component, so the invariant `EdgeInv`
is one inductive invariant per scene; those and their lemmas are in
`EdgeProvidersProofs` and `EdgeUsersProofs`.

* `AcknowledgedEventsAreKept` (`EventsKept`) and `SuppressedAreNotMailed`
  (`SuppressedNotMailed`), for any batches, addresses and spellings, with an
  idempotent `lower` and event ids that no other event or message has
  (`EventIdsAssumption`). What a provider is told depends on what other open
  transactions do before this one commits. `WebhookInv` says of each open transaction
  that every event it will acknowledge is stored, among its own rows or still to do
  (`AllCarried`), that its rows are nobody else's, which is what the waits on the
  unique index give (`Apart`), and that a batch of mail leaves out whoever was on the
  list it has read (`MailSound`).
* `NoDuplicateWithoutDoubt` (`DuplicatesNeedDoubt`) and `CallerIsToldTheTruth`
  (`ToldTheTruth`), for any workers, `MaxRetries` and number of dispatches. Until two
  dispatches overlap in publishing, `SocialInv` accounts for every post by a doubt, but
  for one that has landed (its attempt is committed or about to be), and says that at
  most one dispatch is publishing and none after a landing (`Accounted`);
  always, that a loop has made one request per attempt and that what is recorded is
  backed by a post (`Backed`).
* `ConnectionsAreSound` (`ConnectionsSound`), for any number of grants and calls. That
  there is one credential needs that a request holds a row that exists (`RowsKnown`);
  the two promises to requests that do not overlap need that nobody else is open and
  that no callback has used the state a request still holds (`Serial`).
* `ChatMemoryIsSound` (`ChatMemorySound`), for any window that holds an exchange
  (`WindowAssumption`: 2 messages a turn and one more; the code has 4 turns and 20
  messages). Trimming drops a prefix and then the messages up to the next question, and
  finds one because the newest question is within the window. `ChatInv` says that every
  message of a thread, stored or being extended, answers only what the one before asked
  (`Chained`).
* `PreviewsAreTrue` (`PreviewsTrue`), for any assets, audiences and recipients: at a
  field both look at, the audit and the mail leave the same gaps (`SameGaps`), so that
  they count the same members.

`DeskProofs` and `DeskTestsProofs` prove six properties of the run `desk`, for any
values of the parameters. They speak of `ChecksSpec` and `TestsSpec`, the scenes of
one group: a behaviour of `Desk!Spec` stays in the scene it started in,
and in any other scene these properties say nothing.

* `DraftsAreJudged` (`DraftJudged`), for any rules and numbers of retries. `DraftInv`
  adds that the tool's best text is no longer than any answer so far.
* `GatesHold` (`ThresholdGates`), for any settings and budgets of the types of
  `GatesAssumption`. A gate is evaluated on what a request has loaded and the decision
  is written later; `GateInv` says that until two requests overlap, what the open one
  has read is still so.
* `AlwaysOneVoice` (`ExactlyOneVoice`), for any voices and requests in flight. The index
  gives at most one; that there is one at all needs that a transaction switching others
  off switches its own voice on (`OffNeedsOn`).
* `ReportsAreSound` (`ReportsSound`), for any events and requests in flight, `Absent`
  not being a number. `ReportInv` says that the rows have the versions 1..n and the
  last is the latest (`Numbered`), and that the row a request read as latest is still
  in the table: the two unique constraints refuse the request's row unless that one is
  the last.
* `TestsAreExclusive` (`TestsExclusive`) and `FinishedTestsStay` (`EndsAreFinal`), for
  any recipients, hash, splits and requests in flight. A mail stays sent when its
  dispatch is rolled back and its assignments are lost, so that a recipient's variant
  must come out the same the next time. `ArmInv` says that a test is either settled
  (every recipient is assigned, and no mail, dispatch or row contradicts it) or
  untouched (nobody is assigned, it has no winner, and whatever was mailed is what the
  split still in the row gives). A promotion changes the split, but needs a winner; a
  winner needs assignments; and the first dispatch to commit any commits one for every
  recipient. `TestSerial` adds what requests that do not overlap have read, for the
  second theorem.

Most leaves are first-order reasoning about sets and functions, so the larger proof
modules start with `USE Zenon`; a leaf with arithmetic or records says `SMT`.

Only model-checked:

* liveness (`EverythingSettles`, `EveryAssetLands`): the prover has no fairness and
  no ENABLED;
* the algorithms of `Calendar` and `Planner` (`AlgorithmsAgree`), which recurse or
  fold over sequences, and what rests on them in `Planning` (`PlanConsistent`,
  `ReplanKeepsOverrides`): what a recursion computes for every input needs induction
  over data, which the prover lacks;
* sums and counts over data, for the same reason: `ImportsReconcile` (the imports of
  a window add up), `BudgetSound`, `AlarmsSustained` and `KpisAttributed` (shares,
  baselines and attributed counts), and `AudienceExact` (a file read row by row);
* `SpendAsReconciled`, which compares sums over channels, and `OutreachSound`, whose
  templates are picked from sequences in each of its conjuncts: no proof yet.

## 6. What could come next

* Proofs of `Outbound` and of `SpendAsReconciled` in `Budget`, which need no induction
  over data.
* The state machine over a campaign's whole life as an abstract specification
  that `Planning`, `ContentApproval` and `Distribution` implement.

## 7. Not modelled

* Text: prompts, generated copy, compliance wording, SEO scores, rendering and
  footers. Their verdicts are nondeterministic.
* HTTP, signatures, encryption of credentials, authentication and row-level
  security. Roles are modelled where a decision depends on them.
* Endpoints that insert or overwrite one row nobody else decides on: frequency
  caps, rate limits, compliance settings, generic event ingest. The cap is a
  constant of `Distribution`. The pattern of such a PUT is checked in `Thresholds`.
* Read-only dashboards, lists, KPI rates and freshness; audit rows, which nothing
  reads back; scripts, demos and the ads connectors, which nothing calls.
* Preview share links: a signed token with a lifetime, which changes no row and reads
  the asset as it is when opened.
* The slot arithmetic of scheduling; backoff delays, of which only "later" remains.
