-------------------------------- MODULE Desk --------------------------------
(***************************************************************************)
(* The desk as a whole.  Its components meet in the tables, but no         *)
(* property below needs the steps of two of them: what one reads of        *)
(* another's rows is an input or an action of its own (enrichment is one   *)
(* of Audiences).  So they are composed side by side: a behaviour picks    *)
(* the component that is at work, its scene, and runs that component's     *)
(* specification.  The calendar, frequency and proposing scenes have no    *)
(* behaviour: their initial states enumerate the inputs of a pure          *)
(* algorithm.                                                              *)
(***************************************************************************)
EXTENDS DeskChecks, DeskTests, Folds, Functions

P == INSTANCE Planning WITH Answers <- PlanAnswers, MaxCalls <- PlanCalls

A == INSTANCE Audiences WITH
  Files <- AudienceFiles, Criteria <- SegmentCriteria, MaxCalls <- AudienceCalls

B == INSTANCE Budget WITH Snapshots <- ChannelSnapshots, MaxCalls <- BudgetCalls

N == INSTANCE Anomaly WITH MaxEvents <- MetricEvents

K == INSTANCE Kpis WITH Workers <- Sessions

C == INSTANCE Calendar

G == INSTANCE Planner
-----------------------------------------------------------------------------
PInit ==
  /\ scene = "planning" /\ P!Init
  /\ tests = Off /\ asset = Off /\ group = Off /\ assigned = Off /\ sent = Off /\ opens = Off
  /\ settings = Off /\ budget = Off /\ asked = Off /\ log = Off /\ rules = Off /\ changes = Off
  /\ round = Off /\ phase = Off /\ used = Off /\ attempt = Off /\ hints = Off /\ retry = Off
  /\ best = Off /\ overruns = Off /\ stored = Off /\ voices = Off /\ active = Off /\ members = Off
  /\ upload = Off /\ segments = Off /\ known = Off /\ clock = Off /\ allocated = Off /\ spent = Off
  /\ recs = Off /\ recon = Off /\ status = Off /\ hits = Off /\ misses = Off /\ others = Off
  /\ kpi = Off /\ reports = Off /\ metric = Off /\ optedIn = Off /\ now = Off /\ counts = Off
  /\ anomalies = Off /\ events = Off /\ sentFor = Off /\ input = Off

PNext ==
  /\ scene = "planning" /\ P!Next
  /\ UNCHANGED <<scene, tests, asset, group, assigned, sent, opens, settings, budget,
                 asked, log, rules, changes, round, phase, used, attempt, hints, retry,
                 best, overruns, stored, voices, active, members, upload, segments,
                 known, clock, allocated, spent, recs, recon, status, hits, misses,
                 others, kpi, reports, metric, optedIn, now, counts, anomalies, events,
                 sentFor, input>>

AInit ==
  /\ scene = "audiences" /\ A!Init
  /\ campaign = Off /\ audience = Off /\ forbidden = Off /\ caps = Off /\ proposals = Off /\ calendar = Off
  /\ queued = Off /\ seeds = Off /\ content = Off /\ tests = Off /\ asset = Off /\ group = Off
  /\ assigned = Off /\ sent = Off /\ opens = Off /\ settings = Off /\ budget = Off /\ asked = Off
  /\ log = Off /\ rules = Off /\ changes = Off /\ round = Off /\ phase = Off /\ used = Off
  /\ attempt = Off /\ hints = Off /\ retry = Off /\ best = Off /\ overruns = Off /\ stored = Off
  /\ voices = Off /\ active = Off /\ allocated = Off /\ spent = Off /\ recs = Off /\ recon = Off
  /\ status = Off /\ hits = Off /\ misses = Off /\ others = Off /\ kpi = Off /\ reports = Off
  /\ metric = Off /\ optedIn = Off /\ now = Off /\ counts = Off /\ anomalies = Off /\ events = Off
  /\ sentFor = Off /\ input = Off

ANext ==
  /\ scene = "audiences" /\ A!Next
  /\ UNCHANGED <<scene, campaign, audience, forbidden, caps, proposals, calendar,
                 queued, seeds, content, tests, asset, group, assigned, sent, opens,
                 settings, budget, asked, log, rules, changes, round, phase, used,
                 attempt, hints, retry, best, overruns, stored, voices, active,
                 allocated, spent, recs, recon, status, hits, misses, others, kpi,
                 reports, metric, optedIn, now, counts, anomalies, events, sentFor,
                 input>>

BInit ==
  /\ scene = "budget" /\ B!Init
  /\ campaign = Off /\ audience = Off /\ forbidden = Off /\ caps = Off /\ proposals = Off /\ calendar = Off
  /\ queued = Off /\ seeds = Off /\ content = Off /\ tests = Off /\ asset = Off /\ group = Off
  /\ assigned = Off /\ sent = Off /\ opens = Off /\ settings = Off /\ budget = Off /\ asked = Off
  /\ log = Off /\ rules = Off /\ changes = Off /\ round = Off /\ phase = Off /\ used = Off
  /\ attempt = Off /\ hints = Off /\ retry = Off /\ best = Off /\ overruns = Off /\ stored = Off
  /\ voices = Off /\ active = Off /\ members = Off /\ upload = Off /\ segments = Off /\ known = Off
  /\ clock = Off /\ hits = Off /\ misses = Off /\ others = Off /\ kpi = Off /\ reports = Off
  /\ metric = Off /\ optedIn = Off /\ now = Off /\ counts = Off /\ anomalies = Off /\ events = Off
  /\ sentFor = Off /\ input = Off

BNext ==
  /\ scene = "budget" /\ B!Next
  /\ UNCHANGED <<scene, campaign, audience, forbidden, caps, proposals, calendar,
                 queued, seeds, content, tests, asset, group, assigned, sent, opens,
                 settings, budget, asked, log, rules, changes, round, phase, used,
                 attempt, hints, retry, best, overruns, stored, voices, active,
                 members, upload, segments, known, clock, hits, misses, others, kpi,
                 reports, metric, optedIn, now, counts, anomalies, events, sentFor,
                 input>>

NInit ==
  /\ scene = "anomalies" /\ N!Init
  /\ campaign = Off /\ audience = Off /\ forbidden = Off /\ caps = Off /\ proposals = Off /\ calendar = Off
  /\ queued = Off /\ seeds = Off /\ calls = Off /\ content = Off /\ raced = Off /\ tx = Off
  /\ tests = Off /\ asset = Off /\ group = Off /\ assigned = Off /\ sent = Off /\ opens = Off
  /\ settings = Off /\ budget = Off /\ asked = Off /\ log = Off /\ rules = Off /\ changes = Off
  /\ round = Off /\ phase = Off /\ used = Off /\ attempt = Off /\ hints = Off /\ retry = Off
  /\ best = Off /\ overruns = Off /\ stored = Off /\ voices = Off /\ active = Off /\ members = Off
  /\ upload = Off /\ segments = Off /\ known = Off /\ clock = Off /\ allocated = Off /\ spent = Off
  /\ recs = Off /\ recon = Off /\ hits = Off /\ misses = Off /\ others = Off /\ kpi = Off
  /\ reports = Off /\ events = Off /\ sentFor = Off /\ input = Off

NNext ==
  /\ scene = "anomalies" /\ N!Next
  /\ UNCHANGED <<scene, campaign, audience, forbidden, caps, proposals, calendar,
                 queued, seeds, calls, content, raced, tx, tests, asset, group,
                 assigned, sent, opens, settings, budget, asked, log, rules, changes,
                 round, phase, used, attempt, hints, retry, best, overruns, stored,
                 voices, active, members, upload, segments, known, clock, allocated,
                 spent, recs, recon, hits, misses, others, kpi, reports, events,
                 sentFor, input>>

KInit ==
  /\ scene = "kpis" /\ K!Init
  /\ campaign = Off /\ audience = Off /\ forbidden = Off /\ caps = Off /\ proposals = Off /\ calendar = Off
  /\ queued = Off /\ seeds = Off /\ calls = Off /\ content = Off /\ raced = Off /\ tests = Off
  /\ asset = Off /\ group = Off /\ assigned = Off /\ sent = Off /\ opens = Off /\ settings = Off
  /\ budget = Off /\ asked = Off /\ log = Off /\ rules = Off /\ changes = Off /\ round = Off
  /\ phase = Off /\ used = Off /\ hints = Off /\ retry = Off /\ best = Off /\ overruns = Off
  /\ stored = Off /\ voices = Off /\ active = Off /\ members = Off /\ upload = Off /\ segments = Off
  /\ known = Off /\ clock = Off /\ allocated = Off /\ spent = Off /\ recs = Off /\ recon = Off
  /\ status = Off /\ hits = Off /\ misses = Off /\ others = Off /\ kpi = Off /\ reports = Off
  /\ metric = Off /\ optedIn = Off /\ now = Off /\ counts = Off /\ anomalies = Off /\ input = Off

KNext ==
  /\ scene = "kpis" /\ K!Next
  /\ UNCHANGED <<scene, campaign, audience, forbidden, caps, proposals, calendar,
                 queued, seeds, calls, content, raced, tests, asset, group, assigned,
                 sent, opens, settings, budget, asked, log, rules, changes, round,
                 phase, used, hints, retry, best, overruns, stored, voices, active,
                 members, upload, segments, known, clock, allocated, spent, recs,
                 recon, status, hits, misses, others, kpi, reports, metric, optedIn,
                 now, counts, anomalies, input>>

CInit ==
  /\ scene = "calendar" /\ input \in CalendarInputs
  /\ campaign = Off /\ audience = Off /\ forbidden = Off /\ caps = Off /\ proposals = Off /\ calendar = Off
  /\ queued = Off /\ seeds = Off /\ calls = Off /\ content = Off /\ raced = Off /\ tx = Off
  /\ tests = Off /\ asset = Off /\ group = Off /\ assigned = Off /\ sent = Off /\ opens = Off
  /\ settings = Off /\ budget = Off /\ asked = Off /\ log = Off /\ rules = Off /\ changes = Off
  /\ round = Off /\ phase = Off /\ used = Off /\ attempt = Off /\ hints = Off /\ retry = Off
  /\ best = Off /\ overruns = Off /\ stored = Off /\ voices = Off /\ active = Off /\ members = Off
  /\ upload = Off /\ segments = Off /\ known = Off /\ clock = Off /\ allocated = Off /\ spent = Off
  /\ recs = Off /\ recon = Off /\ status = Off /\ hits = Off /\ misses = Off /\ others = Off
  /\ kpi = Off /\ reports = Off /\ metric = Off /\ optedIn = Off /\ now = Off /\ counts = Off
  /\ anomalies = Off /\ events = Off /\ sentFor = Off

FInit ==
  /\ scene = "frequency" /\ input \in FrequencyInputs
  /\ campaign = Off /\ audience = Off /\ forbidden = Off /\ caps = Off /\ proposals = Off /\ calendar = Off
  /\ queued = Off /\ seeds = Off /\ calls = Off /\ content = Off /\ raced = Off /\ tx = Off
  /\ tests = Off /\ asset = Off /\ group = Off /\ assigned = Off /\ sent = Off /\ opens = Off
  /\ settings = Off /\ budget = Off /\ asked = Off /\ log = Off /\ rules = Off /\ changes = Off
  /\ round = Off /\ phase = Off /\ used = Off /\ attempt = Off /\ hints = Off /\ retry = Off
  /\ best = Off /\ overruns = Off /\ stored = Off /\ voices = Off /\ active = Off /\ members = Off
  /\ upload = Off /\ segments = Off /\ known = Off /\ clock = Off /\ allocated = Off /\ spent = Off
  /\ recs = Off /\ recon = Off /\ status = Off /\ hits = Off /\ misses = Off /\ others = Off
  /\ kpi = Off /\ reports = Off /\ metric = Off /\ optedIn = Off /\ now = Off /\ counts = Off
  /\ anomalies = Off /\ events = Off /\ sentFor = Off

GInit ==
  /\ scene = "proposing" /\ input \in ProposingInputs
  /\ campaign = Off /\ audience = Off /\ forbidden = Off /\ caps = Off /\ proposals = Off /\ calendar = Off
  /\ queued = Off /\ seeds = Off /\ calls = Off /\ content = Off /\ raced = Off /\ tx = Off
  /\ tests = Off /\ asset = Off /\ group = Off /\ assigned = Off /\ sent = Off /\ opens = Off
  /\ settings = Off /\ budget = Off /\ asked = Off /\ log = Off /\ rules = Off /\ changes = Off
  /\ round = Off /\ phase = Off /\ used = Off /\ attempt = Off /\ hints = Off /\ retry = Off
  /\ best = Off /\ overruns = Off /\ stored = Off /\ voices = Off /\ active = Off /\ members = Off
  /\ upload = Off /\ segments = Off /\ known = Off /\ clock = Off /\ allocated = Off /\ spent = Off
  /\ recs = Off /\ recon = Off /\ status = Off /\ hits = Off /\ misses = Off /\ others = Off
  /\ kpi = Off /\ reports = Off /\ metric = Off /\ optedIn = Off /\ now = Off /\ counts = Off
  /\ anomalies = Off /\ events = Off /\ sentFor = Off

Init ==
  \/ ChecksInit \/ XInit
  \/ PInit \/ AInit \/ BInit \/ NInit \/ KInit
  \/ CInit \/ FInit \/ GInit

Next ==
  \/ ChecksNext \/ XNext
  \/ PNext \/ ANext \/ BNext \/ NNext \/ KNext

Spec == Init /\ [][Next]_vars
-----------------------------------------------------------------------------
\* However strategist runs, acceptances, overrides and moves overlap, versions are
\* 1, 2, 3, ..., at most one proposal is accepted and only it has touchpoints, and
\* the campaign is past audience_built only with an accepted plan.  When they do
\* not overlap, the calendar is the accepted plan's, seeded once, and its
\* warnings are those of its rows as they are now (agents/strategist.py,
\* api/strategy.py, assistant/tools.py).
PlanConsistent ==
  scene = "planning" =>
    /\ P!VersionsDense
    /\ P!OnePlan
    /\ P!CalendarCurrent
    /\ P!StatusBacked

\* "Re-plan treats them as hard constraints" (_carry_overrides): a proposal without
\* warnings keeps what a human overrode on the one before it and uses no forbidden
\* platform, when nothing else ran while it was planned.
ReplanKeepsOverrides == [][scene = "planning" => P!ReplanKeepsOverridesStep]_vars

\* An upload imports, for each address, the first well-formed row of the file up
\* to the limit, and imports or reports every row.  With requests one at a time, a
\* materialised member carries the payload last written for the contact, unless
\* that was an enrichment of a row older than another of the contact's, and a
\* segment takes every contact whose rows all have a country and meet its rules,
\* and no contact without a row that does (csv_upload.py, segmentation.py,
\* audience_targeting.py, outbound/enrichment.py).
AudienceExact ==
  scene = "audiences" =>
    /\ A!FirstAcceptableImported
    /\ A!SnapshotIsFreshest
    /\ A!SegmentExact

\* A proposed shift keeps the money of its two channels together, moves 10% to 50%
\* of the laggard's allocation, both within a cent's rounding, and leaves the
\* laggard its floor; one decision at a time, the budget holds only what an applied
\* recommendation put there; a period is matched exactly when its invoice is within
\* 1% of what was tracked, to the fourth decimal of the percentage
\* (recommendations.py, api/analytics.py, spend_reconciliation.py).
BudgetSound ==
  scene = "budget" =>
    /\ B!ShiftsBounded
    /\ B!BudgetFromApplied
    /\ B!MatchedWithinOnePercent

\* One request at a time, a completed campaign whose latest period was matched after
\* it completed has exactly the spend that was reconciled (_is_spend_read_only:
\* "completed + reconciled -- spend is read-only").
SpendAsReconciled == scene = "budget" => B!SpendAsReconciled

\* A persisting deviation is not recorded again within 24 hours, and the analysis
\* pauses a campaign only on a sustained alarm: the tenant opted in and two
\* undismissed critical rows, more than 24 hours apart, stand (detect_anomalies,
\* should_auto_pause).
AlarmsSustained ==
  [][scene = "anomalies" =>
       /\ N!FiresSpaced'
       /\ N!PausedOnlySustainedStep]_vars

\* An event about a message counts for the campaign the message was sent for and
\* for no other, whether it was stored before or after the dispatch committed, and
\* the slices by asset split the mail counts of the campaign without loss or
\* overlap, and those by channel the counts of the assets that have a channel; what
\* was counted once is counted from then on (compute_campaign_kpis).
KpisAttributed ==
  [][scene = "kpis" =>
       /\ K!CreditedOnce'
       /\ K!SlicesAddUp'
       /\ K!CountsOnlyGrowStep]_vars

\* The pure algorithms agree with their definitions: the calendar lays down what
\* its own caps admit, within the dates and with a touch for every share; looking
\* at the nearest touches flags the same ones as looking at all of them; and the
\* planner keeps the best answer it saw (_calendar.py, _strategist_planner.py).
AlgorithmsAgree ==
  /\ scene = "calendar" => C!SoundCalendar(input.channels, input.duration, input.caps)
  /\ scene = "frequency" =>
       C!FlaggedByDefinition({[platform |-> IF i % 2 = 0 THEN "email" ELSE "linkedin",
                               position |-> i,
                               day      |-> FoldFunctionOnSet(+, 0, input, 1..i)] : i \in DOMAIN input})
  /\ scene = "proposing" => G!BestAnswerKept(input.answers, input.ctx)
=============================================================================
