----------------------------- MODULE DeskChecks -----------------------------
(***************************************************************************)
(* What is checked at the desk: drafts by the compliance rules, approvals  *)
(* by the spend thresholds, and, where one row of a table is the current   *)
(* one, brand voices and reports by its unique index.                      *)
(***************************************************************************)
EXTENDS DeskState

D == INSTANCE Drafting

T == INSTANCE Thresholds WITH
  Assets <- Gated, Bodies <- SettingBodies, Budgets <- CampaignBudgets, MaxCalls <- GateCalls

V == INSTANCE BrandVoices WITH MaxCalls <- VoiceCalls

R == INSTANCE Reports WITH MaxEvents <- ReportEvents, MaxCalls <- ReportCalls
-----------------------------------------------------------------------------
\* Variables of other components keep a constant value.
DInit ==
  /\ scene = "drafting" /\ D!Init
  /\ campaign = Off /\ audience = Off /\ forbidden = Off /\ caps = Off /\ proposals = Off /\ calendar = Off
  /\ queued = Off /\ seeds = Off /\ calls = Off /\ content = Off /\ raced = Off /\ tx = Off
  /\ tests = Off /\ asset = Off /\ group = Off /\ assigned = Off /\ sent = Off /\ opens = Off
  /\ settings = Off /\ budget = Off /\ asked = Off /\ log = Off /\ voices = Off /\ active = Off
  /\ members = Off /\ upload = Off /\ segments = Off /\ known = Off /\ clock = Off /\ allocated = Off
  /\ spent = Off /\ recs = Off /\ recon = Off /\ status = Off /\ hits = Off /\ misses = Off
  /\ others = Off /\ kpi = Off /\ reports = Off /\ metric = Off /\ optedIn = Off /\ now = Off
  /\ counts = Off /\ anomalies = Off /\ events = Off /\ sentFor = Off /\ input = Off

DNext ==
  /\ scene = "drafting" /\ D!Next
  /\ UNCHANGED <<scene, campaign, audience, forbidden, caps, proposals, calendar,
                 queued, seeds, calls, content, raced, tx, tests, asset, group,
                 assigned, sent, opens, settings, budget, asked, log, voices, active,
                 members, upload, segments, known, clock, allocated, spent, recs,
                 recon, status, hits, misses, others, kpi, reports, metric, optedIn,
                 now, counts, anomalies, events, sentFor, input>>

TInit ==
  /\ scene = "thresholds" /\ T!Init
  /\ campaign = Off /\ audience = Off /\ forbidden = Off /\ caps = Off /\ proposals = Off /\ calendar = Off
  /\ queued = Off /\ seeds = Off /\ content = Off /\ tests = Off /\ group = Off /\ assigned = Off
  /\ sent = Off /\ opens = Off /\ rules = Off /\ changes = Off /\ round = Off /\ phase = Off
  /\ used = Off /\ attempt = Off /\ hints = Off /\ retry = Off /\ best = Off /\ overruns = Off
  /\ stored = Off /\ voices = Off /\ active = Off /\ members = Off /\ upload = Off /\ segments = Off
  /\ known = Off /\ clock = Off /\ allocated = Off /\ spent = Off /\ recs = Off /\ recon = Off
  /\ status = Off /\ hits = Off /\ misses = Off /\ others = Off /\ kpi = Off /\ reports = Off
  /\ metric = Off /\ optedIn = Off /\ now = Off /\ counts = Off /\ anomalies = Off /\ events = Off
  /\ sentFor = Off /\ input = Off

TNext ==
  /\ scene = "thresholds" /\ T!Next
  /\ UNCHANGED <<scene, campaign, audience, forbidden, caps, proposals, calendar,
                 queued, seeds, content, tests, group, assigned, sent, opens, rules,
                 changes, round, phase, used, attempt, hints, retry, best, overruns,
                 stored, voices, active, members, upload, segments, known, clock,
                 allocated, spent, recs, recon, status, hits, misses, others, kpi,
                 reports, metric, optedIn, now, counts, anomalies, events, sentFor,
                 input>>

VInit ==
  /\ scene = "voices" /\ V!Init
  /\ campaign = Off /\ audience = Off /\ forbidden = Off /\ caps = Off /\ proposals = Off /\ calendar = Off
  /\ queued = Off /\ seeds = Off /\ content = Off /\ raced = Off /\ tests = Off /\ asset = Off
  /\ group = Off /\ assigned = Off /\ sent = Off /\ opens = Off /\ settings = Off /\ budget = Off
  /\ asked = Off /\ log = Off /\ rules = Off /\ changes = Off /\ round = Off /\ phase = Off
  /\ used = Off /\ attempt = Off /\ hints = Off /\ retry = Off /\ best = Off /\ overruns = Off
  /\ stored = Off /\ members = Off /\ upload = Off /\ segments = Off /\ known = Off /\ clock = Off
  /\ allocated = Off /\ spent = Off /\ recs = Off /\ recon = Off /\ status = Off /\ hits = Off
  /\ misses = Off /\ others = Off /\ kpi = Off /\ reports = Off /\ metric = Off /\ optedIn = Off
  /\ now = Off /\ counts = Off /\ anomalies = Off /\ events = Off /\ sentFor = Off /\ input = Off

VNext ==
  /\ scene = "voices" /\ V!Next
  /\ UNCHANGED <<scene, campaign, audience, forbidden, caps, proposals, calendar,
                 queued, seeds, content, raced, tests, asset, group, assigned, sent,
                 opens, settings, budget, asked, log, rules, changes, round, phase,
                 used, attempt, hints, retry, best, overruns, stored, members, upload,
                 segments, known, clock, allocated, spent, recs, recon, status, hits,
                 misses, others, kpi, reports, metric, optedIn, now, counts, anomalies,
                 events, sentFor, input>>

RInit ==
  /\ scene = "reports" /\ R!Init
  /\ campaign = Off /\ audience = Off /\ forbidden = Off /\ caps = Off /\ proposals = Off /\ calendar = Off
  /\ queued = Off /\ seeds = Off /\ content = Off /\ raced = Off /\ tests = Off /\ asset = Off
  /\ group = Off /\ assigned = Off /\ sent = Off /\ opens = Off /\ settings = Off /\ budget = Off
  /\ asked = Off /\ log = Off /\ rules = Off /\ changes = Off /\ round = Off /\ phase = Off
  /\ used = Off /\ attempt = Off /\ hints = Off /\ retry = Off /\ best = Off /\ overruns = Off
  /\ stored = Off /\ voices = Off /\ active = Off /\ members = Off /\ upload = Off /\ segments = Off
  /\ known = Off /\ clock = Off /\ allocated = Off /\ spent = Off /\ recs = Off /\ recon = Off
  /\ metric = Off /\ optedIn = Off /\ now = Off /\ counts = Off /\ anomalies = Off /\ events = Off
  /\ sentFor = Off /\ input = Off

RNext ==
  /\ scene = "reports" /\ R!Next
  /\ UNCHANGED <<scene, campaign, audience, forbidden, caps, proposals, calendar,
                 queued, seeds, content, raced, tests, asset, group, assigned, sent,
                 opens, settings, budget, asked, log, rules, changes, round, phase,
                 used, attempt, hints, retry, best, overruns, stored, voices, active,
                 members, upload, segments, known, clock, allocated, spent, recs,
                 recon, metric, optedIn, now, counts, anomalies, events, sentFor, input>>

ChecksInit == DInit \/ TInit \/ VInit \/ RInit

ChecksNext == DNext \/ TNext \/ VNext \/ RNext

\* These scenes alone.  What the properties below say of them is so in every behaviour
\* of the desk: in another scene they say nothing.
ChecksSpec == ChecksInit /\ [][ChecksNext]_vars
-----------------------------------------------------------------------------
\* The copywriting tool returns an answer with the smallest overrun it got; the
\* verdict stored beside a draft is the verdict on that very text under the rules
\* its task loaded; and a draft that warns, or a variant too close to its
\* baseline, is stored only when every attempt has been spent (generate_asset).
DraftJudged ==
  scene = "drafting" =>
    /\ D!LeastOverrun
    /\ D!VerdictOfStoredText
    /\ D!AttemptsSpent

\* With requests one at a time, an asset of a campaign whose budget is above the
\* threshold in force at its submission is approved by the API only for an admin,
\* whatever settings and budget became since; and a batch approves no flagged
\* asset and none of a campaign whose budget exceeds the auto-approval cap.  The
\* settings are what the last PUT asked for, and an asset in review keeps the
\* thresholds it was submitted under (api/approvals.py, api/approval_settings.py,
\* _flip_drafted_assets_to_pending_approval).
ThresholdGates ==
  [][scene = "thresholds" =>
       /\ T!GateHolds'
       /\ T!BatchWithinCap'
       /\ T!SettingsAsAsked'
       /\ T!SnapshotFrozenStep]_vars

\* Once a voice is active exactly one is, however activations interleave: the
\* query of the content agent expects at most one row, and switching never
\* leaves the agents without a voice, not even when the new one cannot be
\* switched on (_deactivate_others, idx_brand_voice_active).
ExactlyOneVoice == [][scene = "voices" => V!ExactlyOneVoiceStep]_vars

\* However requests and the completion overlap, report versions are 1, 2, ..., the
\* default view is the newest, a completed campaign has its final report, and a
\* custom KPI is not reported missing beside a count of its events (report.py,
\* custom_kpis.py, complete_campaign).
ReportsSound ==
  scene = "reports" =>
    /\ R!LatestIsNewest
    /\ R!CompletedHasFinal
    /\ R!MissingIsMissing
=============================================================================
