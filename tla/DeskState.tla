----------------------------- MODULE DeskState -----------------------------
(***************************************************************************)
(* The desk: what people and the planning and analytics agents do before   *)
(* and after a dispatch.  This module declares its parameters and the      *)
(* variables of its components; a behaviour picks the component that is at *)
(* work, its scene.                                                        *)
(***************************************************************************)
EXTENDS Integers, Sequences, FiniteSets

CONSTANTS
  Sessions,                 \* requests or workers in flight
  NoAmount, Unset, Absent,  \* a column that is null
  Off,                      \* the value of a variable not in use
  Platforms, NoPlatform, PlanAnswers, Duration, Forbiddable, Pcts, Days, CapRules,
  MaxProposals, MaxSeeds, MaxContent, PlanCalls,
  Recipients, hash, Splits, MaxVariants, MaxTests, MaxOpens, Scale, TestCalls,
  Gated, SettingBodies, CampaignBudgets, GateCalls,
  Terms, Variant, MaxOverrun, SimRegenMaxRetries, MaxRetries, MaxRounds, MaxRuleChanges,
  Voices, VoiceCalls,
  Emails, AudienceFiles, SegmentCriteria, People, MaxRows, AudienceCalls,
  Channels, plan, floor, ChannelSnapshots, Amounts, Periods, MaxRecs, BudgetCalls,
  ReportEvents, MaxReports, ReportCalls,
  BaselineDays, MaxTime, MetricEvents, MaxAnomalies,
  Campaigns, Assets, Kinds, campaignOf, channelOf, NoCampaign, NoChannel, MaxMessages, MaxEvents,
  CalendarInputs, FrequencyInputs, ProposingInputs

ASSUME DraftingAssumption == SimRegenMaxRetries \in Nat /\ MaxOverrun \in Nat

\* The bodies of a PUT of the approval settings and the budgets of a PATCH.
ASSUME GatesAssumption ==
  /\ SettingBodies \subseteq [above : Int \cup {NoAmount}, cap : Int, currency : STRING]
  /\ CampaignBudgets \subseteq [total : Int, currency : STRING]

\* What a recipient counts for in a sample.
ASSUME ScaleAssumption == Scale \in Nat

\* A null count is no number.
ASSUME AbsentAssumption == Absent \notin Int

VARIABLES
  scene,   \* the component at work
  campaign, audience, forbidden, caps, proposals, calendar, queued, seeds, calls,
  content, raced, tx, tests, asset, group, assigned, sent, opens, settings, budget,
  asked, log, rules, changes, round, phase, used, attempt, hints, retry, best,
  overruns, stored, voices, active, members, upload, segments, known, clock, allocated,
  spent, recs, recon, status, hits, misses, others, kpi, reports, metric, optedIn, now,
  counts, anomalies, events, sentFor, input

vars ==
  <<scene, campaign, audience, forbidden, caps, proposals, calendar, queued, seeds,
    calls, content, raced, tx, tests, asset, group, assigned, sent, opens, settings,
    budget, asked, log, rules, changes, round, phase, used, attempt, hints, retry,
    best, overruns, stored, voices, active, members, upload, segments, known, clock,
    allocated, spent, recs, recon, status, hits, misses, others, kpi, reports, metric,
    optedIn, now, counts, anomalies, events, sentFor, input>>
=============================================================================
