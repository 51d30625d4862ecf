SPECIFICATION Spec
CONSTANTS
  Sessions = {s1, s2}
  NoAmount = NoAmount
  Unset = Unset
  Absent = Absent
  Off = Off
  Platforms = {"email", "linkedin"}
  NoPlatform = "nowhere"
  PlanAnswers <- StrategyAnswers
  Duration = 7
  Forbiddable = {"linkedin"}
  Pcts = {40}
  Days = {13}
  CapRules <- WeeklyEmail
  MaxProposals = 2
  MaxSeeds = 2
  MaxContent = 1
  PlanCalls = 6
  Recipients = {"r1", "r2"}
  hash <- MCHash
  Splits <- MCSplits
  MaxVariants = 3
  MaxTests = 2
  MaxOpens = 1
  Scale = 3
  TestCalls = 4
  Gated = {"a1"}
  SettingBodies <- Bodies
  CampaignBudgets <- Budgets
  GateCalls = 4
  Terms = {"t1", "t2"}
  Variant = TRUE
  MaxOverrun = 2
  SimRegenMaxRetries = 2
  MaxRetries = 1
  MaxRounds = 1
  MaxRuleChanges = 1
  Voices = {"v1", "v2", "v3"}
  VoiceCalls = 5
  Emails = {"a", "b"}
  AudienceFiles <- Files
  SegmentCriteria <- Criteria
  People <- Persons
  MaxRows = 2
  AudienceCalls = 4
  Channels = {"x", "y"}
  plan <- MCPlan
  floor <- MCFloor
  ChannelSnapshots <- Snapshots
  Amounts = {20099, 20300}
  Periods = {1, 2}
  MaxRecs = 2
  BudgetCalls = 3
  ReportEvents = 2
  MaxReports = 3
  ReportCalls = 3
  BaselineDays = 3
  MaxTime = 7
  MetricEvents = 5
  MaxAnomalies = 2
  Campaigns = {"c1", "c2"}
  Assets = {"a1", "a2"}
  Kinds = {"open"}
  campaignOf <- MCCampaignOf
  channelOf <- MCChannelOf
  NoCampaign = "nowhere"
  NoChannel = "null"
  MaxMessages = 2
  MaxEvents = 2
  CalendarInputs <- CalendarCases
  FrequencyInputs <- Gaps
  ProposingInputs <- ProposingCases
SYMMETRY Symmetry
INVARIANTS
  PlanConsistent
  TestsExclusive
  DraftJudged
  AudienceExact
  BudgetSound
  SpendAsReconciled
  ReportsSound
  AlgorithmsAgree
PROPERTIES
  ReplanKeepsOverrides
  EndsAreFinal
  ThresholdGates
  ExactlyOneVoice
  AlarmsSustained
  KpisAttributed
CHECK_DEADLOCK FALSE
