SPECIFICATION FairSpec
CONSTANTS
  t1 = t1
  t2 = t2
  t3 = t3
  c1 = c1
  c2 = c2
  k1 = k1
  Tasks = {t1}
  Workers = {w1, w2, w3}
  Campaigns = {c1, c2}
  Keys = {k1}
  NoKey = NoKey
  NoWorker = NoWorker
  NoTask = NoTask
  CampaignOf <- MCCampaignOf
  KeyOf <- MCKeyOf
  Registered <- MCRegistered
  MaxAttempts = 3
  MaxCrashes = 1
  MaxOverruns = 2
INVARIANTS
  ExclusiveExecution
  ExecutorsBounded
  AttemptsWithinBudget
PROPERTIES
  FinishedStaysFinished
  EverythingSettles
CHECK_DEADLOCK FALSE
