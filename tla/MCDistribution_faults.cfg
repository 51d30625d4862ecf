SPECIFICATION Spec
CONSTANTS
  page = page
  Assets = {e1, s1}
  Social = {s1}
  Required = {e1, s1}
  Recipients = {r1, page}
  Audience <- MCAudience
  Workers = {w1, w2}
  Users = {u1}
  StartCampaign = "ready_to_launch"
  Cap = 9
  MaxRetries = 1
  MaxRequests = 2
  MaxFaults = 2
SYMMETRY WorkerSymmetry
INVARIANTS
  PublishedAccountsForAll
PROPERTIES
  SentIsTrueAndKept
CHECK_DEADLOCK FALSE
