SPECIFICATION Spec
CONSTANTS
  page = page
  Assets = {e1}
  Social = {}
  Required = {e1}
  Recipients = {r1}
  Audience <- MCAudience
  Workers = {w1}
  Users = {u1}
  StartCampaign = "ready_to_launch"
  Cap = 9
  MaxRetries = 1
  MaxRequests = 1
  MaxFaults = 0
PROPERTIES
  PauseHolds
CHECK_DEADLOCK FALSE
