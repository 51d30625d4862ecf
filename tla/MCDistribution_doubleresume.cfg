SPECIFICATION Spec
CONSTANTS
  page = page
  Assets = {e1, s1}
  Social = {s1}
  Required = {e1, s1}
  Recipients = {r1, page}
  Audience <- MCAudience
  Workers = {w1, w2}
  Users = {u1, u2}
  StartCampaign = "live"
  Cap = 9
  MaxRetries = 1
  MaxRequests = 3
  MaxFaults = 0
SYMMETRY Symmetry
INVARIANTS
  NoDoubleSend
CHECK_DEADLOCK FALSE
