SPECIFICATION FairSpec
CONSTANTS
  page = page
  Assets = {e1, s1}
  Social = {s1}
  Required = {e1, s1}
  Recipients = {r1, r2, page}
  Audience <- MCAudience
  Workers = {w1, w2}
  Users = {u1}
  StartCampaign = "live"
  Cap = 9
  MaxRetries = 1
  MaxRequests = 3
  MaxFaults = 0
INVARIANTS
  TypeOK
  NoDoubleSend
PROPERTIES
  EveryAssetLands
CHECK_DEADLOCK FALSE
