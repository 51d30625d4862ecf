SPECIFICATION Spec
CONSTANTS
  Sessions = {s1}
  Assets = {a1}
  NoAmount = NoAmount
  Bodies <- SettingBodies
  Budgets <- CampaignBudgets
  MaxCalls = 4
SYMMETRY Symmetry
INVARIANT AboveNeedsAdmin
CHECK_DEADLOCK FALSE
