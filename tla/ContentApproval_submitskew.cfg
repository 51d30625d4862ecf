SPECIFICATION Spec
CONSTANTS
  Assets = {a1, a2}
  Sessions = {p1, p2}
  Ops = {"generate"}
  MaxTasks = 1
  MaxRedeliveries = 0
  MaxDispatches = 1
INVARIANTS
  DraftedMeansSubmitted
CHECK_DEADLOCK FALSE
