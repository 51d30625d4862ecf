SPECIFICATION ReviewSpec
CONSTANTS
  Assets = {a1, a2}
  Sessions = {p1, p2}
  Ops <- AllOps
  Redelivering = {"redelivery"}
  MaxTasks = 2
  MaxRedeliveries = 1
  MaxDispatches = 2
SYMMETRY Symmetry
INVARIANTS
  ReviewedHasContent
  DecisionLogged
PROPERTIES
  SerialWorkflow
CHECK_DEADLOCK FALSE
