CONSTANTS
  x = x
  y = y
  z = z
  Task = {a1}
  Venue = {x, y, z}
  Registered = {x, y}
  Plan <- MCPlan
  Balance = {0, 1, 2}
SPECIFICATION ExecutorSpec
INVARIANT OppositeLegCancelled
