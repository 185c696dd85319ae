SPECIFICATION Spec
CONSTANTS
  Runs = {r1}
  Calls = {c1, c2}
  MaxAttempts = 2
  MaxTasks = 4
INVARIANTS
    NothingRepeated
    ToolsAreCancellable
PROPERTIES
    KeepsContract
    RunSettles
