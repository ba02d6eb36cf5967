SPECIFICATION Spec
CONSTANTS
  Containers = {c}
  Polls = {p1}
  Nothing = Nothing
  MaxWrites = 1
  MaxChanges = 1
  MaxFaults = 0
INVARIANTS
  CreatedIsReachable
