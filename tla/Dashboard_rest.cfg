SPECIFICATION FairSpec
CONSTANTS
  Containers = {c}
  Polls = {p1}
  Nothing = Nothing
  MaxWrites = 1
  MaxChanges = 1
  MaxFaults = 1
INVARIANTS
  AttachedBeforeCreate
PROPERTIES
  ShowsWhatIs
  BusyEnds
