SPECIFICATION Spec
CONSTANTS
  Pool = {h1, h2}
  Nobody = Nobody
  MaxSignals = 2
  Faults = {"open", "listen"}
INVARIANTS
  UsesLiveObjects
  FirstSignalIsSafe
PROPERTIES
  StopIsHeeded
