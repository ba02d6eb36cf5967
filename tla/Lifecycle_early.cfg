SPECIFICATION Spec
CONSTANTS
  Pool = {h1}
  Nobody = Nobody
  MaxSignals = 1
  Faults = {}
PROPERTIES
  SignalsStop
