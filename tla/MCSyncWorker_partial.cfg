SPECIFICATION Spec
CONSTANTS
  Prefixes <- OnePrefix
  Segments <- MCSegments
  Requests <- MCRequests
  Files <- MCFiles
  Containers = {c}
  Ports = {80}
  Addrs = {ip}
  Unset = Unset
  StaticExact <- MCStaticExact
  Cuts = {"middle", "empty"}
  Handlers = {h1}
  NewRoutes <- MCNewRoutes
  Patches <- MCPatches
  MaxCommits = 1
  Faults = {"short"}
  MaxFaults = 1
INVARIANTS
  NeverPartial
