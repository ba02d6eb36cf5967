SPECIFICATION FairSpec
CONSTANTS
  Prefixes <- OnePrefix
  Segments <- MCSegments
  Requests <- MCRequests
  Files <- MCFiles
  Containers = {c}
  Ports = {80}
  Addrs = {ip}
  Unset = Unset
  StaticExact <- MCStaticExact
  Cuts = {}
  Handlers = {h1}
  NewRoutes <- MCNewRoutes
  Patches <- MCPatches
  MaxCommits = 1
  Faults = {"readback"}
  MaxFaults = 1
PROPERTIES
  WritesArePickedUp
