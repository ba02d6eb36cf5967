SPECIFICATION FairSpec
CONSTANTS
  Prefixes <- Refused
  Segments <- MCSegments
  Requests <- MCRequests
  Files <- MCFiles
  Containers = {c}
  Ports = {80}
  Addrs = {ip}
  Unset = Unset
  StaticExact <- MCStaticExact
  Cuts = {"middle", "empty"}
  Handlers = {h1}
  NewRoutes <- MCNewRoutes
  Patches <- MCPatches
  MaxCommits = 2
  Faults = {"sqlite", "volume", "short", "docker", "bind", "crash", "nginx", "readback"}
  MaxFaults = 1
PROPERTIES
  Convergence
  CleanWritesArePickedUp
  StopTerminates
