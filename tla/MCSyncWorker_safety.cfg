SPECIFICATION Spec
SYMMETRY Symmetry
CONSTANTS
  Prefixes <- Refused
  Segments <- MCSegments
  Requests <- MCRequests
  Files <- MCFiles
  Containers = {c}
  Ports = {80}
  Addrs = {ip}
  Unset = Unset
  StaticExact <- MCStaticExact
  Cuts = {"middle"}
  Handlers = {h1, h2}
  NewRoutes <- MCNewRoutes
  Patches <- MCPatches
  MaxCommits = 2
  Faults = {"sqlite", "volume", "short", "docker", "bind", "crash", "nginx"}
  MaxFaults = 2
INVARIANTS
  TypeOK
  NoLostWakeup
  NobodyJoinsASleeper
  DirtyIsSignalled
  StatusIsHonest
  QuiescentInSync
  AnswersAsListed
PROPERTIES
  InCommitOrder
