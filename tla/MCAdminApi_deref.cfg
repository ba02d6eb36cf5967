SPECIFICATION Spec
CONSTANTS
  Prefixes = {p1, p2}
  Reserved = {admin}
  junk = junk
  c1 = c1
  c2 = c2
  ip1 = ip1
  ip2 = ip2
  Pool <- MCPool
  Containers = {c1, c2}
  Ports = {1, 2}
  MaxPort = 2
  IntRange = 16
  Addrs = {ip1, ip2}
  Unset = Unset
  Gone = Gone
  Handlers = {h1, h2}
  PostBodies <- MCPostBodies
  PatchBodies <- MCPatchBodies
  MaxRoutes = 1
  Faults = {"sqlite", "docker", "crash"}
SYMMETRY Symmetry
INVARIANTS
  NoEmptyDeref
