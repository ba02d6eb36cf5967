SPECIFICATION Spec
CONSTANTS
  Prefixes <- MCPrefixes
  Containers = {"c1", "c2"}
  Ports = {80}
  Addrs = {ip}
  Unset = Unset
  Segments <- MCSegments
  NewRoutes <- MCNewRoutes
  Patches <- MCPatches
  MaxRoutes = 1
  Requests <- MCRequests
  Files <- MCFiles
INVARIANTS
  AlwaysLoadable
