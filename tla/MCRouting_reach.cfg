SPECIFICATION Spec
CONSTANTS
  Prefixes <- MCPrefixes
  Containers = {"c1", "c2"}
  Ports = {80}
  Addrs = {ip}
  Unset = Unset
  Segments <- MCSegments
  NewRoutes <- MCNewRoutes
  Patches <- MCPatches
  MaxRoutes = 2
  Requests <- MCRequests
  Files <- MCFiles
INVARIANTS
  RequestsReachTheirRoute
  AdminNeverShadowed
  RefusedExactly
  AtMostOneRedirect
