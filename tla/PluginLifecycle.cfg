SPECIFICATION Spec
CONSTANTS
  p1 = p1
  p2 = p2
  v1 = v1
  v2 = v2
  c1 = c1
  c2 = c2
  ws1 = ws1
  i1 = i1
  None = None
  manifest = manifest
  code = code
  Requests = {p1, p2}
  Versions = {v1, v2}
  HostVersions = {}
  Contents = {c1}
  Files = {manifest}
  Manifest = manifest
  Workspaces = {ws1}
  Instances = {i1}
  Owner <- OwnerIs
  MaxIds = 2
  MaxTasks = 2
  MaxFaults = 0
INVARIANTS
  TypeOK
  ReferencesExist
  OneRowPerVersion
  AvailabilityUnlessOverlapped
PROPERTIES
  SuccessIsTrue
SYMMETRY Names
CHECK_DEADLOCK FALSE
