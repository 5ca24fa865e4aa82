SPECIFICATION Spec
CONSTANTS
  p1 = p1
  p2 = p2
  v1 = v1
  v2 = v2
  c1 = c1
  c2 = c2
  ws1 = ws1
  i1 = i1
  None = None
  manifest = manifest
  code = code
  Requests = {p1}
  Versions = {v1, v2}
  HostVersions = {v2}
  Contents = {c1, c2}
  Files = {manifest, code}
  Manifest = manifest
  Workspaces = {ws1}
  Instances = {i1}
  Owner <- OwnerIs
  MaxIds = 1
  MaxTasks = 1
  MaxFaults = 2
INVARIANTS
  ReadyIsWhatWasInstalled
CHECK_DEADLOCK FALSE
