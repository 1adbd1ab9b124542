SPECIFICATION Spec
CONSTANTS
  name = name
  total = total
  secret = secret
  Workers = {w1, w2}
  Users = {ann, robot}
  Exempt = {robot}
  Written <- WrittenFields
  Source <- CopiesOfName
  Hidden = {}
  Excluded <- ExcludedFields
  Values = {x, y}
  Empty = Empty
  Settings <- FullOrFast
  Nothing = Nothing
  MaxLogs = 2
  MaxFaults = 1
SYMMETRY Symmetric
INVARIANTS PatchedAsRuled LogsReplay
