SPECIFICATION Spec
CONSTANTS
  name = name
  vat = vat
  ann = ann
  bob = bob
  Fields <- TwoFields
  Users <- TwoUsers
  x = x
  y = y
  Values = {x, y}
  Null = Null
  connector = connector
  people = people
  Sources = {people, connector}
  Writers <- ThreeWriters
  Rules <- OneOfEach
  RequirePrevious = TRUE
  MaxChanges = 3
  MaxDate = 1
SYMMETRY Alike
INVARIANTS AuditChain DecidedByAnother OnlyApprovedValues
PROPERTIES ClosedForever
