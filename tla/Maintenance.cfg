SPECIFICATION MaintenanceSpec
CONSTANTS
  None = None
  NoLine = NoLine
  o1 = o1
  o2 = o2
  ann = ann
  bob = bob
  carl = carl
  here = here
  l1 = l1
  l2 = l2
  s1 = s1
  base = base
  child = child
  addon = addon
  t1 = t1
  t2 = t2
  rel = rel
  name = name
  extra = extra
  calc = calc
  hq = hq
  far = far
  adm = adm
  MaxMailFaults = 1
  MaxDays = 2
  MaxRuns = 3
  MaxSteps = 3
  NMails = 3
  Items = {li1, li2}
  Owners = {ow1, ow2}
  Values = {v1, v2}
  ItemFields = {"name"}
  Custom = {"name"}
  Private = {"name"}
  Views = {"y"}
  UserValue = UserValue
  NoText = NoText
  Blank = Blank
  Heading = "head"
  MaxLines = 2
  General = General
  OneRecord = OneRecord
  Nothing = Nothing
  Unknown = Unknown
  price = price
  account = account
  obsolete = obsolete
  low = low
  high = high
  NProperties = 3
  Exports = {e1, e2}
  Jobs = {job}
  Buttons = {pressed}
  MaxExportFaults = 1
  Fetchers = {cron, button}
  Objects = {o1, o2}
  Configs = {l1, s1, l2}
  Local = {l1, l2}
  Models = {base, child, addon}
  AutoModels = {base, child, addon}
  Magic = {pk}
  KeptTables = {route}
  Companies = {1, 2}
  Remote = {ann, bob, hq, far, adm}
  Own = {1, 2}
  Policies = {"skip", "overwrite", "overwrite_empty"}
  Chunk = 2
  Tables = {"order", "notes"}
  Address <- TwoAddresses
  Sent <- ThreeMails
  Settings <- FourSettings
  Keep <- OneDay
  Needs <- ChildNeedsBase
  Table <- SharedTable
  Stored <- StoredFields
  Unstored <- ComputedField
  Retired <- RetiredField
  Relations <- OneRelation
  References <- ForeignKeys
  Properties <- PropertyRows
  Order <- ImportOrder
  Link <- Links
  Mapped <- OneMapping
  Shapes <- FieldShapes
  Cases <- AnalysisCases
  Upgrades <- UpgradeCases
  LineValues <- ThreeLines
  Number <- NumberRead
  Templates <- FourTemplates
SYMMETRY FetcherSymmetry
INVARIANTS NoMailLost BackupKept InUseKept RecordsImportedOnce ChangesReported XmlidsTold NoupdateUpgraded SheetFaithful EffectiveKept DoneIsExported
PROPERTIES NetChangesTold
CHECK_DEADLOCK FALSE
