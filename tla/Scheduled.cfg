SPECIFICATION Spec
CONSTANTS
  org = org
  www = www
  deep = deep
  any = any
  ip = ip
  top = top
  m1 = m1
  m2 = m2
  m3 = m3
  a1 = a1
  a2 = a2
  task = task
  note = note
  None = None
  PreferDns = FALSE
  Provider = TRUE
  MaxChanges = 1
  MaxFaults = 2
  BatchSize = 2
  MaxDays = 3
PROPERTIES EventuallyCertified EventuallyVacuumed
CHECK_DEADLOCK FALSE
