SPECIFICATION FairSpec
CONSTANTS
  a = a
  b = b
  c = c
  Crons <- MCCrons
  Workers = {w1, w2}
  None = None
  Triggers <- OneTrigger
  Exclusions <- SomeExclusions
  MaxCrashes = 1
INVARIANTS NeverTogether
PROPERTIES EveryRunEnds
