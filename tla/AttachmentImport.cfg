SPECIFICATION FairImportSpec
CONSTANTS
  t1 = t1
  t2 = t2
  t3 = t3
  n1 = n1
  n2 = n2
  Tasks <- ThreeTasks
  Files <- OwnNames
  Passes = {cron, button}
  CronPasses = {cron}
  ButtonTasks = {t1, t2}
  AfterImport <- DeleteAndRename
  AvoidDuplicates = {t2}
  Unreachable = {t3}
  MaxDeposits <- FirstOnceSecondTwice
  MaxImportFaults = 1
  MaxCopies = 2
INVARIANTS ImportedOnce NoFileLost
PROPERTIES NoDuplicateName ReachableIsImported
