SPECIFICATION FairSpec
CONSTANTS
  base = base
  sale = sale
  Modules <- Both
  Requires <- SaleNeedsBase
  NoChecksum = NoChecksum
  MaxVersion = 3
  MaxFaults = 2
  Meddling = FALSE
INVARIANTS NoMissedUpgrade SuccessIsTrue
PROPERTIES EventuallyUpToDate
