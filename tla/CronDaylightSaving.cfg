SPECIFICATION DaylightSpec
CONSTANTS
  Processes = {p1, p2}
  Spring = 49
  Autumn = 121
  Horizon = 170
  MaxLate = 40
  FirstCalls = {0, 1, 2, 5, 23}
  Intervals = {24, 48}
  NumberCalls <- EndlessOrOnce
  Overrun = FALSE
SYMMETRY Symmetric
INVARIANTS FixedHour TwiceAYear
