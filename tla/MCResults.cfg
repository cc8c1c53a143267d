CONSTANTS
  Monitors = {m1, m2}
  Settings <- MCSettings
  Groups = {1}
  MaxPackages = 3
  MaxFaults = 1
  MaxLength = 3
  Asks = 0
SYMMETRY Symmetry
SPECIFICATION ApiSpec
INVARIANTS CollatedWhole CacheCleared TornOnlyInFlight ChainInStep SaveLimitNearlyKept
CHECK_DEADLOCK FALSE
