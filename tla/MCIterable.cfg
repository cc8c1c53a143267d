CONSTANTS
  Monitors = {m1}
  Settings <- MCSettings
  Groups = {1}
  MaxPackages = 3
  MaxFaults = 1
  MaxLength = 3
  Asks = 0
SPECIFICATION ApiSpec
INVARIANT CollatesAll
CHECK_DEADLOCK FALSE
