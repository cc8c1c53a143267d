CONSTANTS
  FirstYear = 2024
  LastYear = 2032
  Base = 0
  Summer <- London
  any = any
  other = other
  a1 = a1
  a2 = a2
  b1 = b1
  default = default
  second = second
  Schedules = {any, other}
  Sentinels = {a1, a2, b1}
  NameOf <- Clusters
  PREFIX = default
  Templates <- Rows
  MaxFires = 3
  MaxFaults = 1
  MaxMissed = 1
SYMMETRY Symmetry
SPECIFICATION Spec
INVARIANTS SlotsOnce NoSlotSkipped NoBacklog RepeatsExact WallClockKept OnItsDay
CHECK_DEADLOCK FALSE
