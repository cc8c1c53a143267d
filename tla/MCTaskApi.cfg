CONSTANTS
  Monitors = {m1, m2}
  Settings <- MCApiSettings
  Groups = {1, 2}
  MaxPackages = 3
  MaxFaults = 0
  MaxLength = 2
  Asks = 1
SPECIFICATION ApiFairSpec
INVARIANTS AnswerOfLastRun AnswerWhole
PROPERTY Answered
CHECK_DEADLOCK FALSE
