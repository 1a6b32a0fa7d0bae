CONSTANTS
  Tasks = {t1, t2, t3}
  MaxTries = 2
SPECIFICATION SessionSpec
INVARIANT
  OneListener
PROPERTIES
  OneChance
CHECK_DEADLOCK FALSE
