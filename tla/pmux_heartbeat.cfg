CONSTANTS
  Interval = 2
  Period = 2
  Delay = 1
  Skew = 1
  Timeout = 5
SPECIFICATION Spec
INVARIANTS TypeOK DeadEndNoticed
PROPERTIES NoFalseTimeout
