SPECIFICATION Spec
CONSTANTS
  Interval = 3
  ShortInterval = 2
  LongAfter = 5
  Patience = 3
  MaxGap = 4
  MaxClock = 12
INVARIANTS
  TypeOK
  NoFalseAlarm
  AlarmRaised
CHECK_DEADLOCK FALSE
