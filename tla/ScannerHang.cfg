CONSTANTS
  None = None
  Power = Power
  Frequency = Frequency
  Reader = Reader
  MaxSpurious = 0
SPECIFICATION FairSpec
PROPERTY PowerReachesFrequency
CHECK_DEADLOCK FALSE
