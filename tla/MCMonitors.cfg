\* Ten tens of litres; three seconds of patience; lists of three packets; an arena
\* of five bytes; four packets of four bytes in place of sixteen of sixteen.
CONSTANTS
  None = None
  Cleaner = Cleaner
  Filler = Filler
  Opener = Opener
  Power = Power
  Frequency = Frequency
  Reader = Reader
  Device = Device
  User = User
  Report = Report
  Worker = Worker
  Main = Main
  Printer = Printer
  Destroyer = Destroyer
  Reporter = Reporter
  MaxSpurious = 2
  MaxLevel = 10
  Patience = 3
  Delays = {1, 3, 5}
  Horizon = 7
  Quantities = {0, 1, 2, 3, 4}
  ListCapacity = 3
  ArenaAdders = {1, 2, 3, 4, 5, 6}
  ArenaCapacity = 5
  PacketAdders = {1, 2, 3, 4}
  BLOCK_SIZE = 4
  BLOCK = 16
SPECIFICATION SuiteSpec
INVARIANTS PoolStages ReportComplete TankTruthful VerdictJustified RecoStages ArenasSound
PROPERTY ProgramsEnd
CHECK_DEADLOCK FALSE
