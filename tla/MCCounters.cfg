CONSTANTS
  None = None
  Reader = Reader
  d1 = d1
  d2 = d2
  d3 = d3
  d4 = d4
  d5 = d5
  Ta = Ta
  Tb = Tb
  Check = Check
  Workers = {w1, w2, w3, w4}
  Rounds = 2
  Depositors = {d1, d2, d3, d4, d5}
  DepositAmount <- MCDepositAmount
  Start1 = 500
  Start2 = 400
  AmountA = 250
  AmountB = 300
  MaxSpurious = 2
  Toggles = 5
  SumThreads = 4
  ChunkSize = 5
  mario = mario
  luis = luis
  BranchNames = {"ITA", "GER"}
  Customers = {mario, luis}
  Amounts = {50}
  MaxBranches = 3
  MaxAccounts = 2
  MaxDeposits = 2
SPECIFICATION SuiteSpec
INVARIANTS NoLostUpdate BooksBalance ReportsTruthful BankSound
PROPERTIES ImplementsTally DepositsImplementTally MainsJoin
