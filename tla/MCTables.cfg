CONSTANTS
  capacity = 24
  Pads = TRUE
  Sizes = {1, 5, 8, 13}
  BayCapacity = 2
  BayCodes = {"BIOEN-0", "MACHI-0", "MACHI-3", "MACHI-10"}
  BayValues = {1, 16}
  MaxShips = 3
  PacketCapacity = 8
  PacketChecksums = {1, 250}
  MaxBatches = 3
  ItemNames = {"Sword", "Dagger", "Meat"}
  ItemKinds = {"AXE", "SWORD", "POTION"}
  MaxItems = 3
  UnionSize = 4
  MakeTasks = 4
  MakeEdges = 4
  WalkSize = 7
  WalkStarts = {1, 6}
  WalkCalls = 2
SPECIFICATION SuiteSpec
INVARIANTS ArenaSound ContainersSound InventorySound BitsTruthful BaySound GraphsSearched
PROPERTY BothPilotsConfirm
