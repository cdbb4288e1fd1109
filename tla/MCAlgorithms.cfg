CONSTANTS
  Malaga = Malaga
  Sevilla = Sevilla
  Granada = Granada
  Cordoba = Cordoba
  Cities = {Malaga, Sevilla, Granada, Cordoba}
  Start = Malaga
  Kms = {0, 1, 3}
  MaxRoutes = 4
  Unreached = 7
  capacity = 3
  Nodes <- RouteNodes
  HeapNodes <- FewNodes
  HeapCapacity = 5
SPECIFICATION SuiteSpec
INVARIANTS ShortestFound RoutesInOrder ListsRewired ScansRight
PROPERTY HeapIsQueue
SYMMETRY OtherCities
