\* The ring: two producers and a consumer, three slots, three rounds.  Packets: three
\* producers and consumers, two slots.  Three processes of two messages.
CONSTANTS
  Main = Main
  Logger = Logger
  None = None
  Producers = {p1, p2}
  Consumers = {c1}
  BufferSize = 3
  Rounds = 3
  Requests <- MCRequests
  PacketProducers = {p1, p2, p3}
  PacketConsumers = {c1, c2, c3}
  QueueSize = 2
  Script <- MCScript
  Capacity = 3
  MaxSpurious = 2
  Runs = {p1, p2, p3}
  messages = 2
SPECIFICATION SuiteSpec
INVARIANTS SlotsConserved ViewsBacked SleepersAreOwed RingHoldsAccepted NoStaleTokens
PROPERTIES QueuesImplementChannel MainsJoin
