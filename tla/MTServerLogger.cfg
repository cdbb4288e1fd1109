\* Five connections, the code's QUEUE_SIZE, out of six clients.
CONSTANTS
  None = None
  Clients = {c1, c2, c3, c4, c5, c6}
  QueueSize = 5
SPECIFICATION Spec
INVARIANT RegistersMessage
SYMMETRY Symmetric
