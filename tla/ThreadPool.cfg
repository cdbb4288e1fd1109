\* Three workers, a ring of two slots and four submissions: the ring wraps,
\* fills up (a submission is refused) and empties while workers sleep.
CONSTANTS
  Main = Main
  None = None
  Workers = {w1, w2, w3}
  QueueSize = 2
  NumTasks = 4
  MaxSpurious = 1
SPECIFICATION FairSpec
INVARIANTS TypeOK TaskHasAlertWorker GracefulShutdown
PROPERTIES ImplementsChannel Termination
