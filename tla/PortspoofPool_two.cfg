SPECIFICATION FairSpec
CONSTANTS
  ThreadNr = 2
  MaxClientPerThread = 1
  Fds = {3, 4, 5}
  MaxConns = 3
  NotNmapScanner = FALSE
  NfdsSlack = 0
INVARIANTS IInv SlotKeepsItsConnection
PROPERTIES SlotReuse ImplementsService QueuedIsClosed
