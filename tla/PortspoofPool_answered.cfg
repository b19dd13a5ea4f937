SPECIFICATION FairSpec
CONSTANTS
  ThreadNr = 1
  MaxClientPerThread = 1
  Fds = {3, 4}
  MaxConns = 4
  NotNmapScanner = FALSE
  NfdsSlack = 0
PROPERTIES EveryProbeAnswered
