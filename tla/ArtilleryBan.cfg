SPECIFICATION Spec
CONSTANTS
  long = long
  part = part
  full = full
  b = b
  w = w
  IPs <- AllIPs
  NoIP = none
  Size <- Sizes
  Ends <- AllEnds
  Inside <- Parts
  Aton <- InFull
  Order <- Numbers
  Handlers = {h1}
  MaxTouches = 1
  MaxPulls = 2
  MaxBoots = 2
  Pardons = {long}
  FeedIPs = {long}
  Whitelist = {w}
  Nets <- NoNets
  Config <- BanOn
INVARIANTS TypeOK OnlyOffenders BannedStaysDropped OffenderDropped BootBlocks ListedKept
