SPECIFICATION Spec
CONSTANTS
  long = long
  part = part
  full = full
  b = b
  w = w
  IPs <- AllIPs
  NoIP = none
  Size <- Sizes
  Ends <- AllEnds
  Inside <- Parts
  Aton <- InFull
  Order <- Numbers
  Handlers = {h1, h2}
  MaxTouches = 2
  MaxPulls = 0
  MaxBoots = 1
  Pardons = {}
  FeedIPs = {long}
  Whitelist = {w}
  Nets <- NoNets
  Config <- BanOn
INVARIANTS ListedForever
